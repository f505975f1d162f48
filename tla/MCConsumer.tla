----------------------------- MODULE MCConsumer -----------------------------
(***************************************************************************)
(* Small instances of the consumer for TLC.                                *)
(***************************************************************************)
EXTENDS ConsumerProperties

\* One S3 record, an envelope of two, a message that is not JSON, one that
\* flatten_event raises on, and one whose row cannot be converted.
MCRowCount ==
    [k \in Payloads |->
        CASE k = "object"      -> 1
          [] k = "envelope"    -> 2
          [] k = "undecodable" -> 0
          [] k = "raising"     -> 1
          [] k = "unwritable"  -> 1]

MCUndecodable == Payloads \cap {"undecodable"}
MCRaising == Payloads \cap {"raising"}
MCUnwritable == Payloads \cap {"unwritable"}
=============================================================================
