-------------------------- MODULE CollectorMetrics --------------------------
(***************************************************************************)
(* GET /metrics beside the handlers and the writer of Collector.  The      *)
(* counters are atomic one by one and the scrape loads them one by one, so *)
(* what it shows never was the collector's state at any one time.  Only    *)
(* the order of the loads, against the order in which handlers and writer  *)
(* add to the counters, relates the numbers it shows.                      *)
(*                                                                         *)
(* One scrape is modelled: it reads only, so two do not affect each other. *)
(***************************************************************************)
EXTENDS Collector

VARIABLE scrape  \* the loads done so far, and the value each one read

mvars == <<vars, scrape>>

\* serveMetrics reads the budget in use, and snapshot loads the counters in
\* this order; "gauge" is queuedEvents.
LoadReceivedFirst ==                                      \* mutant of LoadOrder
    <<"gauge", "received", "eventsReceived", "decode", "validation", "overload",
      "storage", "1", "2_10", "11_50", "51_100", "101_250", "251_500", "gt_500",
      "persisted", "eventsPersisted">>
LoadOrder ==
    <<"gauge", "decode", "validation", "overload", "storage",
      "1", "2_10", "11_50", "51_100", "101_250", "251_500", "gt_500",
      "received", "eventsReceived", "persisted", "eventsPersisted">>

MInit == Init /\ scrape = <<>>

Load ==
    /\ Len(scrape) < Len(LoadOrder)
    /\ LET c == LoadOrder[Len(scrape) + 1]
       IN  scrape' = Append(scrape, IF c = "gauge" THEN queuedEvents ELSE metrics[c])
    /\ UNCHANGED vars

\* A kill takes the scrape with it.
MNext == \/ Load
         \/ Next /\ scrape' = IF crashes' = crashes THEN scrape ELSE <<>>

MSpec == MInit /\ [][MNext]_mvars

----------------------------------------------------------------------------
(* Properties.                                                             *)

Complete == Len(scrape) = Len(LoadOrder)
Shown(c) == scrape[CHOOSE i \in DOMAIN LoadOrder : LoadOrder[i] = c]

Rejections == Shown("validation") + Shown("overload") + Shown("storage")
ShownBatches == Shown("1") + Shown("2_10") + Shown("11_50") + Shown("51_100")
                  + Shown("101_250") + Shown("251_500") + Shown("gt_500")
\* The fewest events the batches of each bucket can have.
FewestEvents == Shown("1") + 2 * Shown("2_10") + 11 * Shown("11_50")
                  + 51 * Shown("51_100") + 101 * Shown("101_250")
                  + 251 * Shown("251_500") + 501 * Shown("gt_500")

\* A scrape is not of one moment, but what it shows adds up: no more
\* rejections than batches received, but for the bodies that are rejected
\* without being received (undecodable, empty), and in the histogram no more
\* batches, and no more events at the least, than were received.
ScrapeAddsUp ==
    Complete =>
        /\ Rejections <= Shown("received") + Cardinality(Empty)
        /\ ShownBatches <= Shown("received")
        /\ FewestEvents <= Shown("eventsReceived")

=============================================================================
