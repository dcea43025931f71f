--------------------------- MODULE MCSubscriptions ---------------------------
(* Small instances of Subscriptions for TLC.                               *)
EXTENDS Subscriptions

\* One interval is enough for the life cycle; two let a plan change
\* shorten or lengthen the period under a renewal.
MCOneDay == {1}
MCOneInterval == {2}
MCTwoIntervals == {1, 2}
MCAllEvents == {"activated", "payment_failed", "suspended", "canceled"}

=============================================================================
