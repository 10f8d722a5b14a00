---------------------------- MODULE FeedDelivery ----------------------------
(***************************************************************************)
(* What the fan-out of one tweet promises, without queues and workers: the *)
(* author's newsfeed gets the tweet first; then the audience is fixed once *)
(* and gets it in groups of at most BatchSize, each group as a whole and   *)
(* nobody twice.  A delivery may stop at any point.                        *)
(***************************************************************************)
EXTENDS Integers, FiniteSets

CONSTANTS User, Author, BatchSize

VARIABLES feeds,     \* the users whose newsfeed has the tweet
          audience,  \* who is to get it besides the author
          phase      \* "new", "own" (the author has it) or "out"

Init == feeds = {} /\ audience = {} /\ phase = "new"

DeliverOwn ==
  /\ phase = "new" /\ phase' = "own"
  /\ feeds' = {Author}
  /\ UNCHANGED audience

FixAudience ==
  /\ phase = "own" /\ phase' = "out"
  /\ audience' \in SUBSET (User \ {Author})
  /\ UNCHANGED feeds

DeliverGroup ==
  /\ phase = "out"
  /\ \E group \in SUBSET (audience \ feeds) :
       /\ Cardinality(group) \in 1..BatchSize
       /\ feeds' = feeds \cup group
  /\ UNCHANGED <<audience, phase>>

Next == DeliverOwn \/ FixAudience \/ DeliverGroup

Spec == Init /\ [][Next]_<<feeds, audience, phase>>
=============================================================================
