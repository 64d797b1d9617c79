----------------------------- MODULE AsyncStore -----------------------------
(***************************************************************************)
(* What message.Cache.AddMessage promises when writes are batched: an      *)
(* accepted message is written to the messages table once, or is lost with *)
(* a failed write or with the process; a row is never written for a message *)
(* that was not accepted, and rows are only ever appended.                 *)
(***************************************************************************)
EXTENDS Sequences, Functions

CONSTANT Elements       \* the messages handed to AddMessage

VARIABLES
    accepted,           \* messages whose Enqueue passed its critical section
    stored,             \* rows of the messages table, by autoincrement id
    lost                \* accepted messages that no process holds any more

avars == <<accepted, stored, lost>>

AInit ==
    /\ accepted = {}
    /\ stored = <<>>
    /\ lost = {}

Outstanding == accepted \ (Range(stored) \union lost)

AAccept(e) ==
    /\ e \in Elements \ accepted
    /\ accepted' = accepted \union {e}
    /\ UNCHANGED <<stored, lost>>

\* The rows added by one step: a batch of distinct outstanding messages.
AStore(batch) ==
    /\ Range(batch) \subseteq Outstanding
    /\ IsInjective(batch)
    /\ stored' = stored \o batch
    /\ UNCHANGED <<accepted, lost>>

ALose ==
    /\ lost \subseteq lost'
    /\ lost' \ lost \subseteq Outstanding
    /\ UNCHANGED <<accepted, stored>>

ANext ==
    \/ \E e \in Elements : AAccept(e)
    \/ AStore(SubSeq(stored', Len(stored) + 1, Len(stored')))
    \/ ALose

ASpec == AInit /\ [][ANext]_avars

=============================================================================
