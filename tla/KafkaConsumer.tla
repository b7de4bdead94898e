---------------------------- MODULE KafkaConsumer ----------------------------
(***************************************************************************)
(* pkg/kafka: one consumer of one topic, as geo-service runs four of them. *)
(* Messages are offsets 1..published.  A commit only marks an offset; the  *)
(* reader flushes the mark once a second, so a crash loses it.  A handler  *)
(* that returns an error is logged and its message committed.              *)
(***************************************************************************)
EXTENDS Naturals

CONSTANTS MaxMessages,  \* bound on what is published
          MaxCrashes,   \* bound on the crashes of the consumer
          Malformed     \* offsets whose value is not an event

VARIABLES published,
          up,           \* the consumer runs
          position,     \* next offset it fetches
          phase, message,  \* the iteration of consume, and the message in hand
          marked,       \* committed in memory, 0 when nothing is
          committed,    \* committed at the broker, 0 when the group has no offset
          handled,      \* history: offsets the handler was called with
          first,        \* history: the offset the group started from
          crashes
kafkaVars == <<published, up, position, phase, message, marked, committed, handled, first, crashes>>

Offsets == 1..MaxMessages

TypeOK ==
    /\ published \in 0..MaxMessages /\ up \in BOOLEAN
    /\ position \in 0..(MaxMessages + 1) /\ message \in 0..MaxMessages
    /\ phase \in {"fetch", "handle", "commit"}
    /\ marked \in 0..MaxMessages /\ committed \in 0..MaxMessages
    /\ handled \subseteq Offsets /\ crashes \in 0..MaxCrashes
    /\ first \in 0..(MaxMessages + 1)

Init == /\ published = 0 /\ up = FALSE /\ position = 0 /\ phase = "fetch" /\ message = 0
        /\ marked = 0 /\ committed = 0 /\ handled = {} /\ first = 0 /\ crashes = 0

Publish ==
    /\ published < MaxMessages /\ published' = published + 1
    /\ UNCHANGED <<up, position, phase, message, marked, committed, handled, first, crashes>>

(* Mutant: the committed offset is not used. *)
StartAtEnd == published + 1
(* StartOffset: LastOffset, which counts only while the group has no offset. *)
StartOffset == IF committed = 0 THEN published + 1 ELSE committed + 1

Start ==
    /\ ~up /\ up' = TRUE /\ position' = StartOffset
    /\ first' = IF committed = 0 THEN StartOffset ELSE first
    /\ UNCHANGED <<published, phase, message, marked, committed, handled, crashes>>

(* Mutant: a message is committed before it is handled. *)
CommitFirst(s) == CASE s = "fetch" -> "commit" [] s = "commit" -> "handle" [] OTHER -> "fetch"
(* The order of the statements of consume. *)
After(s) == CASE s = "fetch" -> "handle" [] s = "handle" -> "commit" [] OTHER -> "fetch"

FetchMessage ==
    /\ up /\ phase = "fetch" /\ position <= published
    /\ message' = position /\ position' = position + 1
    /\ phase' = IF position \in Malformed THEN "commit" ELSE After("fetch")
    /\ UNCHANGED <<published, up, marked, committed, handled, first, crashes>>

(* Whether it returns an error makes no difference. *)
CallHandler ==
    /\ up /\ phase = "handle"
    /\ handled' = handled \cup {message} /\ phase' = After("handle")
    /\ UNCHANGED <<published, up, position, message, marked, committed, first, crashes>>

CommitMessages ==
    /\ up /\ phase = "commit"
    /\ marked' = message
    /\ phase' = IF message \in Malformed THEN "fetch" ELSE After("commit")
    /\ UNCHANGED <<published, up, position, message, committed, handled, first, crashes>>

(* CommitInterval *)
Flush ==
    /\ up /\ marked # 0 /\ marked # committed
    /\ committed' = marked
    /\ UNCHANGED <<published, up, position, phase, message, marked, handled, first, crashes>>

Crash ==
    /\ up /\ crashes < MaxCrashes /\ crashes' = crashes + 1
    /\ up' = FALSE /\ phase' = "fetch" /\ message' = 0 /\ marked' = 0 /\ position' = 0
    /\ UNCHANGED <<published, committed, handled, first>>

Next == Publish \/ Start \/ FetchMessage \/ CallHandler \/ CommitMessages \/ Flush \/ Crash
Spec == Init /\ [][Next]_kafkaVars
(* An orchestrator restarts the process, a goroutine that can run does, and  *)
(* the reader's ticker fires.                                                *)
Fairness == /\ WF_kafkaVars(Start) /\ WF_kafkaVars(Flush)
            /\ WF_kafkaVars(FetchMessage \/ CallHandler \/ CommitMessages)

-----------------------------------------------------------------------------
(* Properties *)

(* What the broker takes as done, the handler has seen: no crash loses a     *)
(* message between the group's first offset and the committed one.           *)
CommittedHandled ==
    \A o \in Offsets : first <= o /\ o <= committed => o \in handled \cup Malformed

(* Once the group has an offset, it catches up with whatever is published,   *)
(* across crashes.  (Before that a restart begins at the end of the topic.)  *)
Behind == committed # 0 /\ \E o \in Offsets : /\ first <= o /\ o <= published
                                             /\ o \notin handled \cup Malformed
CatchesUp == Behind ~> ~Behind
=============================================================================
