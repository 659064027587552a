----------------------------- MODULE FifoQueue -----------------------------
(***************************************************************************)
(* What a pyasyncio.Queue promises its callers, with no mutex, condition   *)
(* variable or worker goroutine in sight: every call is invoked, takes     *)
(* effect at one instant and returns; items leave in the order they were   *)
(* accepted; a bounded queue never holds more than MaxSize of them.        *)
(* Queue.tla is shown to implement this specification.                     *)
(*                                                                         *)
(* A call is made at most once and is known by its identity; the item a    *)
(* put call carries is the call itself.                                    *)
(***************************************************************************)
EXTENDS Integers, Sequences

CONSTANTS PutCalls, GetCalls, JoinCalls,  \* the calls clients may make
          MaxSize,                        \* zero or negative: unbounded
          NoItem                          \* not the name of any call

VARIABLES queue,      \* the accepted items nobody has taken yet
          unfinished, \* accepted items whose processing was not reported
          shut,       \* Close was called
          phase,      \* where each call is
          answer,     \* what each call that took effect will return
          taken,      \* the item each get call removed
          reported,   \* get calls whose client reported TaskDone
          withdrawn   \* calls whose context was cancelled

fvars == <<queue, unfinished, shut, phase, answer, taken, reported, withdrawn>>

Calls == PutCalls \cup GetCalls \cup JoinCalls
Phases == {"idle", "invoked", "blocked", "effected", "returned"}

HasRoom == MaxSize <= 0 \/ Len(queue) < MaxSize

FInit ==
  /\ queue = <<>> /\ unfinished = 0 /\ shut = FALSE
  /\ phase = [c \in Calls |-> "idle"]
  /\ answer = [c \in Calls |-> "none"]
  /\ taken = [g \in GetCalls |-> NoItem]
  /\ reported = {} /\ withdrawn = {}

Invoke(c) ==
  /\ phase[c] = "idle"
  /\ phase' = [phase EXCEPT ![c] = "invoked"]
  /\ UNCHANGED <<queue, unfinished, shut, answer, taken, reported, withdrawn>>

\* A call is committed to waiting: a put only while the queue is open and full.
Block(c) ==
  /\ phase[c] = "invoked"
  /\ c \in PutCalls => ~shut /\ ~HasRoom
  /\ c \in GetCalls => queue = <<>>
  /\ c \in JoinCalls => unfinished > 0
  /\ phase' = [phase EXCEPT ![c] = "blocked"]
  /\ UNCHANGED <<queue, unfinished, shut, answer, taken, reported, withdrawn>>

\* The instant at which call c is answered a: its worker is done with it, or
\* (a nowait call) it is back with the client in the same step.
Answered(c, a) ==
  /\ phase[c] \in {"invoked", "blocked"}
  /\ phase' = [phase EXCEPT ![c] = "effected"]
  /\ answer' = [answer EXCEPT ![c] = a]

AnsweredNowait(c, a) ==
  /\ phase[c] = "idle"
  /\ phase' = [phase EXCEPT ![c] = "returned"]
  /\ answer' = [answer EXCEPT ![c] = a]

\* Only a put that was invoked (or blocked) before Close is accepted after it.
Accept(p) ==
  /\ HasRoom /\ (shut => phase[p] = "blocked")
  /\ queue' = Append(queue, p) /\ unfinished' = unfinished + 1
  /\ Answered(p, "nil") \/ AnsweredNowait(p, "nil")
  /\ UNCHANGED <<shut, taken, reported, withdrawn>>

Deliver(g) ==
  /\ queue # <<>>
  /\ queue' = Tail(queue) /\ taken' = [taken EXCEPT ![g] = Head(queue)]
  /\ Answered(g, "nil") \/ AnsweredNowait(g, "nil")
  /\ UNCHANGED <<unfinished, shut, reported, withdrawn>>

Release(j) ==
  /\ unfinished = 0
  /\ Answered(j, "nil")
  /\ UNCHANGED <<queue, unfinished, shut, taken, reported, withdrawn>>

RefuseClosed(p) ==
  /\ shut
  /\ Answered(p, "closed") \/ AnsweredNowait(p, "closed")
  /\ UNCHANGED <<queue, unfinished, shut, taken, reported, withdrawn>>

RefuseNowait(c) ==
  /\ \/ c \in PutCalls /\ ~HasRoom /\ ~shut /\ AnsweredNowait(c, "full")
     \/ c \in GetCalls /\ queue = <<>> /\ AnsweredNowait(c, "empty")
  /\ UNCHANGED <<queue, unfinished, shut, taken, reported, withdrawn>>

\* A blocked call may give up when its context is cancelled, and only then has
\* it no effect on the queue.
GiveUp(c) ==
  /\ c \in withdrawn /\ phase[c] = "blocked"
  /\ Answered(c, "ctx")
  /\ UNCHANGED <<queue, unfinished, shut, taken, reported, withdrawn>>

\* A put or a join whose context is cancelled reports the cancellation even
\* when it has taken effect; a get always reports what it took.
Return(c) ==
  /\ phase[c] = "effected"
  /\ phase' = [phase EXCEPT ![c] = "returned"]
  /\ \E a \in {answer[c]} \cup (IF c \in withdrawn \ GetCalls THEN {"ctx"} ELSE {}) :
       answer' = [answer EXCEPT ![c] = a]
  /\ UNCHANGED <<queue, unfinished, shut, taken, reported, withdrawn>>

Withdraw(c) ==
  /\ phase[c] \in {"invoked", "blocked", "effected"}
  /\ withdrawn' = withdrawn \cup {c}
  /\ UNCHANGED <<queue, unfinished, shut, phase, answer, taken, reported>>

Report(g) ==
  /\ phase[g] = "returned" /\ answer[g] = "nil" /\ g \notin reported
  /\ reported' = reported \cup {g} /\ unfinished' = unfinished - 1
  /\ UNCHANGED <<queue, shut, phase, answer, taken, withdrawn>>

Shut ==
  /\ shut' = TRUE
  /\ UNCHANGED <<queue, unfinished, phase, answer, taken, reported, withdrawn>>

FNext ==
  \/ \E c \in Calls : Invoke(c) \/ Block(c) \/ GiveUp(c) \/ Return(c) \/ RefuseNowait(c)
                   \/ Withdraw(c)
  \/ \E p \in PutCalls : Accept(p) \/ RefuseClosed(p)
  \/ \E g \in GetCalls : Deliver(g) \/ Report(g)
  \/ \E j \in JoinCalls : Release(j)
  \/ Shut

FSpec == FInit /\ [][FNext]_fvars
=============================================================================
