------------------------------- MODULE Coseq --------------------------------
(***************************************************************************)
(* The event queues and the lock of one coseq module (sched_loop of        *)
(* coseq.c).  A module is one thread; its sequences are fibers, and a      *)
(* fiber runs until it waits.  Whoever wants something from the module     *)
(* appends an event to its inbox.  Each turn of the loop takes the whole   *)
(* inbox as a batch, resumes the fibers whose timers have expired, then    *)
(* handles the batch in order.  While a fiber holds the module's lock,     *)
(* events that are neither a notification nor a reply to that fiber are    *)
(* set aside in deferred, and put back in front of the inbox at the start  *)
(* of a turn that finds the lock free.                                     *)
(*                                                                         *)
(* The module is a component's scheduler: a component's module EXTENDS it  *)
(* and supplies the fibers.  An event is a record whose field "type" is    *)
(* "START", "REPLY" or "NOTIFY".                                           *)
(***************************************************************************)
EXTENDS Sequences

VARIABLES
  inbox,      \* events posted and not yet taken
  batch,      \* what is left of the events this turn of the loop took
  due,        \* fibers whose timer had expired when this turn began
  deferred,   \* events set aside while the module is locked
  locked_by   \* the fiber that holds the lock, or NoFiber

queues == <<inbox, batch, due, deferred>>

NoFiber == "none"

(* Everything that was posted and has not been handled yet.                 *)
flight == (deferred \o batch) \o inbox

CoseqInit ==
  /\ inbox = <<>>
  /\ batch = <<>>
  /\ due = {}
  /\ deferred = <<>>
  /\ locked_by = NoFiber

(* post(): any thread appends to the inbox.                                 *)
Post(events) == inbox' = inbox \o events

(* Mutant: the timer pass does not look at the lock.                        *)
MayResumeLocked(f) == f # NoFiber

(* A fiber may be resumed by its timer only if nobody else holds the lock.  *)
MayResume(f) == locked_by \in {NoFiber, f}

(* The top of the loop.  The thread sleeps while there is neither an event  *)
(* nor an expired timer it may act on.  Timers that expire are input.       *)
BeginTurn(expired) ==
  LET events == IF locked_by = NoFiber THEN deferred \o inbox ELSE inbox
  IN /\ batch = <<>> /\ due = {}
     /\ events # <<>> \/ \E f \in expired : MayResume(f)
     /\ batch' = events
     /\ due' = expired
     /\ deferred' = IF locked_by = NoFiber THEN <<>> ELSE deferred
     /\ inbox' = <<>>
     /\ UNCHANGED locked_by

(* The timer pass of a turn: an expired fiber is resumed, or passed over    *)
(* because of the lock (its timer stays set for a later turn).              *)
ResumeTimer(f) ==
  /\ f \in due
  /\ MayResume(f)
  /\ due' = due \ {f}
  /\ UNCHANGED <<batch, deferred>>

SkipTimer(f) ==
  /\ f \in due
  /\ ~MayResume(f)
  /\ due' = due \ {f}
  /\ UNCHANGED <<inbox, batch, deferred, locked_by>>

(* Mutant: the reply to the lock's holder is set aside like any other.      *)
DeferrableReply(e, owner) == locked_by # NoFiber /\ e.type # "NOTIFY"

(* The event pass.  owner is the fiber that waits for a REPLY               *)
(* (pending_peek), or NoFiber.                                              *)
Deferrable(e, owner) ==
  /\ locked_by # NoFiber
  /\ e.type # "NOTIFY"
  /\ ~(e.type = "REPLY" /\ owner = locked_by)

EventIs(e) == due = {} /\ batch # <<>> /\ e = Head(batch)

Defer(e, owner) ==
  /\ EventIs(e)
  /\ Deferrable(e, owner)
  /\ batch' = Tail(batch)
  /\ deferred' = Append(deferred, e)
  /\ UNCHANGED <<inbox, due, locked_by>>

Take(e, owner) ==
  /\ EventIs(e)
  /\ ~Deferrable(e, owner)
  /\ batch' = Tail(batch)
  /\ UNCHANGED <<due, deferred>>

(* coseq_lock takes the lock without looking; coseq_unlock and the end of a *)
(* fiber give it up only if that fiber has it.                              *)
LockFor(f) == locked_by' = f
Released(f) == IF locked_by = f THEN NoFiber ELSE locked_by
=============================================================================
