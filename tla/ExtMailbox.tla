----------------------------- MODULE ExtMailbox -----------------------------
(***************************************************************************)
(* The mailbox through which threads that are not coseq modules (the HTTP  *)
(* worker threads, the command server's console, main) call a module and   *)
(* wait for its reply: _request_sync, _request_async and ext_deliver of    *)
(* coseq.c.  There is one mailbox per coseq instance; ext_mtx guards it,   *)
(* and pthread_cond_wait gives ext_mtx up while a caller waits, so a       *)
(* second caller can enter _request_sync before the first has its reply.   *)
(* A reply is represented by the request it answers.                       *)
(***************************************************************************)
EXTENDS Naturals

CONSTANTS Callers,   \* the external threads
          MaxId      \* bound: how many request ids (ext_id) are handed out

NoReq == 0           \* the (uint32_t)-1 that matches no request; ids start at 1 here

ASSUME MaxIdAssumption == MaxId \in Nat

VARIABLES
  pc,            \* [Callers -> {"idle", "blocked", "woken"}]
  rid,           \* [Callers -> request id the caller's current call was given]
  ext_id,        \* next request id
  ext_wait_rid,  \* the request whose reply ext_deliver accepts
  ext_ready,     \* a reply is in the mailbox
  ext_result,    \* that reply
  unanswered,    \* requests some module has not replied to yet
  returned       \* [Callers -> request and reply of the caller's last return]

mailbox == <<pc, rid, ext_id, ext_wait_rid, ext_ready, ext_result, unanswered, returned>>

ReqId == 1..MaxId
Req   == ReqId \cup {NoReq}

MailboxInit ==
  /\ pc = [t \in Callers |-> "idle"]
  /\ rid = [t \in Callers |-> NoReq]
  /\ ext_id = 1
  /\ ext_wait_rid = NoReq
  /\ ext_ready = FALSE
  /\ ext_result = NoReq
  /\ unanswered = {}
  /\ returned = [t \in Callers |-> [req |-> NoReq, reply |-> NoReq]]

-----------------------------------------------------------------------------
(* _request_sync up to its first pthread_cond_wait: ext_ready was cleared   *)
(* under the same mutex, so the loop is always entered.                     *)
RequestSync(t) ==
  /\ pc[t] = "idle"
  /\ ext_id <= MaxId
  /\ rid' = [rid EXCEPT ![t] = ext_id]
  /\ ext_wait_rid' = ext_id
  /\ ext_ready' = FALSE
  /\ unanswered' = unanswered \cup {ext_id}
  /\ ext_id' = ext_id + 1
  /\ pc' = [pc EXCEPT ![t] = "blocked"]
  /\ UNCHANGED <<ext_result, returned>>

(* _request_async: takes an id and posts; nobody waits for the reply.       *)
ExtRequestAsync ==
  /\ ext_id <= MaxId
  /\ unanswered' = unanswered \cup {ext_id}
  /\ ext_id' = ext_id + 1
  /\ UNCHANGED <<pc, rid, ext_wait_rid, ext_ready, ext_result, returned>>

(* Mutants: any reply is taken for the awaited one; the reply is stored but *)
(* nobody is signalled.                                                     *)
ExtDeliverAny(r) ==
  /\ r \in unanswered
  /\ unanswered' = unanswered \ {r}
  /\ ext_result' = r /\ ext_ready' = TRUE
  /\ pc' = [t \in Callers |-> IF pc[t] = "blocked" THEN "woken" ELSE pc[t]]
  /\ UNCHANGED <<rid, ext_id, ext_wait_rid, returned>>

ExtDeliverUnsignalled(r) ==
  /\ r \in unanswered
  /\ unanswered' = unanswered \ {r}
  /\ ext_result' = IF r = ext_wait_rid THEN r ELSE ext_result
  /\ ext_ready' = (ext_ready \/ r = ext_wait_rid)
  /\ UNCHANGED <<pc, rid, ext_id, ext_wait_rid, returned>>

(* ext_deliver: a module replies to request r.  A reply nobody is marked as *)
(* waiting for is dropped; otherwise one blocked caller, if any, is         *)
(* signalled, and POSIX does not say which.                                 *)
ExtDeliver(r) ==
  /\ r \in unanswered
  /\ unanswered' = unanswered \ {r}
  /\ IF r = ext_wait_rid
     THEN /\ ext_result' = r
          /\ ext_ready' = TRUE
          /\ \/ \E t \in Callers : /\ pc[t] = "blocked"
                                   /\ pc' = [pc EXCEPT ![t] = "woken"]
             \/ /\ \A t \in Callers : pc[t] # "blocked"
                /\ UNCHANGED pc
     ELSE UNCHANGED <<ext_result, ext_ready, pc>>
  /\ UNCHANGED <<rid, ext_id, ext_wait_rid, returned>>

(* POSIX condition variables may wake a waiter that nobody signalled.       *)
SpuriousWakeup(t) ==
  /\ pc[t] = "blocked"
  /\ pc' = [pc EXCEPT ![t] = "woken"]
  /\ UNCHANGED <<rid, ext_id, ext_wait_rid, ext_ready, ext_result, unanswered, returned>>

(* The loop test after the wait: back to sleep, or the rest of              *)
(* _request_sync, which closes the mailbox and empties it but leaves        *)
(* ext_ready set.                                                           *)
WaitAgain(t) ==
  /\ pc[t] = "woken"
  /\ ~ext_ready
  /\ pc' = [pc EXCEPT ![t] = "blocked"]
  /\ UNCHANGED <<rid, ext_id, ext_wait_rid, ext_ready, ext_result, unanswered, returned>>

Returns(t) ==
  /\ pc[t] = "woken"
  /\ ext_ready
  /\ ext_wait_rid' = NoReq
  /\ returned' = [returned EXCEPT ![t] = [req |-> rid[t], reply |-> ext_result]]
  /\ pc' = [pc EXCEPT ![t] = "idle"]
  /\ UNCHANGED <<rid, ext_id, ext_ready, ext_result, unanswered>>

MailboxNext ==
  \/ \E t \in Callers : RequestSync(t) \/ SpuriousWakeup(t) \/ WaitAgain(t) \/ Returns(t)
  \/ ExtRequestAsync
  \/ \E r \in ReqId : ExtDeliver(r)

MailboxSpec == MailboxInit /\ [][MailboxNext]_mailbox

-----------------------------------------------------------------------------
MailboxTypeOK ==
  /\ pc \in [Callers -> {"idle", "blocked", "woken"}]
  /\ rid \in [Callers -> Req]
  /\ ext_id \in 1..(MaxId + 1)
  /\ ext_wait_rid \in Req
  /\ ext_ready \in BOOLEAN
  /\ ext_result \in Req
  /\ unanswered \subseteq ReqId
  /\ returned \in [Callers -> [req : Req, reply : Req]]

(* What _request_sync hands back is the reply to the request it posted:     *)
(* coseq.c labels the result with the caller's own req_id.                  *)
ReplyIsOwn == \A t \in Callers : returned[t].req = returned[t].reply

(* No wakeup is lost: while a caller sleeps, its own request is the one    *)
(* ext_deliver will accept, and some module has still to answer it.         *)
BlockedIsExpected ==
  \A t \in Callers :
    pc[t] = "blocked" => /\ rid[t] \in unanswered
                         /\ ext_wait_rid = rid[t]
                         /\ ~ext_ready
=============================================================================
