--------------------------- MODULE EngagementApi ---------------------------
(***************************************************************************)
(* The engagement endpoints of the local API: authorize, suspend, resume.  *)
(* They are synchronous handlers, which the server runs on a pool of       *)
(* threads, and all of them work on the one Engagement object that         *)
(* AppState holds; nothing locks it.  A step here is one read or one write *)
(* of that object (or of the audit sink), in the order of the statements   *)
(* of authorize_engagement and Engagement.transition.  The object is the   *)
(* one of Engagement, with its table; MaxHistory is not used here.         *)
(***************************************************************************)
EXTENDS Engagement

CONSTANTS Threads,     \* pool threads that can serve a request at once
          MaxCalls     \* bound of the model on the number of requests

ASSUME ApiAssumption == MaxCalls \in Nat

VARIABLES links,     \* links[i]: the event that audit[i] links to, 0 for none
          calls,     \* requests received so far
          pc,        \* statement each thread is at
          op,        \* endpoint it serves
          target,    \* to_status of its transition
          source,    \* from_status of its transition
          previous   \* event it will link its audit event to

sink    == <<audit, links>>
object  == <<engagementVars, links>>
local   == <<op, target, source, previous>>
apiVars == <<object, calls, pc, local>>

Locations == {"idle", "enter", "elif", "while", "target1", "target2", "resume1",
              "resume2", "table", "suspendable", "suspended", "recorded", "match",
              "clear", "from", "status", "record", "history", "audit", "link"}

Move(t, l) == pc' = [pc EXCEPT ![t] = l] /\ UNCHANGED local

\* The request is answered, with a status or an error; its locals are gone.
Return(t) ==
    /\ pc' = [pc EXCEPT ![t] = "idle"]
    /\ op' = [op EXCEPT ![t] = None]
    /\ target' = [target EXCEPT ![t] = None]
    /\ source' = [source EXCEPT ![t] = None]
    /\ previous' = [previous EXCEPT ![t] = 0]

\* Mutant of Raise: a transition that is refused is tried again.
RaiseAndRetry(t) == IF pc[t] = "resume1" THEN Return(t) ELSE Move(t, "table")

\* The transition raises; no handler retries it.
Raise(t) == Return(t)

\* to_status of the transition that t goes on to make.
Target(t, s) ==
    /\ target' = [target EXCEPT ![t] = s]
    /\ pc' = [pc EXCEPT ![t] = "table"]
    /\ UNCHANGED <<op, source, previous>>

\* The engagement was just created, or loaded by _load_engagement after its
\* authorization.
ApiInit ==
    /\ status \in {"draft", "authorized"}
    /\ suspendedFrom = None
    /\ history = <<>>
    /\ audit = <<"engagement_state_change">>
    /\ refusalReason = FALSE
    /\ links = <<0>>
    /\ calls = 0
    /\ pc = [t \in Threads |-> "idle"]
    /\ op = [t \in Threads |-> None]
    /\ target = [t \in Threads |-> None]
    /\ source = [t \in Threads |-> None]
    /\ previous = [t \in Threads |-> 0]

-----------------------------------------------------------------------------
(* The endpoints *)

Request(t, o) ==
    /\ pc[t] = "idle"
    /\ calls < MaxCalls
    /\ calls' = calls + 1
    /\ op' = [op EXCEPT ![t] = o]
    /\ target' = [target EXCEPT ![t] = IF o = "suspend" THEN "suspended" ELSE None]
    /\ pc' = [pc EXCEPT ![t] = CASE o = "authorize" -> "enter" [] o = "suspend" -> "table"
                                 [] o = "resume" -> "resume1"]
    /\ UNCHANGED <<object, source, previous>>

\* authorize: if status in {DRAFT, INTAKE, SCOPE_VALIDATED} ...
AuthorizeEnter(t) ==
    /\ pc[t] = "enter"
    /\ Move(t, IF status \in {"draft", "intake", "scope_validated"} THEN "while" ELSE "elif")
    /\ UNCHANGED <<object, calls>>

\* ... elif status != AUTHORIZED: 409.
AuthorizeElif(t) ==
    /\ pc[t] = "elif"
    /\ Return(t)
    /\ UNCHANGED <<object, calls>>

\* while status != AUTHORIZED
AuthorizeWhile(t) ==
    /\ pc[t] = "while"
    /\ IF status = "authorized" THEN Return(t) ELSE Move(t, "target1")
    /\ UNCHANGED <<object, calls>>

\* The conditional expression of the target reads the status twice.
AuthorizeTarget(t) ==
    /\ \/ /\ pc[t] = "target1"
          /\ IF status = "draft" THEN Target(t, "intake") ELSE Move(t, "target2")
       \/ /\ pc[t] = "target2"
          /\ Target(t, IF status = "intake" THEN "scope_validated" ELSE "authorized")
    /\ UNCHANGED <<object, calls>>

\* resume: suspended_from is tested, then read again as the target.
ResumeTarget(t) ==
    /\ \/ /\ pc[t] = "resume1"
          /\ IF suspendedFrom = None THEN Raise(t) ELSE Move(t, "resume2")
       \/ /\ pc[t] = "resume2"
          /\ Target(t, suspendedFrom)
    /\ UNCHANGED <<object, calls>>

-----------------------------------------------------------------------------
(* Engagement.transition *)

\* The five tests before anything is written.
Check(t) ==
    /\ \/ /\ pc[t] = "table"
          /\ IF target[t] \in Transitions(status) THEN Move(t, "suspendable") ELSE Raise(t)
       \/ /\ pc[t] = "suspendable"
          /\ IF target[t] = "suspended" /\ status \notin Suspendable
             THEN Raise(t) ELSE Move(t, "suspended")
       \/ /\ pc[t] = "suspended"
          /\ Move(t, IF status = "suspended" THEN "recorded" ELSE "from")
       \/ /\ pc[t] = "recorded"
          /\ IF suspendedFrom = None \/ target[t] \in Terminal \cup {"suspended"}
             THEN Raise(t) ELSE Move(t, "match")
       \/ /\ pc[t] = "match"
          /\ IF target[t] # suspendedFrom THEN Raise(t) ELSE Move(t, "clear")
    /\ UNCHANGED <<object, calls>>

\* self.suspended_from = None, on a resume.
ClearSuspendedFrom(t) ==
    /\ pc[t] = "clear"
    /\ suspendedFrom' = None
    /\ Move(t, "from")
    /\ UNCHANGED <<status, history, refusalReason, sink, calls>>

ReadFrom(t) ==
    /\ pc[t] = "from"
    /\ source' = [source EXCEPT ![t] = status]
    /\ pc' = [pc EXCEPT ![t] = "status"]
    /\ UNCHANGED <<object, calls, op, target, previous>>

WriteStatus(t) ==
    /\ pc[t] = "status"
    /\ status' = target[t]
    /\ Move(t, "record")
    /\ UNCHANGED <<suspendedFrom, history, refusalReason, sink, calls>>

RecordSuspendedFrom(t) ==
    /\ pc[t] = "record"
    /\ suspendedFrom' = IF source[t] # "suspended" /\ target[t] = "suspended"
                        THEN source[t] ELSE suspendedFrom
    /\ Move(t, "history")
    /\ UNCHANGED <<status, history, refusalReason, sink, calls>>

AppendHistory(t) ==
    /\ pc[t] = "history"
    /\ history' = Append(history, [from |-> source[t], to |-> target[t]])
    /\ Move(t, "audit")
    /\ UNCHANGED <<status, suspendedFrom, refusalReason, sink, calls>>

\* InMemoryAuditSink.append: the last event is read, then the new one is
\* linked to it and appended.
AuditPrevious(t) ==
    /\ pc[t] = "audit"
    /\ previous' = [previous EXCEPT ![t] = Len(audit)]
    /\ pc' = [pc EXCEPT ![t] = "link"]
    /\ UNCHANGED <<object, calls, op, target, source>>

\* Mutant of AuditAppend: the event is written next to the one it links to.
AuditWrite(t) ==
    /\ pc[t] = "link"
    /\ audit' = Append(SubSeq(audit, 1, previous[t]), "engagement_state_change")
    /\ links' = Append(SubSeq(links, 1, previous[t]), previous[t])
    /\ IF op[t] = "authorize" THEN Move(t, "while") ELSE Return(t)
    /\ UNCHANGED <<status, suspendedFrom, history, refusalReason, calls>>

\* authorize then goes round its loop, the others persist (the same object)
\* and answer.
AuditAppend(t) ==
    /\ pc[t] = "link"
    /\ audit' = Append(audit, "engagement_state_change")
    /\ links' = Append(links, previous[t])
    /\ IF op[t] = "authorize" THEN Move(t, "while") ELSE Return(t)
    /\ UNCHANGED <<status, suspendedFrom, history, refusalReason, calls>>

-----------------------------------------------------------------------------
ThreadStep(t) ==
    \/ AuthorizeEnter(t)
    \/ AuthorizeElif(t)
    \/ AuthorizeWhile(t)
    \/ AuthorizeTarget(t)
    \/ ResumeTarget(t)
    \/ Check(t)
    \/ ClearSuspendedFrom(t)
    \/ ReadFrom(t)
    \/ WriteStatus(t)
    \/ RecordSuspendedFrom(t)
    \/ AppendHistory(t)
    \/ AuditPrevious(t)
    \/ AuditAppend(t)

ApiNext ==
    \/ \E t \in Threads, o \in {"authorize", "suspend", "resume"} : Request(t, o)
    \/ \E t \in Threads : ThreadStep(t)

ApiSpec == ApiInit /\ [][ApiNext]_apiVars

\* A thread that serves a request keeps being scheduled.
ApiFairSpec == ApiSpec /\ \A t \in Threads : WF_apiVars(ThreadStep(t))

-----------------------------------------------------------------------------
(* Properties *)

\* Type invariant; suspended_from never names suspension itself.
ApiTypeOK ==
    /\ status \in Statuses
    /\ suspendedFrom \in (Statuses \ {"suspended"}) \cup {None}
    /\ history \in Seq(HistoryEntry)
    /\ audit \in Seq({"engagement_state_change"})
    /\ refusalReason = FALSE
    /\ links \in Seq(Nat)
    /\ calls \in 0..MaxCalls
    /\ pc \in [Threads -> Locations]
    /\ op \in [Threads -> {"authorize", "suspend", "resume", None}]
    /\ target \in [Threads -> Statuses \cup {None}]
    /\ source \in [Threads -> Statuses \cup {None}]
    /\ previous \in [Threads -> Nat]

\* Once requests stop arriving, all of them are answered: the transitions that
\* other threads made of the status it reads do not keep the loop of
\* authorize_engagement going.  Nothing more is claimed: it re-reads the status
\* before each transition, and as long as further suspensions arrive before
\* each of these reads the loop need not end.
AnsweredOnceRequestsStop ==
    <>[][UNCHANGED calls]_apiVars => <>[](\A t \in Threads : pc[t] = "idle")

\* Once every request has been answered there is one audit event for the
\* creation and one for each entry of the status history, however the
\* threads interleaved in InMemoryAuditSink.append ("every transition must
\* produce an audit event").
NoAuditEventIsLost ==
    (\A t \in Threads : pc[t] = "idle") => Len(audit) = Len(history) + 1
=============================================================================
