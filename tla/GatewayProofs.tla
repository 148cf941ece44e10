---------------------------- MODULE GatewayProofs ----------------------------
(***************************************************************************)
(* No answer of the assistant and no draft without its audit row, nothing  *)
(* for a grant that was revoked or an account that is not what its token   *)
(* says, and counters that cover the leases in use: for any number of      *)
(* calls, principals and leases, whichever counters expire and whichever   *)
(* releases are lost.  And what the storefront's pages of orders and of    *)
(* proposals tell their user is what the server has, and the lists that    *)
(* are read page by page show each row once and leave none out; and the    *)
(* tools that a caller is shown are those that it is served.               *)
(***************************************************************************)
EXTENDS Assistant, FiniteSetTheorems, TLAPS

-----------------------------------------------------------------------------
(* The inductive invariant of a call *)

CallTypeOK(c) ==
    /\ calls[c] \in Call /\ requests[c] \in RequestPcs /\ rows[c] \in SUBSET AuditRows
    /\ requests[c] \notin {"none", "orphan"} => calls[c].pc \in {"resolving", "calling"}

\* Inside the MCP server's lease, and between the grant's check and the answer.
Inside == {"enter", "tool", "calling", "audit", "reply"}
Known == {"resolve", "resolving"} \cup Inside

\* The grant and the account were asked for before the call got where it is.
AskedOK(c) ==
    /\ calls[c].pc # "idle" /\ Grant(c) => calls[c].live
    /\ calls[c].pc # "idle" /\ Account(c) = "same" => calls[c].matched
    /\ calls[c].pc \in Known => calls[c].live
    /\ calls[c].pc \in Inside \/ requests[c] \in {"run", "audit"} => calls[c].matched

\* Each step left its audit row.
TraceOK(c) ==
    /\ calls[c].pc \in Inside => "context" \in rows[c]
    /\ calls[c].pc \in {"audit", "reply"} /\ calls[c].out = "data"
         /\ calls[c].tool \in PrivateTools => "operation" \in rows[c]
    /\ calls[c].pc = "reply" /\ calls[c].out = "data" => "tool" \in rows[c]
    /\ requests[c] = "run" => calls[c].pc = "calling"

AnswerOK(c) ==
    /\ calls[c].pc # "done" => calls[c].answer = "none"
    /\ calls[c].answer = "data" =>
         /\ {"context", "tool", "dispatch"} \subseteq rows[c]
         /\ calls[c].tool \in PrivateTools => "operation" \in rows[c]
         /\ calls[c].live /\ calls[c].matched
    /\ calls[c].answer = "error" => "dispatch" \in rows[c]
    /\ calls[c].answer = "refused" => "ingress" \in rows[c]

StoredOK(c) ==
    c \in stored =>
      /\ calls[c].live /\ calls[c].matched
      /\ calls[c].pc \in {"calling", "audit", "reply", "done"}
      /\ Row(c).atomic => "operation" \in rows[c]

CallOK(c) == CallTypeOK(c) /\ AskedOK(c) /\ TraceOK(c) /\ AnswerOK(c) /\ StoredOK(c)

WorldOK ==
    /\ grants \in SUBSET Principals
    /\ accounts \in [Principals -> {"same", "changed", "gone"}]
    /\ stored \in SUBSET Calls
    /\ DOMAIN calls = Calls /\ DOMAIN requests = Calls /\ DOMAIN rows = Calls
    /\ calls = [c \in Calls |-> calls[c]]
    /\ requests = [c \in Calls |-> requests[c]]
    /\ rows = [c \in Calls |-> rows[c]]

CallsInv == WorldOK /\ \A c \in Calls : CallOK(c)

-----------------------------------------------------------------------------
(* One step of one call *)

CallPcs == {"idle", "verify", "resolve", "resolving", "denied", "enter",
            "tool", "calling", "audit", "reply", "done"}

LEMMA GoStep ==
    ASSUME CallsInv, NEW c \in Calls, NEW pc \in CallPcs, Go(c, pc)
    PROVE  /\ calls' = [d \in Calls |-> calls'[d]]
           /\ \A d \in Calls \ {c} : calls'[d] = calls[d]
           /\ calls'[c] \in Call
           /\ calls'[c].pc = pc /\ calls'[c].tool = calls[c].tool
           /\ calls'[c].out = calls[c].out /\ calls'[c].answer = calls[c].answer
           /\ calls'[c].live = calls[c].live /\ calls'[c].matched = calls[c].matched
<1>1. calls[c] \in Call
  BY DEF CallsInv, CallOK, CallTypeOK
<1>2. calls' = [calls EXCEPT ![c] = [calls[c] EXCEPT !.pc = pc]]
  BY DEF Go
<1> DEFINE call == [calls[c] EXCEPT !.pc = pc]
<1>3. /\ call \in Call /\ call.pc = pc /\ call.tool = calls[c].tool
      /\ call.out = calls[c].out /\ call.answer = calls[c].answer
      /\ call.live = calls[c].live /\ call.matched = calls[c].matched
  BY <1>1 DEF Call, CallPcs
<1> HIDE DEF call
<1> QED
  BY <1>2, <1>3 DEF CallsInv, WorldOK, call

LEMMA OutcomeStep ==
    ASSUME CallsInv, NEW c \in Calls, NEW pc \in CallPcs, NEW out \in {"none", "data", "error"},
           Outcome(c, pc, out)
    PROVE  /\ calls' = [d \in Calls |-> calls'[d]]
           /\ \A d \in Calls \ {c} : calls'[d] = calls[d]
           /\ calls'[c] \in Call
           /\ calls'[c].pc = pc /\ calls'[c].tool = calls[c].tool
           /\ calls'[c].out = out /\ calls'[c].answer = calls[c].answer
           /\ calls'[c].live = calls[c].live /\ calls'[c].matched = calls[c].matched
<1>1. calls[c] \in Call
  BY DEF CallsInv, CallOK, CallTypeOK
<1>2. calls' = [calls EXCEPT ![c] = [calls[c] EXCEPT !.pc = pc, !.out = out]]
  BY DEF Outcome, CallsInv, WorldOK
<1> DEFINE call == [calls[c] EXCEPT !.pc = pc, !.out = out]
<1>3. /\ call \in Call /\ call.pc = pc /\ call.tool = calls[c].tool
      /\ call.out = out /\ call.answer = calls[c].answer
      /\ call.live = calls[c].live /\ call.matched = calls[c].matched
  BY <1>1 DEF Call, CallPcs
<1> HIDE DEF call
<1> QED
  BY <1>2, <1>3 DEF CallsInv, WorldOK, call

LEMMA AnswerStep ==
    ASSUME CallsInv, NEW c \in Calls,
           NEW answer \in {"none", "data", "error", "refused", "unavailable"}, Answer(c, answer)
    PROVE  /\ calls' = [d \in Calls |-> calls'[d]]
           /\ \A d \in Calls \ {c} : calls'[d] = calls[d]
           /\ calls'[c] \in Call
           /\ calls'[c].pc = "done" /\ calls'[c].tool = calls[c].tool
           /\ calls'[c].out = calls[c].out /\ calls'[c].answer = answer
           /\ calls'[c].live = calls[c].live /\ calls'[c].matched = calls[c].matched
<1>1. calls[c] \in Call
  BY DEF CallsInv, CallOK, CallTypeOK
<1>2. calls' = [calls EXCEPT ![c] = [calls[c] EXCEPT !.pc = "done", !.answer = answer]]
  BY DEF Answer, CallsInv, WorldOK
<1> DEFINE call == [calls[c] EXCEPT !.pc = "done", !.answer = answer]
<1>3. /\ call \in Call /\ call.pc = "done" /\ call.tool = calls[c].tool
      /\ call.out = calls[c].out /\ call.answer = answer
      /\ call.live = calls[c].live /\ call.matched = calls[c].matched
  BY <1>1 DEF Call
<1> HIDE DEF call
<1> QED
  BY <1>2, <1>3 DEF CallsInv, WorldOK, call

LEMMA HandleStep ==
    ASSUME CallsInv, NEW c \in Calls, NEW pc \in CallPcs, NEW out \in {"none", "data", "error"},
           NEW t \in ToolNames, Handle(c, t, pc, out)
    PROVE  /\ calls' = [d \in Calls |-> calls'[d]]
           /\ \A d \in Calls \ {c} : calls'[d] = calls[d]
           /\ calls'[c] \in Call
           /\ calls'[c].pc = pc /\ calls'[c].tool = t
           /\ calls'[c].out = out /\ calls'[c].answer = calls[c].answer
           /\ calls'[c].live = calls[c].live /\ calls'[c].matched = calls[c].matched
<1>1. calls[c] \in Call
  BY DEF CallsInv, CallOK, CallTypeOK
<1> DEFINE call == [calls[c] EXCEPT !.tool = t, !.pc = pc, !.out = out]
<1>2. calls' = [calls EXCEPT ![c] = call]
  BY DEF Handle
<1>3. /\ call \in Call /\ call.pc = pc /\ call.tool = t
      /\ call.out = out /\ call.answer = calls[c].answer
      /\ call.live = calls[c].live /\ call.matched = calls[c].matched
  BY <1>1 DEF Call, CallPcs
<1> HIDE DEF call
<1> QED
  BY <1>2, <1>3 DEF CallsInv, WorldOK

LEMMA AskStep ==
    ASSUME CallsInv, NEW c \in Calls, NEW pc, Ask(c, pc)
    PROVE  /\ requests' = [d \in Calls |-> requests'[d]]
           /\ requests'[c] = pc
           /\ \A d \in Calls \ {c} : requests'[d] = requests[d]
BY DEF Ask, CallsInv, WorldOK

\* What the audit trail may gain.
LEMMA RowStep ==
    ASSUME CallsInv, NEW c \in Calls, NEW row \in AuditRows
    PROVE  /\ Write(c, row) \/ MayWrite(c, row) =>
                /\ rows' = [d \in Calls |-> rows'[d]]
                /\ rows[c] \subseteq rows'[c] /\ rows'[c] \in SUBSET AuditRows
                /\ \A d \in Calls \ {c} : rows'[d] = rows[d]
           /\ Write(c, row) => row \in rows'[c]
<1>0. rows[c] \in SUBSET AuditRows
  BY DEF CallsInv, CallOK, CallTypeOK
<1>1. ASSUME NEW wrote \in {{}, {row}}, rows' = [rows EXCEPT ![c] = @ \cup wrote]
      PROVE  /\ rows' = [d \in Calls |-> rows'[d]]
             /\ rows[c] \subseteq rows'[c] /\ rows'[c] \in SUBSET AuditRows
             /\ \A d \in Calls \ {c} : rows'[d] = rows[d]
             /\ wrote \subseteq rows'[c]
  BY <1>0, <1>1 DEF CallsInv, WorldOK
<1>2. Write(c, row) => rows' = [rows EXCEPT ![c] = @ \cup {row}]
  BY DEF Write
<1>3. MayWrite(c, row) => \E wrote \in {{}, {row}} : rows' = [rows EXCEPT ![c] = @ \cup wrote]
  BY DEF MayWrite
<1> QED
  BY <1>1, <1>2, <1>3

\* One call moved, the others and the world did not.
OneMoved(c) ==
    /\ UNCHANGED <<grants, accounts>>
    /\ stored' \in SUBSET Calls
    /\ calls' = [d \in Calls |-> calls'[d]]
    /\ requests' = [d \in Calls |-> requests'[d]]
    /\ rows' = [d \in Calls |-> rows'[d]]
    /\ \A d \in Calls \ {c} :
         /\ calls'[d] = calls[d] /\ requests'[d] = requests[d] /\ rows'[d] = rows[d]
         /\ d \in stored' <=> d \in stored

LEMMA OneCall ==
    ASSUME CallsInv, NEW c \in Calls, OneMoved(c), CallOK(c)'
    PROVE  CallsInv'
<1>1. ASSUME NEW d \in Calls \ {c} PROVE CallOK(d)'
  BY DEF OneMoved, CallsInv, CallOK, CallTypeOK, AskedOK, TraceOK, AnswerOK, StoredOK,
     Grant, Account, Row
<1>2. WorldOK'
  BY DEF OneMoved, CallsInv, WorldOK
<1> QED
  BY <1>1, <1>2 DEF CallsInv
-----------------------------------------------------------------------------
(* The steps up to the tool *)

LEMMA BeginStep ==
    ASSUME CallsInv, NEW c \in Calls, Begin(c)
    PROVE  OneMoved(c) /\ CallOK(c)'
<1>1. calls[c] \in Call /\ calls[c].pc = "idle"
  BY DEF CallsInv, CallOK, CallTypeOK, Begin, At
<1>2. PICK live \in BOOLEAN, matched \in BOOLEAN :
        live = Grant(c) /\ matched = (Account(c) = "same")
  <2>1. PICK live \in BOOLEAN : live = Grant(c)
    <3>1. Grant(c) \in BOOLEAN
      BY DEF Grant
    <3> QED
      BY <3>1, Zenon
  <2>2. PICK matched \in BOOLEAN : matched = (Account(c) = "same")
    <3>1. (Account(c) = "same") \in BOOLEAN
      OBVIOUS
    <3> QED
      BY <3>1, Zenon
  <2> QED
    BY <2>1, <2>2, Zenon
<1> DEFINE call == [calls[c] EXCEPT !.pc = "verify", !.live = live, !.matched = matched]
<1>6. calls' = [calls EXCEPT ![c] = call]
  BY <1>2, Zenon DEF Begin
<1>3. /\ call \in Call /\ call.pc = "verify" /\ call.tool = calls[c].tool
      /\ call.out = calls[c].out /\ call.answer = calls[c].answer
      /\ call.live = live /\ call.matched = matched
  BY <1>1 DEF Call
<1> HIDE DEF call
<1>4. UNCHANGED <<grants, accounts, requests, rows, stored>>
  BY DEF Begin
<1>5. calls'[c] = call /\ OneMoved(c)
  BY <1>6, <1>4 DEF OneMoved, CallsInv, WorldOK
<1> QED
  BY <1>1, <1>2, <1>3, <1>4, <1>5 DEF CallsInv, CallOK, CallTypeOK, AskedOK, TraceOK,
     AnswerOK, StoredOK, Grant, Account, Row, Known, Inside

LEMMA DeniedStep ==
    ASSUME CallsInv, NEW c \in Calls, Denied(c)
    PROVE  OneMoved(c) /\ CallOK(c)'
<1>1. UNCHANGED <<grants, accounts, requests, stored>> /\ calls[c].pc = "denied"
  BY DEF Denied, At
<1>2. CASE Answer(c, "refused") /\ Write(c, "ingress")
  BY <1>1, <1>2, AnswerStep, RowStep DEF AuditRows, OneMoved, WorldOK, CallsInv,
     CallOK, CallTypeOK, AskedOK, TraceOK, AnswerOK, StoredOK, Grant, Account, Row,
     Known, Inside
<1>3. CASE Answer(c, "unavailable") /\ MayWrite(c, "ingress")
  BY <1>1, <1>3, AnswerStep, RowStep DEF AuditRows, OneMoved, WorldOK, CallsInv,
     CallOK, CallTypeOK, AskedOK, TraceOK, AnswerOK, StoredOK, Grant, Account, Row,
     Known, Inside
<1> QED
  BY <1>2, <1>3 DEF Denied, AuditedAnswer

LEMMA VerifyStep ==
    ASSUME CallsInv, NEW c \in Calls, Verify(c)
    PROVE  OneMoved(c) /\ CallOK(c)'
<1>1. UNCHANGED <<grants, accounts, requests, rows, stored>> /\ calls[c].pc = "verify"
  BY DEF Verify, At
<1>2. CASE Grant(c) /\ Go(c, "resolve")
  BY <1>1, <1>2, GoStep DEF CallPcs, OneMoved, WorldOK, CallsInv, CallOK, CallTypeOK,
     AskedOK, TraceOK, AnswerOK, StoredOK, Grant, Account, Row, Known, Inside
<1>3. CASE Go(c, "denied")
  BY <1>1, <1>3, GoStep DEF CallPcs, OneMoved, WorldOK, CallsInv, CallOK, CallTypeOK,
     AskedOK, TraceOK, AnswerOK, StoredOK, Grant, Account, Row, Known, Inside
<1> QED
  BY <1>2, <1>3 DEF Verify

LEMMA ResolveStep ==
    ASSUME CallsInv, NEW c \in Calls, Resolve(c)
    PROVE  OneMoved(c) /\ CallOK(c)'
<1>1. UNCHANGED <<grants, accounts, rows, stored>> /\ calls[c].pc = "resolve"
  BY DEF Resolve, At
<1>2. CASE Grant(c) /\ Go(c, "resolving") /\ Ask(c, "verify")
  BY <1>1, <1>2, GoStep, AskStep DEF CallPcs, RequestPcs, OneMoved, WorldOK, CallsInv,
     CallOK, CallTypeOK, AskedOK, TraceOK, AnswerOK, StoredOK, Grant, Account, Row,
     Known, Inside
<1>3. CASE Go(c, "denied") /\ UNCHANGED requests
  BY <1>1, <1>3, GoStep DEF CallPcs, OneMoved, WorldOK, CallsInv, CallOK, CallTypeOK,
     AskedOK, TraceOK, AnswerOK, StoredOK, Grant, Account, Row, Known, Inside
<1> QED
  BY <1>2, <1>3 DEF Resolve

LEMMA EnterStep ==
    ASSUME CallsInv, NEW c \in Calls, Enter(c)
    PROVE  OneMoved(c) /\ CallOK(c)'
<1>1. UNCHANGED <<grants, accounts, requests, stored>> /\ calls[c].pc = "enter"
  BY DEF Enter, At
<1>2. CASE Go(c, "tool") /\ UNCHANGED rows
  BY <1>1, <1>2, GoStep DEF CallPcs, OneMoved, WorldOK, CallsInv, CallOK, CallTypeOK,
     AskedOK, TraceOK, AnswerOK, StoredOK, Grant, Account, Row, Known, Inside
<1>3. CASE Go(c, "denied") /\ UNCHANGED rows
  BY <1>1, <1>3, GoStep DEF CallPcs, OneMoved, WorldOK, CallsInv, CallOK, CallTypeOK,
     AskedOK, TraceOK, AnswerOK, StoredOK, Grant, Account, Row, Known, Inside
<1>4. CASE Answer(c, "unavailable") /\ MayWrite(c, "ingress")
  BY <1>1, <1>4, AnswerStep, RowStep DEF AuditRows, OneMoved, WorldOK, CallsInv,
     CallOK, CallTypeOK, AskedOK, TraceOK, AnswerOK, StoredOK, Grant, Account, Row,
     Known, Inside
<1> QED
  BY <1>2, <1>3, <1>4 DEF Enter

LEMMA RejectStep ==
    ASSUME CallsInv, NEW c \in Calls, Reject(c)
    PROVE  OneMoved(c) /\ CallOK(c)'
<1>1. UNCHANGED <<grants, accounts, requests, stored>> /\ calls[c].pc = "tool"
  BY DEF Reject, At
<1>2. CASE Answer(c, "refused") /\ Write(c, "ingress")
  BY <1>1, <1>2, AnswerStep, RowStep DEF AuditRows, OneMoved, WorldOK, CallsInv,
     CallOK, CallTypeOK, AskedOK, TraceOK, AnswerOK, StoredOK, Grant, Account, Row,
     Known, Inside
<1>3. CASE Answer(c, "unavailable") /\ MayWrite(c, "ingress")
  BY <1>1, <1>3, AnswerStep, RowStep DEF AuditRows, OneMoved, WorldOK, CallsInv,
     CallOK, CallTypeOK, AskedOK, TraceOK, AnswerOK, StoredOK, Grant, Account, Row,
     Known, Inside
<1> QED
  BY <1>2, <1>3 DEF Reject, AuditedAnswer

LEMMA DispatchStep ==
    ASSUME CallsInv, NEW c \in Calls, NEW t \in ToolsOf[c], Dispatch(c, t)
    PROVE  OneMoved(c) /\ CallOK(c)'
<1>1. UNCHANGED <<grants, accounts, rows, stored>> /\ calls[c].pc = "tool"
  BY DEF Dispatch, At
<1>2. t \in ToolNames
  BY GatewayAssumption
<1>3. CASE Handle(c, t, "reply", "error") /\ UNCHANGED requests
  BY <1>1, <1>2, <1>3, HandleStep DEF CallPcs, OneMoved, WorldOK, CallsInv, CallOK,
     CallTypeOK, AskedOK, TraceOK, AnswerOK, StoredOK, Grant, Account, Row, Known,
     Inside
<1>4. CASE t \in LocalTools /\ Handle(c, t, "audit", "data") /\ UNCHANGED requests
  <2>1. t \notin PrivateTools
    BY <1>4, ToolsAssumption
  <2> QED
    BY <1>1, <1>2, <1>4, <2>1, HandleStep DEF CallPcs, OneMoved, WorldOK, CallsInv,
       CallOK, CallTypeOK, AskedOK, TraceOK, AnswerOK, StoredOK, Grant, Account,
       Row, Known, Inside
<1>5. ASSUME NEW out \in {"data", "error"}, t \notin PrivateTools,
             Handle(c, t, "audit", out), UNCHANGED requests
      PROVE  OneMoved(c) /\ CallOK(c)'
  BY <1>1, <1>2, <1>5, HandleStep DEF CallPcs, OneMoved, WorldOK, CallsInv, CallOK,
     CallTypeOK, AskedOK, TraceOK, AnswerOK, StoredOK, Grant, Account, Row, Known,
     Inside
<1>6. CASE Grant(c) /\ Handle(c, t, "calling", "none") /\ Ask(c, "verify")
  BY <1>1, <1>2, <1>6, HandleStep, AskStep DEF CallPcs, RequestPcs, OneMoved, WorldOK,
     CallsInv, CallOK, CallTypeOK, AskedOK, TraceOK, AnswerOK, StoredOK, Grant,
     Account, Row, Known, Inside
<1>7. CASE Handle(c, t, "audit", "error") /\ UNCHANGED requests
  BY <1>1, <1>2, <1>7, HandleStep DEF CallPcs, OneMoved, WorldOK, CallsInv, CallOK,
     CallTypeOK, AskedOK, TraceOK, AnswerOK, StoredOK, Grant, Account, Row, Known,
     Inside
<1> QED
  BY <1>3, <1>4, <1>5, <1>6, <1>7 DEF Dispatch

LEMMA ToolAuditStep ==
    ASSUME CallsInv, NEW c \in Calls, ToolAudit(c)
    PROVE  OneMoved(c) /\ CallOK(c)'
<1>1. UNCHANGED <<grants, accounts, requests, stored>> /\ calls[c].pc = "audit"
  BY DEF ToolAudit, At
<1>2. CASE calls[c].out = "data" /\ Go(c, "reply") /\ Write(c, "tool")
  BY <1>1, <1>2, GoStep, RowStep DEF CallPcs, AuditRows, OneMoved, WorldOK, CallsInv,
     CallOK, CallTypeOK, AskedOK, TraceOK, AnswerOK, StoredOK, Grant, Account, Row,
     Known, Inside
<1>3. CASE calls[c].out = "data" /\ Outcome(c, "reply", "error") /\ MayWrite(c, "tool")
  BY <1>1, <1>3, OutcomeStep, RowStep DEF CallPcs, AuditRows, OneMoved, WorldOK,
     CallsInv, CallOK, CallTypeOK, AskedOK, TraceOK, AnswerOK, StoredOK, Grant,
     Account, Row, Known, Inside
<1>4. CASE calls[c].out = "error" /\ Go(c, "reply") /\ UNCHANGED rows
  BY <1>1, <1>4, GoStep DEF CallPcs, OneMoved, WorldOK, CallsInv, CallOK, CallTypeOK,
     AskedOK, TraceOK, AnswerOK, StoredOK, Grant, Account, Row, Known, Inside
<1> QED
  BY <1>2, <1>3, <1>4 DEF ToolAudit

LEMMA ReplyStep ==
    ASSUME CallsInv, NEW c \in Calls, Reply(c)
    PROVE  OneMoved(c) /\ CallOK(c)'
<1>1. UNCHANGED <<grants, accounts, requests, stored>> /\ calls[c].pc = "reply"
  BY DEF Reply, At
<1>2. calls[c].out \in {"none", "data", "error"}
  BY DEF CallsInv, CallOK, CallTypeOK, Call
<1>3. CASE Answer(c, calls[c].out) /\ Write(c, "dispatch")
  <2>1. calls[c].out \in {"none", "data", "error", "refused", "unavailable"}
    BY <1>2
  <2> QED
    BY <1>1, <1>2, <1>3, <2>1, AnswerStep, RowStep DEF AuditRows, OneMoved, WorldOK,
       CallsInv, CallOK, CallTypeOK, AskedOK, TraceOK, AnswerOK, StoredOK, Grant,
       Account, Row, Known, Inside
<1>4. CASE Answer(c, "unavailable") /\ MayWrite(c, "dispatch")
  BY <1>1, <1>4, AnswerStep, RowStep DEF AuditRows, OneMoved, WorldOK, CallsInv,
     CallOK, CallTypeOK, AskedOK, TraceOK, AnswerOK, StoredOK, Grant, Account, Row,
     Known, Inside
<1> QED
  BY <1>3, <1>4 DEF Reply, AuditedAnswer


-----------------------------------------------------------------------------
(* The steps of the backend's request *)

\* What data makes of the call.
LEMMA DataReceived ==
    ASSUME CallsInv, NEW c \in Calls, Receive(c, TRUE), calls[c].pc \in {"resolving", "calling"}
    PROVE  /\ calls' = [d \in Calls |-> calls'[d]]
           /\ \A d \in Calls \ {c} : calls'[d] = calls[d]
           /\ calls'[c] \in Call
           /\ calls'[c].tool = calls[c].tool /\ calls'[c].answer = calls[c].answer
           /\ calls'[c].live = calls[c].live /\ calls'[c].matched = calls[c].matched
           /\ calls[c].pc = "resolving" => calls'[c].pc = "enter"
           /\ calls[c].pc = "calling" => calls'[c].pc = "audit" /\ calls'[c].out = "data"
<1>1. CASE calls[c].pc = "resolving"
  <2>1. Go(c, "enter") /\ "enter" \in CallPcs
    BY <1>1 DEF Receive, At, CallPcs
  <2> QED
    BY <1>1, <2>1, GoStep
<1>2. CASE calls[c].pc = "calling"
  <2>1. Outcome(c, "audit", "data") /\ "audit" \in CallPcs
    BY <1>2 DEF Receive, At, CallPcs
  <2> QED
    BY <1>2, <2>1, OutcomeStep
<1> QED
  BY <1>1, <1>2

\* What a refusal or a failure makes of it.
LEMMA ErrorReceived ==
    ASSUME CallsInv, NEW c \in Calls, Receive(c, FALSE), calls[c].pc \in {"resolving", "calling"}
    PROVE  /\ calls' = [d \in Calls |-> calls'[d]]
           /\ \A d \in Calls \ {c} : calls'[d] = calls[d]
           /\ calls'[c] \in Call
           /\ calls'[c].tool = calls[c].tool /\ calls'[c].answer = calls[c].answer
           /\ calls'[c].live = calls[c].live /\ calls'[c].matched = calls[c].matched
           /\ calls[c].pc = "resolving" => calls'[c].pc = "denied"
           /\ calls[c].pc = "calling" => calls'[c].pc = "audit" /\ calls'[c].out = "error"
<1>1. CASE calls[c].pc = "resolving"
  <2>1. Go(c, "denied") /\ "denied" \in CallPcs
    BY <1>1 DEF Receive, At, CallPcs
  <2> QED
    BY <1>1, <2>1, GoStep
<1>2. CASE calls[c].pc = "calling"
  <2>1. Outcome(c, "audit", "error") /\ "audit" \in CallPcs
    BY <1>2 DEF Receive, At, CallPcs
  <2> QED
    BY <1>2, <2>1, OutcomeStep
<1> QED
  BY <1>1, <1>2

\* A request that is answered without data, whatever was audited.
LEMMA FailStep ==
    ASSUME CallsInv, NEW c \in Calls, Receive(c, FALSE), NEW pc \in {"none", "orphan"}, Ask(c, pc),
           requests[c] \notin {"none", "orphan"},
           UNCHANGED rows \/ MayWrite(c, "context") \/ MayWrite(c, "operation"),
           UNCHANGED <<grants, accounts, stored>>
    PROVE  OneMoved(c) /\ CallOK(c)'
<1>1. calls[c].pc \in {"resolving", "calling"} /\ UNCHANGED <<grants, accounts, stored>>
  BY DEF CallsInv, CallOK, CallTypeOK
<1>2. /\ rows' = [d \in Calls |-> rows'[d]]
      /\ rows[c] \subseteq rows'[c] /\ rows'[c] \in SUBSET AuditRows
      /\ \A d \in Calls \ {c} : rows'[d] = rows[d]
  <2>1. "context" \in AuditRows /\ "operation" \in AuditRows
    BY DEF AuditRows
  <2>2. CASE UNCHANGED rows
    BY <2>2 DEF CallsInv, WorldOK, CallOK, CallTypeOK
  <2> QED
    BY <2>1, <2>2, RowStep
<1>3. pc \in {"none", "orphan"} /\ pc \in RequestPcs
  BY DEF RequestPcs
<1>4. /\ calls' = [d \in Calls |-> calls'[d]]
      /\ \A d \in Calls \ {c} : calls'[d] = calls[d]
      /\ calls'[c] \in Call
      /\ calls'[c].tool = calls[c].tool /\ calls'[c].answer = calls[c].answer
      /\ calls'[c].live = calls[c].live /\ calls'[c].matched = calls[c].matched
      /\ calls[c].pc = "resolving" => calls'[c].pc = "denied"
      /\ calls[c].pc = "calling" => calls'[c].pc = "audit" /\ calls'[c].out = "error"
  BY <1>1, ErrorReceived
<1>5. /\ requests' = [d \in Calls |-> requests'[d]]
      /\ requests'[c] = pc
      /\ \A d \in Calls \ {c} : requests'[d] = requests[d]
  BY AskStep
<1>6. OneMoved(c)
  BY <1>1, <1>2, <1>4, <1>5 DEF OneMoved, CallsInv, WorldOK
<1>7. CallTypeOK(c)'
  BY <1>1, <1>2, <1>3, <1>4, <1>5 DEF CallTypeOK
<1>8. AskedOK(c)'
  BY <1>1, <1>3, <1>4, <1>5 DEF CallsInv, CallOK, AskedOK, Grant, Account, Known, Inside
<1>9. TraceOK(c)'
  BY <1>1, <1>2, <1>3, <1>4, <1>5 DEF CallsInv, CallOK, TraceOK, Inside
<1>10. AnswerOK(c)'
  BY <1>1, <1>4 DEF CallsInv, CallOK, AnswerOK
<1>11. StoredOK(c)'
  BY <1>1, <1>2, <1>4 DEF CallsInv, CallOK, StoredOK, AskedOK, Row, Known, Inside
<1> QED
  BY <1>6, <1>7, <1>8, <1>9, <1>10, <1>11 DEF CallOK

\* A request that is answered with data, after its audit row.
LEMMA DataStep ==
    ASSUME CallsInv, NEW c \in Calls, Receive(c, TRUE), Ask(c, "none"),
           requests[c] \in {"run", "audit"}, Write(c, "context") \/ Write(c, "operation"),
           calls[c].pc = "resolving" => Write(c, "context"),
           calls[c].pc = "calling" => Write(c, "operation"),
           \/ stored' = stored
           \/ stored' = stored \cup {c} /\ calls[c].pc = "calling",
           UNCHANGED <<grants, accounts>>
    PROVE  OneMoved(c) /\ CallOK(c)'
<1>1. /\ calls[c].pc \in {"resolving", "calling"} /\ UNCHANGED <<grants, accounts>>
      /\ stored' = stored \/ (stored' = stored \cup {c} /\ calls[c].pc = "calling")
      /\ calls[c].live /\ calls[c].matched
  <2>1. CallTypeOK(c) /\ AskedOK(c)
    BY DEF CallsInv, CallOK
  <2>2. calls[c].pc \in {"resolving", "calling"}
    BY <2>1 DEF CallTypeOK
  <2>3. calls[c].live /\ calls[c].matched
    BY <2>1, <2>2 DEF AskedOK, Known, Inside
  <2> QED
    BY <2>2, <2>3
<1>2. /\ rows' = [d \in Calls |-> rows'[d]]
      /\ rows[c] \subseteq rows'[c] /\ rows'[c] \in SUBSET AuditRows
      /\ \A d \in Calls \ {c} : rows'[d] = rows[d]
      /\ calls[c].pc = "resolving" => "context" \in rows'[c]
      /\ calls[c].pc = "calling" => "operation" \in rows'[c]
  <2>1. "context" \in AuditRows /\ "operation" \in AuditRows
    BY DEF AuditRows
  <2> QED
    BY <2>1, RowStep
<1>3. "none" \in RequestPcs
  BY DEF RequestPcs
<1>4. /\ calls' = [d \in Calls |-> calls'[d]]
      /\ \A d \in Calls \ {c} : calls'[d] = calls[d]
      /\ calls'[c] \in Call
      /\ calls'[c].tool = calls[c].tool /\ calls'[c].answer = calls[c].answer
      /\ calls'[c].live = calls[c].live /\ calls'[c].matched = calls[c].matched
      /\ calls[c].pc = "resolving" => calls'[c].pc = "enter"
      /\ calls[c].pc = "calling" => calls'[c].pc = "audit" /\ calls'[c].out = "data"
  BY <1>1, DataReceived
<1>5. /\ requests' = [d \in Calls |-> requests'[d]]
      /\ requests'[c] = "none"
      /\ \A d \in Calls \ {c} : requests'[d] = requests[d]
  BY AskStep
<1>6. OneMoved(c)
  BY <1>1, <1>2, <1>4, <1>5 DEF OneMoved, CallsInv, WorldOK
<1>7. CallTypeOK(c)'
  BY <1>1, <1>2, <1>3, <1>4, <1>5 DEF CallTypeOK
<1>8. AskedOK(c)'
  BY <1>1, <1>4, <1>5 DEF CallsInv, CallOK, AskedOK, Grant, Account, Known, Inside
<1>9. TraceOK(c)'
  BY <1>1, <1>2, <1>4, <1>5 DEF CallsInv, CallOK, TraceOK, Inside
<1>10. AnswerOK(c)'
  BY <1>1, <1>4 DEF CallsInv, CallOK, AnswerOK
<1>11. StoredOK(c)'
  BY <1>1, <1>2, <1>4 DEF CallsInv, CallOK, StoredOK, AskedOK, Row, Known, Inside
<1> QED
  BY <1>6, <1>7, <1>8, <1>9, <1>10, <1>11 DEF CallOK

\* A request that moves on without an answer.
LEMMA DelegationStep ==
    ASSUME CallsInv, NEW c \in Calls, Delegation(c)
    PROVE  OneMoved(c) /\ CallOK(c)'
<1>1. UNCHANGED <<grants, accounts, rows, stored>> /\ requests[c] = "verify"
  BY DEF Delegation, Asks
<1>2. CASE Ask(c, "limit") /\ UNCHANGED calls
  BY <1>1, <1>2, AskStep DEF RequestPcs, OneMoved, WorldOK, CallsInv, CallOK,
     CallTypeOK, AskedOK, TraceOK, AnswerOK, StoredOK, Grant, Account, Row, Known,
     Inside
<1>3. CASE Respond(c, FALSE)
  BY <1>1, <1>3, FailStep DEF Respond
<1> QED
  BY <1>2, <1>3 DEF Delegation

LEMMA LimitRequestStep ==
    ASSUME CallsInv, NEW c \in Calls, LimitRequest(c)
    PROVE  OneMoved(c) /\ CallOK(c)'
<1>1. UNCHANGED <<grants, accounts, rows, stored>> /\ requests[c] = "limit"
  BY DEF LimitRequest, Asks
<1>2. CASE Ask(c, "authorize") /\ UNCHANGED calls
  BY <1>1, <1>2, AskStep DEF RequestPcs, OneMoved, WorldOK, CallsInv, CallOK,
     CallTypeOK, AskedOK, TraceOK, AnswerOK, StoredOK, Grant, Account, Row, Known,
     Inside
<1>3. CASE Respond(c, FALSE)
  BY <1>1, <1>3, FailStep DEF Respond
<1> QED
  BY <1>2, <1>3 DEF LimitRequest

LEMMA AuthorizeStep ==
    ASSUME CallsInv, NEW c \in Calls, Authorize(c)
    PROVE  OneMoved(c) /\ CallOK(c)'
<1>1. UNCHANGED <<grants, accounts, rows, stored>> /\ requests[c] = "authorize"
  BY DEF Authorize, Asks
<1>2. CASE MayOperate(c) /\ Ask(c, IF At(c, "calling") THEN "run" ELSE "audit") /\ UNCHANGED calls
  <2>1. Account(c) = "same"
    BY <1>2 DEF MayOperate
  <2>2. CASE calls[c].pc = "calling" /\ Ask(c, "run")
    BY <1>1, <1>2, <2>1, <2>2, AskStep DEF RequestPcs, OneMoved, WorldOK, CallsInv,
       CallOK, CallTypeOK, AskedOK, TraceOK, AnswerOK, StoredOK, Grant, Account,
       Row, Known, Inside
  <2>3. CASE calls[c].pc # "calling" /\ Ask(c, "audit")
    BY <1>1, <1>2, <2>1, <2>3, AskStep DEF RequestPcs, OneMoved, WorldOK, CallsInv,
       CallOK, CallTypeOK, AskedOK, TraceOK, AnswerOK, StoredOK, Grant, Account,
       Row, Known, Inside
  <2> QED
    BY <1>2, <2>2, <2>3 DEF At
<1>3. CASE Respond(c, FALSE)
  BY <1>1, <1>3, FailStep DEF Respond
<1> QED
  BY <1>2, <1>3 DEF Authorize

LEMMA RunStep ==
    ASSUME CallsInv, NEW c \in Calls, Run(c)
    PROVE  OneMoved(c) /\ CallOK(c)'
<1>1. /\ UNCHANGED <<grants, accounts>> /\ requests[c] = "run" /\ calls[c].pc = "calling"
      /\ "operation" \in AuditRows
  BY DEF Run, Asks, CallsInv, CallOK, TraceOK, AuditRows
<1>2. CASE RunAtomically(c)
  <2>1. /\ Receive(c, TRUE) /\ Ask(c, "none") /\ Write(c, "operation")
        /\ stored' = stored \cup {c}
    BY <1>2 DEF RunAtomically, Respond
  <2> QED
    BY <1>1, <2>1, DataStep
<1>3. CASE /\ ~Row(c).atomic
           /\ stored' = IF Row(c).stores THEN stored \cup {c} ELSE stored
           /\ Ask(c, "audit") /\ UNCHANGED <<calls, rows>>
  <2>1. stored' \in {stored, stored \cup {c}}
    BY <1>3
  <2> QED
    BY <1>1, <1>3, <2>1, AskStep DEF RequestPcs, OneMoved, WorldOK, CallsInv,
       CallOK, CallTypeOK, AskedOK, TraceOK, AnswerOK, StoredOK, Grant, Account,
       Row, Known, Inside
<1>4. CASE Respond(c, FALSE) /\ UNCHANGED <<rows, stored>>
  BY <1>1, <1>4, FailStep DEF Respond
<1> QED
  BY <1>2, <1>3, <1>4 DEF Run

LEMMA AuditResponseStep ==
    ASSUME CallsInv, NEW c \in Calls, AuditResponse(c)
    PROVE  OneMoved(c) /\ CallOK(c)'
<1>1. /\ UNCHANGED <<grants, accounts, stored>> /\ requests[c] = "audit"
      /\ calls[c].pc \in {"resolving", "calling"}
      /\ "operation" \in AuditRows /\ "context" \in AuditRows
  BY DEF AuditResponse, Asks, CallsInv, CallOK, CallTypeOK, AuditRows
<1>2. CASE calls[c].pc = "resolving" /\ Respond(c, TRUE) /\ Write(c, "context")
  BY <1>1, <1>2, DataStep DEF Respond
<1>3. CASE calls[c].pc = "calling" /\ Respond(c, TRUE) /\ Write(c, "operation")
  BY <1>1, <1>3, DataStep DEF Respond
<1>4. CASE Respond(c, FALSE) /\ (MayWrite(c, "context") \/ MayWrite(c, "operation"))
  BY <1>1, <1>4, FailStep DEF Respond
<1> QED
  BY <1>1, <1>2, <1>3, <1>4 DEF AuditResponse, At

LEMMA TimeoutStep ==
    ASSUME CallsInv, NEW c \in Calls, Timeout(c)
    PROVE  OneMoved(c) /\ CallOK(c)'
<1>1. /\ UNCHANGED <<grants, accounts, stored>> /\ requests[c] \notin {"none", "orphan"}
      /\ Receive(c, FALSE) /\ (Ask(c, "orphan") \/ Ask(c, "none"))
      /\ UNCHANGED rows \/ MayWrite(c, "context") \/ MayWrite(c, "operation")
  BY DEF Timeout
<1>2. "orphan" \in {"none", "orphan"} /\ "none" \in {"none", "orphan"}
  OBVIOUS
<1> QED
  BY <1>1, <1>2, FailStep

LEMMA OrphanStep ==
    ASSUME CallsInv, NEW c \in Calls, Orphan(c)
    PROVE  OneMoved(c) /\ CallOK(c)'
<1>1. /\ UNCHANGED <<grants, accounts, calls, rows, stored>> /\ requests[c] = "orphan"
      /\ Ask(c, "none")
  BY DEF Orphan, Asks
<1> QED
  BY <1>1, AskStep DEF RequestPcs, OneMoved, WorldOK, CallsInv, CallOK, CallTypeOK,
     AskedOK, TraceOK, AnswerOK, StoredOK, Grant, Account, Row, Known, Inside


-----------------------------------------------------------------------------
(* The world around, and every step *)

LEMMA RevokeStep ==
    ASSUME CallsInv, NEW p \in Restless, Revoke(p)
    PROVE  CallsInv'
<1>1. grants' \subseteq grants /\ UNCHANGED <<accounts, calls, requests, rows, stored>>
  BY DEF Revoke
<1> QED
  BY <1>1 DEF OneMoved, WorldOK, CallsInv, CallOK, CallTypeOK, AskedOK, TraceOK,
         AnswerOK, StoredOK, Grant, Account, Row, Known, Inside

LEMMA AccountStep ==
    ASSUME CallsInv, NEW p \in Restless, NEW to \in {"same", "changed", "gone"},
           AccountChanges(p, to)
    PROVE  CallsInv'
<1>1. /\ UNCHANGED <<grants, requests, rows, stored>>
      /\ accounts' = [accounts EXCEPT ![p] = to] /\ p \in Principals
  BY GatewayAssumption DEF AccountChanges
<1>2. accounts' \in [Principals -> {"same", "changed", "gone"}]
  BY <1>1 DEF CallsInv, WorldOK
<1>3. calls' = [c \in Calls |-> calls'[c]] /\ DOMAIN calls' = Calls
  BY DEF AccountChanges
<1>4. WorldOK'
  BY <1>1, <1>2, <1>3 DEF CallsInv, WorldOK
<1>5. ASSUME NEW c \in Calls PROVE CallOK(c)'
  <2>1. calls[c] \in Call /\ calls[c].matched \in BOOLEAN
    BY DEF CallsInv, CallOK, CallTypeOK, Call
  <2>2. PICK again \in BOOLEAN :
          again <=> (calls[c].matched \/ (Caller[c] = p /\ to = "same" /\ calls[c].pc # "idle"))
    OBVIOUS
  <2>3. calls'[c] = [calls[c] EXCEPT !.matched = again]
    <3>1. calls'[c] = [calls[c] EXCEPT !.matched =
                         @ \/ (Caller[c] = p /\ to = "same" /\ calls[c].pc # "idle")]
      BY DEF AccountChanges
    <3> QED
      BY <2>1, <2>2, <3>1
  <2>4. /\ calls'[c] \in Call /\ calls'[c].pc = calls[c].pc /\ calls'[c].tool = calls[c].tool
        /\ calls'[c].out = calls[c].out /\ calls'[c].answer = calls[c].answer
        /\ calls'[c].live = calls[c].live /\ calls'[c].matched = again
    BY <2>1, <2>3 DEF Call
  <2>5. /\ calls[c].matched => again
        /\ calls[c].pc # "idle" /\ accounts'[Caller[c]] = "same" => again
    <3>1. Caller[c] \in Principals
      BY GatewayAssumption
    <3>2. calls[c].pc # "idle" /\ accounts[Caller[c]] = "same" => calls[c].matched
      BY DEF CallsInv, CallOK, AskedOK, Account
    <3> QED
      BY <1>1, <2>2, <3>1, <3>2 DEF CallsInv, WorldOK
  <2>6. CallOK(c)
    BY DEF CallsInv
  <2>7. CallTypeOK(c)'
    BY <1>1, <2>4, <2>6 DEF CallOK, CallTypeOK
  <2>8. AskedOK(c)'
    BY <1>1, <2>4, <2>5, <2>6 DEF CallOK, AskedOK, Grant, Account
  <2>9. TraceOK(c)'
    BY <1>1, <2>4, <2>6 DEF CallOK, TraceOK
  <2>10. AnswerOK(c)'
    BY <1>1, <2>4, <2>5, <2>6 DEF CallOK, AnswerOK
  <2>11. StoredOK(c)'
    BY <1>1, <2>4, <2>5, <2>6 DEF CallOK, StoredOK, Row
  <2> QED
    BY <2>7, <2>8, <2>9, <2>10, <2>11 DEF CallOK
<1> QED
  BY <1>4, <1>5 DEF CallsInv

LEMMA CallsUnchanged ==
    ASSUME CallsInv, UNCHANGED stateVars
    PROVE  CallsInv'
BY DEF stateVars, OneMoved, WorldOK, CallsInv, CallOK, CallTypeOK, AskedOK, TraceOK,
         AnswerOK, StoredOK, Grant, Account, Row, Known, Inside

LEMMA CallsInit ==
    ASSUME Init
    PROVE  CallsInv
<1>1. ASSUME NEW c \in Calls PROVE CallOK(c)
  <2>1. calls[c] = [pc |-> "idle", tool |-> "none", out |-> "none", answer |-> "none",
                    live |-> FALSE, matched |-> FALSE]
    BY DEF Init
  <2>2. calls[c] \in Call /\ calls[c].pc = "idle" /\ calls[c].answer = "none"
    BY <2>1 DEF Call
  <2>3. requests[c] = "none" /\ rows[c] = {} /\ c \notin stored
    BY DEF Init
  <2> QED
    BY <2>2, <2>3 DEF CallOK, CallTypeOK, AskedOK, TraceOK, AnswerOK, StoredOK,
       Known, Inside, RequestPcs, AuditRows
<1>2. WorldOK
  BY DEF Init, WorldOK
<1> QED
  BY <1>1, <1>2 DEF CallsInv

LEMMA CallsNext ==
    ASSUME CallsInv, [Next]_vars
    PROVE  CallsInv'
<1>1. ASSUME NEW c \in Calls, Step(c) PROVE CallsInv'
  BY <1>1, OneCall, BeginStep, DeniedStep, VerifyStep, ResolveStep, EnterStep,
     RejectStep, DispatchStep, ToolAuditStep, ReplyStep, DelegationStep,
     LimitRequestStep, AuthorizeStep, RunStep, AuditResponseStep, TimeoutStep,
     OrphanStep DEF Step
<1>2. ASSUME NEW layer \in Layers, NEW key \in Keys, Expire(layer, key) PROVE CallsInv'
  BY <1>2, CallsUnchanged DEF Expire
<1>3. CASE UNCHANGED vars
  BY <1>3, CallsUnchanged DEF vars, stateVars
<1> QED
  BY <1>1, <1>2, <1>3, RevokeStep, AccountStep DEF Next


-----------------------------------------------------------------------------
(* The leases a step takes or gives back *)

Same(layer, c) == Holds(layer, c)' <=> Holds(layer, c)

\* The leases of a layer are as they were, are one more, or one less.
Quiet(layer) == \A d \in Calls : Same(layer, d)
TookLease(layer, c) ==
    /\ \A d \in Calls \ {c} : Same(layer, d)
    /\ ~Holds(layer, c) /\ Holds(layer, c)'
Given(layer, c) ==
    /\ \A d \in Calls \ {c} : Same(layer, d)
    /\ Holds(layer, c) /\ ~Holds(layer, c)'

\* What a step does to the counters is what it does to the leases, but for a
\* reply of the store, or a release, that is lost.
Leased(layer, c) ==
    /\ \A other \in Layers \ {layer} : Quiet(other)
    /\ \/ UNCHANGED leaseVars /\ Quiet(layer)
       \/ Acquire(layer, c) /\ TookLease(layer, c)
       \/ AcquireUnheard(layer, c) /\ Quiet(layer)
       \/ Release(layer, c) /\ Given(layer, c)

InLease == {"tool", "calling", "audit", "reply"}
AtWork == {"authorize", "run", "audit"}

LEMMA HoldsAre ==
    ASSUME NEW c \in Calls
    PROVE  /\ Holds("mcp", c) <=> calls[c].pc \in InLease
           /\ Holds("assistant", c) <=> requests[c] \in AtWork
           /\ Holds("mcp", c)' <=> calls'[c].pc \in InLease
           /\ Holds("assistant", c)' <=> requests'[c] \in AtWork
BY DEF Holds, InLease, AtWork

\* Of the other calls nothing changes.
LEMMA OthersSame ==
    ASSUME NEW c \in Calls, OneMoved(c)
    PROVE  \A layer \in Layers, d \in Calls \ {c} : Same(layer, d)
BY DEF OneMoved, Same, Holds

LEMMA QuietCall ==
    ASSUME NEW c \in Calls, OneMoved(c), UNCHANGED leaseVars,
           Same("mcp", c), Same("assistant", c)
    PROVE  \E layer \in Layers : Leased(layer, c)
<1>1. \A layer \in Layers : Quiet(layer)
  BY OthersSame DEF Quiet, Layers
<1>2. "mcp" \in Layers
  BY DEF Layers
<1> QED
  BY <1>1, <1>2 DEF Leased

LEMMA MoveCall ==
    ASSUME NEW c \in Calls, OneMoved(c), NEW layer \in Layers, NEW other \in Layers \ {layer},
           Same(other, c),
           \/ Acquire(layer, c) /\ ~Holds(layer, c) /\ Holds(layer, c)'
           \/ AcquireUnheard(layer, c) /\ Same(layer, c)
           \/ Release(layer, c) /\ Holds(layer, c) /\ ~Holds(layer, c)'
    PROVE  \E l \in Layers : Leased(l, c)
<1>1. \A l \in Layers, d \in Calls \ {c} : Same(l, d)
  BY OthersSame
<1>2. Quiet(other)
  BY <1>1 DEF Quiet
<1>3. \A l \in Layers \ {layer} : l = other
  BY DEF Layers
<1>4. \A l \in Layers \ {layer} : Quiet(l)
  BY <1>2, <1>3
<1>5. CASE Acquire(layer, c) /\ ~Holds(layer, c) /\ Holds(layer, c)'
  <2>1. TookLease(layer, c)
    BY <1>1, <1>5 DEF TookLease
  <2> QED
    BY <1>4, <1>5, <2>1 DEF Leased
<1>6. CASE AcquireUnheard(layer, c) /\ Same(layer, c)
  <2>1. Quiet(layer)
    BY <1>1, <1>6 DEF Quiet
  <2> QED
    BY <1>4, <1>6, <2>1 DEF Leased
<1>7. CASE Release(layer, c) /\ Holds(layer, c) /\ ~Holds(layer, c)'
  <2>1. Given(layer, c)
    BY <1>1, <1>7 DEF Given
  <2> QED
    BY <1>4, <1>7, <2>1 DEF Leased
<1> QED
  BY <1>5, <1>6, <1>7


\* Where an answered call is, and whether it holds a lease.
LEMMA ReceivedWhere ==
    ASSUME CallsInv, NEW c \in Calls, Receive(c, TRUE) \/ Receive(c, FALSE),
           requests[c] \notin {"none", "orphan"}
    PROVE  Same("mcp", c)
<1>1. calls[c].pc \in {"resolving", "calling"}
  BY DEF CallsInv, CallOK, CallTypeOK
<1>2. calls'[c].pc \in InLease <=> calls[c].pc \in InLease
  BY <1>1, DataReceived, ErrorReceived DEF InLease
<1> QED
  BY <1>2, HoldsAre DEF Same

LEMMA StepLeases ==
    ASSUME CallsInv, NEW c \in Calls, Step(c)
    PROVE  \E layer \in Layers : Leased(layer, c)
<1>0. /\ "mcp" \in Layers \ {"assistant"} /\ "assistant" \in Layers \ {"mcp"}
      /\ calls[c] \in Call
  BY DEF Layers, CallsInv, CallOK, CallTypeOK
<1>1. UNCHANGED requests => Same("assistant", c)
  BY DEF Same, Holds
<1>2. UNCHANGED calls => Same("mcp", c)
  BY DEF Same, Holds
<1>3. CASE Begin(c)
  <2>1. OneMoved(c) /\ UNCHANGED leaseVars /\ Same("assistant", c)
    BY <1>1, <1>3, BeginStep DEF Begin
  <2>2. calls[c].pc = "idle" /\ calls'[c].pc = "verify"
    BY <1>3 DEF Begin, At, CallsInv, WorldOK, CallOK, CallTypeOK, Call
  <2>3. Same("mcp", c)
    BY <2>2, HoldsAre DEF Same, InLease
  <2> QED
    BY <2>1, <2>3, QuietCall
<1>4. CASE Denied(c)
  <2>1. OneMoved(c) /\ UNCHANGED leaseVars /\ Same("assistant", c)
    BY <1>1, <1>4, DeniedStep DEF Denied
  <2>2. calls[c].pc = "denied" /\ calls'[c].pc = "done"
    BY <1>4, AnswerStep DEF Denied, AuditedAnswer, At
  <2>3. Same("mcp", c)
    BY <2>2, HoldsAre DEF Same, InLease
  <2> QED
    BY <2>1, <2>3, QuietCall
<1>5. CASE Verify(c)
  <2>1. OneMoved(c) /\ UNCHANGED leaseVars /\ Same("assistant", c)
    BY <1>1, <1>5, VerifyStep DEF Verify
  <2>2. calls[c].pc = "verify" /\ calls'[c].pc \in {"resolve", "denied"}
    BY <1>5, GoStep DEF Verify, At, CallPcs
  <2>3. Same("mcp", c)
    BY <2>2, HoldsAre DEF Same, InLease
  <2> QED
    BY <2>1, <2>3, QuietCall
<1>6. CASE Resolve(c)
  <2>1. OneMoved(c) /\ UNCHANGED leaseVars
    BY <1>6, ResolveStep DEF Resolve
  <2>2. calls[c].pc = "resolve" /\ calls'[c].pc \in {"resolving", "denied"}
    BY <1>6, GoStep DEF Resolve, At, CallPcs
  <2>3. requests[c] \in {"none", "orphan"} /\ requests'[c] \in {requests[c], "verify"}
    BY <1>6, <2>2, AskStep DEF Resolve, CallsInv, CallOK, CallTypeOK
  <2>4. Same("mcp", c) /\ Same("assistant", c)
    BY <2>2, <2>3, HoldsAre DEF Same, InLease, AtWork
  <2> QED
    BY <2>1, <2>4, QuietCall
<1>7. CASE Enter(c)
  <2>1. OneMoved(c) /\ Same("assistant", c) /\ calls[c].pc = "enter"
    BY <1>1, <1>7, EnterStep DEF Enter, At
  <2>2. CASE Acquire("mcp", c) /\ Go(c, "tool")
    <3>1. calls'[c].pc = "tool"
      BY <2>2, GoStep DEF CallPcs
    <3>2. ~Holds("mcp", c) /\ Holds("mcp", c)'
      BY <2>1, <3>1, HoldsAre DEF InLease
    <3> QED
      BY <1>0, <2>1, <2>2, <3>2, MoveCall
  <2>3. CASE Go(c, "denied") /\ UNCHANGED leaseVars
    <3>1. calls'[c].pc = "denied"
      BY <2>3, GoStep DEF CallPcs
    <3>2. Same("mcp", c)
      BY <2>1, <3>1, HoldsAre DEF Same, InLease
    <3> QED
      BY <2>1, <2>3, <3>2, QuietCall
  <2>4. CASE (AcquireUnheard("mcp", c) \/ UNCHANGED leaseVars) /\ Answer(c, "unavailable")
    <3>1. calls'[c].pc = "done"
      BY <2>4, AnswerStep
    <3>2. Same("mcp", c)
      BY <2>1, <3>1, HoldsAre DEF Same, InLease
    <3> QED
      BY <1>0, <2>1, <2>4, <3>2, QuietCall, MoveCall
  <2> QED
    BY <1>7, <2>2, <2>3, <2>4 DEF Enter, Refuse
<1>8. CASE Reject(c)
  <2>1. OneMoved(c) /\ Same("assistant", c) /\ Release("mcp", c)
    BY <1>1, <1>8, RejectStep DEF Reject
  <2>2. calls[c].pc = "tool" /\ calls'[c].pc = "done"
    BY <1>8, AnswerStep DEF Reject, AuditedAnswer, At
  <2>3. Holds("mcp", c) /\ ~Holds("mcp", c)'
    BY <2>2, HoldsAre DEF InLease
  <2> QED
    BY <1>0, <2>1, <2>3, MoveCall
<1>9. ASSUME NEW t \in ToolsOf[c], Dispatch(c, t)
      PROVE  \E layer \in Layers : Leased(layer, c)
  <2>1. OneMoved(c) /\ UNCHANGED leaseVars /\ t \in ToolNames
    BY <1>9, DispatchStep, GatewayAssumption DEF Dispatch
  <2>2. calls[c].pc = "tool" /\ calls'[c].pc \in {"reply", "audit", "calling"}
    BY <1>9, <2>1, HandleStep DEF Dispatch, At, CallPcs
  <2>3. requests[c] \in {"none", "orphan"} /\ requests'[c] \in {requests[c], "verify"}
    BY <1>9, <2>2, AskStep DEF Dispatch, CallsInv, CallOK, CallTypeOK
  <2>4. Same("mcp", c) /\ Same("assistant", c)
    BY <2>2, <2>3, HoldsAre DEF Same, InLease, AtWork
  <2> QED
    BY <2>1, <2>4, QuietCall
<1>10. CASE ToolAudit(c)
  <2>1. OneMoved(c) /\ UNCHANGED leaseVars /\ Same("assistant", c)
    BY <1>1, <1>10, ToolAuditStep DEF ToolAudit
  <2>2. calls[c].pc = "audit" /\ calls'[c].pc = "reply"
    BY <1>10, GoStep, OutcomeStep DEF ToolAudit, At, CallPcs
  <2>3. Same("mcp", c)
    BY <2>2, HoldsAre DEF Same, InLease
  <2> QED
    BY <2>1, <2>3, QuietCall
<1>11. CASE Reply(c)
  <2>1. OneMoved(c) /\ Same("assistant", c) /\ Release("mcp", c)
    BY <1>1, <1>11, ReplyStep DEF Reply
  <2>2. calls[c].pc = "reply" /\ calls[c].out \in {"none", "data", "error", "refused", "unavailable"}
    BY <1>0, <1>11 DEF Reply, At, Call
  <2>3. calls'[c].pc = "done"
    BY <1>11, <2>2, AnswerStep DEF Reply, AuditedAnswer
  <2>4. Holds("mcp", c) /\ ~Holds("mcp", c)'
    BY <2>2, <2>3, HoldsAre DEF InLease
  <2> QED
    BY <1>0, <2>1, <2>4, MoveCall
<1>12. CASE Delegation(c)
  <2>1. OneMoved(c) /\ UNCHANGED leaseVars
    BY <1>12, DelegationStep DEF Delegation
  <2>2. requests[c] = "verify" /\ requests'[c] \in {"limit", "none"}
    BY <1>12, AskStep DEF Delegation, Asks, Respond
  <2>3. Same("mcp", c)
    BY <1>2, <1>12, <2>2, ReceivedWhere DEF Delegation, Respond
  <2>4. Same("assistant", c)
    BY <2>2, HoldsAre DEF Same, AtWork
  <2> QED
    BY <2>1, <2>3, <2>4, QuietCall
<1>13. CASE LimitRequest(c)
  <2>1. OneMoved(c) /\ requests[c] = "limit"
    BY <1>13, LimitRequestStep DEF LimitRequest, Asks
  <2>2. Same("mcp", c)
    BY <1>2, <1>13, <2>1, ReceivedWhere DEF LimitRequest, Respond
  <2>3. CASE Acquire("assistant", c) /\ Ask(c, "authorize")
    <3>1. requests'[c] = "authorize"
      BY <2>3, AskStep
    <3>2. ~Holds("assistant", c) /\ Holds("assistant", c)'
      BY <2>1, <3>1, HoldsAre DEF AtWork
    <3> QED
      BY <1>0, <2>1, <2>2, <2>3, <3>2, MoveCall
  <2>4. CASE (UNCHANGED leaseVars \/ AcquireUnheard("assistant", c)) /\ Ask(c, "none")
    <3>1. requests'[c] = "none"
      BY <2>4, AskStep
    <3>2. Same("assistant", c)
      BY <2>1, <3>1, HoldsAre DEF Same, AtWork
    <3> QED
      BY <1>0, <2>1, <2>2, <2>4, <3>2, QuietCall, MoveCall
  <2> QED
    BY <1>13, <2>3, <2>4 DEF LimitRequest, Refuse, Respond
<1>14. CASE Authorize(c)
  <2>1. OneMoved(c) /\ requests[c] = "authorize"
    BY <1>14, AuthorizeStep DEF Authorize, Asks
  <2>2. Same("mcp", c)
    BY <1>2, <1>14, <2>1, ReceivedWhere DEF Authorize, Respond
  <2>3. CASE (Ask(c, "run") \/ Ask(c, "audit")) /\ UNCHANGED leaseVars
    <3>1. requests'[c] \in {"run", "audit"}
      BY <2>3, AskStep
    <3>2. Same("assistant", c)
      BY <2>1, <3>1, HoldsAre DEF Same, AtWork
    <3> QED
      BY <2>1, <2>2, <2>3, <3>2, QuietCall
  <2>4. CASE Ask(c, "none") /\ Release("assistant", c)
    <3>1. requests'[c] = "none"
      BY <2>4, AskStep
    <3>2. Holds("assistant", c) /\ ~Holds("assistant", c)'
      BY <2>1, <3>1, HoldsAre DEF AtWork
    <3> QED
      BY <1>0, <2>1, <2>2, <2>4, <3>2, MoveCall
  <2> QED
    BY <1>14, <2>3, <2>4 DEF Authorize, Respond
<1>15. CASE Run(c)
  <2>1. OneMoved(c) /\ requests[c] = "run"
    BY <1>15, RunStep DEF Run, Asks
  <2>2. Same("mcp", c)
    BY <1>2, <1>15, <2>1, ReceivedWhere DEF Run, RunAtomically, Respond
  <2>3. CASE Ask(c, "audit") /\ UNCHANGED leaseVars
    <3>1. requests'[c] = "audit"
      BY <2>3, AskStep
    <3>2. Same("assistant", c)
      BY <2>1, <3>1, HoldsAre DEF Same, AtWork
    <3> QED
      BY <2>1, <2>2, <2>3, <3>2, QuietCall
  <2>4. CASE Ask(c, "none") /\ Release("assistant", c)
    <3>1. requests'[c] = "none"
      BY <2>4, AskStep
    <3>2. Holds("assistant", c) /\ ~Holds("assistant", c)'
      BY <2>1, <3>1, HoldsAre DEF AtWork
    <3> QED
      BY <1>0, <2>1, <2>2, <2>4, <3>2, MoveCall
  <2> QED
    BY <1>15, <2>3, <2>4 DEF Run, RunAtomically, Respond
<1>16. CASE AuditResponse(c)
  <2>1. OneMoved(c) /\ requests[c] = "audit" /\ Release("assistant", c)
    BY <1>16, AuditResponseStep DEF AuditResponse, Asks
  <2>2. Same("mcp", c)
    BY <1>16, <2>1, ReceivedWhere DEF AuditResponse, Respond
  <2>3. requests'[c] = "none"
    BY <1>16, AskStep DEF AuditResponse, Respond
  <2>4. Holds("assistant", c) /\ ~Holds("assistant", c)'
    BY <2>1, <2>3, HoldsAre DEF AtWork
  <2> QED
    BY <1>0, <2>1, <2>2, <2>4, MoveCall
<1>17. CASE Timeout(c)
  <2>1. OneMoved(c) /\ requests[c] \notin {"none", "orphan"}
    BY <1>17, TimeoutStep DEF Timeout
  <2>2. Same("mcp", c)
    BY <1>17, <2>1, ReceivedWhere DEF Timeout
  <2>3. CASE requests[c] \in {"verify", "limit"} /\ Ask(c, "orphan") /\ UNCHANGED leaseVars
    <3>1. requests'[c] = "orphan"
      BY <2>3, AskStep
    <3>2. Same("assistant", c)
      BY <2>3, <3>1, HoldsAre DEF Same, AtWork
    <3> QED
      BY <2>1, <2>2, <2>3, <3>2, QuietCall
  <2>4. CASE requests[c] \in {"authorize", "run", "audit"} /\ Ask(c, "none")
             /\ Release("assistant", c)
    <3>1. requests'[c] = "none"
      BY <2>4, AskStep
    <3>2. Holds("assistant", c) /\ ~Holds("assistant", c)'
      BY <2>4, <3>1, HoldsAre DEF AtWork
    <3> QED
      BY <1>0, <2>1, <2>2, <2>4, <3>2, MoveCall
  <2> QED
    BY <1>17, <2>3, <2>4 DEF Timeout
<1>18. CASE Orphan(c)
  <2>1. OneMoved(c) /\ Same("mcp", c) /\ (AcquireUnheard("assistant", c) \/ UNCHANGED leaseVars)
    BY <1>2, <1>18, OrphanStep DEF Orphan
  <2>2. requests[c] = "orphan" /\ requests'[c] = "none"
    BY <1>18, AskStep DEF Orphan, Asks
  <2>3. Same("assistant", c)
    BY <2>2, HoldsAre DEF Same, AtWork
  <2> QED
    BY <1>0, <2>1, <2>3, QuietCall, MoveCall
<1> QED
  BY <1>3, <1>4, <1>5, <1>6, <1>7, <1>8, <1>9, <1>10, <1>11, <1>12, <1>13, <1>14,
     <1>15, <1>16,
     <1>17, <1>18 DEF Step


-----------------------------------------------------------------------------
(* The counters cover the leases *)

LeaseTypeOK ==
    /\ counts \in [Layers -> [Keys -> 0..Limit]]
    /\ leaks \in [Layers -> [Keys -> 0..losses]]
    /\ outlived \in SUBSET (Layers \X Keys)
    /\ expiries \in 0..MaxExpiries /\ losses \in 0..MaxLosses

LeaseInv == LeaseTypeOK /\ CapacityExact

InUse(layer, key) == Cardinality(Holders(layer, key))

LEMMA HoldersFinite ==
    ASSUME NEW layer, NEW key
    PROVE  IsFiniteSet(Holders(layer, key)) /\ InUse(layer, key) \in Nat
<1>1. Holders(layer, key) \subseteq Calls
  BY DEF Holders
<1> QED
  BY <1>1, GatewayAssumption, FS_Subset, FS_CardinalityType DEF InUse

LEMMA QuietHolders ==
    ASSUME NEW layer \in Layers, Quiet(layer), NEW key \in Keys
    PROVE  Holders(layer, key)' = Holders(layer, key) /\ InUse(layer, key)' = InUse(layer, key)
<1>1. Holders(layer, key)' = Holders(layer, key)
  BY DEF Quiet, Same, Holders
<1> QED
  BY <1>1 DEF InUse

LEMMA TakenHolders ==
    ASSUME NEW layer \in Layers, NEW c \in Calls, TookLease(layer, c), NEW key \in Keys
    PROVE  InUse(layer, key)' = InUse(layer, key) + IF key \in KeysOf(c) THEN 1 ELSE 0
<1>1. CASE key \in KeysOf(c)
  <2>1. Holders(layer, key)' = Holders(layer, key) \cup {c} /\ c \notin Holders(layer, key)
    BY <1>1 DEF TookLease, Same, Holders
  <2> QED
    BY <1>1, <2>1, HoldersFinite, FS_AddElement DEF InUse
<1>2. CASE key \notin KeysOf(c)
  <2>1. Holders(layer, key)' = Holders(layer, key)
    BY <1>2 DEF TookLease, Same, Holders
  <2>2. InUse(layer, key)' = InUse(layer, key)
    BY <2>1 DEF InUse
  <2> QED
    BY <1>2, <2>2, HoldersFinite
<1> QED
  BY <1>1, <1>2

LEMMA GivenHolders ==
    ASSUME NEW layer \in Layers, NEW c \in Calls, Given(layer, c), NEW key \in Keys
    PROVE  /\ key \notin KeysOf(c) => InUse(layer, key)' = InUse(layer, key)
           /\ key \in KeysOf(c) => /\ InUse(layer, key) > 0
                                   /\ InUse(layer, key)' = InUse(layer, key) - 1
                                   /\ Holders(layer, key) = {c} => InUse(layer, key)' = 0
<1>1. CASE key \in KeysOf(c)
  <2>1. Holders(layer, key)' = Holders(layer, key) \ {c} /\ c \in Holders(layer, key)
    BY <1>1 DEF Given, Same, Holders
  <2>2. InUse(layer, key)' = InUse(layer, key) - 1
    BY <2>1, HoldersFinite, FS_RemoveElement DEF InUse
  <2>3. InUse(layer, key) # 0
    BY <2>1, HoldersFinite, FS_EmptySet DEF InUse
  <2>4. Holders(layer, key) = {c} => InUse(layer, key)' = 0
    <3>1. Holders(layer, key) = {c} => Holders(layer, key)' = {}
      BY <2>1
    <3> QED
      BY <3>1, FS_EmptySet DEF InUse
  <2> QED
    BY <1>1, <2>2, <2>3, <2>4, HoldersFinite
<1>2. CASE key \notin KeysOf(c)
  <2>1. Holders(layer, key)' = Holders(layer, key)
    BY <1>2 DEF Given, Same, Holders
  <2> QED
    BY <1>2, <2>1 DEF InUse
<1> QED
  BY <1>1, <1>2

\* A counter and what it counts.
LEMMA Counted ==
    ASSUME LeaseTypeOK, NEW layer \in Layers, NEW key \in Keys
    PROVE  /\ counts[layer][key] \in 0..Limit /\ counts[layer][key] \in Nat
           /\ leaks[layer][key] \in 0..losses /\ leaks[layer][key] \in Nat
           /\ losses \in Nat /\ losses <= MaxLosses
BY GatewayAssumption DEF LeaseTypeOK

Covered(layer, key) ==
    /\ counts[layer][key] <= InUse(layer, key) + leaks[layer][key]
    /\ <<layer, key>> \notin outlived => InUse(layer, key) <= counts[layer][key]

LEMMA ExactIsCovered ==
    CapacityExact <=> \A layer \in Layers, key \in Keys : Covered(layer, key)
BY DEF CapacityExact, Covered, InUse

LEMMA ExactNext ==
    ASSUME LeaseTypeOK', \A layer \in Layers, key \in Keys : Covered(layer, key)'
    PROVE  LeaseInv'
BY DEF LeaseInv, CapacityExact, Covered, InUse

\* A key whose counter, leases and history stay as they are.
LEMMA KeyUntouched ==
    ASSUME LeaseInv, NEW layer \in Layers, NEW key \in Keys,
           counts'[layer][key] = counts[layer][key], leaks'[layer][key] = leaks[layer][key],
           InUse(layer, key)' = InUse(layer, key),
           <<layer, key>> \in outlived => <<layer, key>> \in outlived'
    PROVE  Covered(layer, key)'
BY ExactIsCovered DEF LeaseInv, Covered

\* One more lease, counted at each key it takes.
LEMMA UpCounts ==
    ASSUME LeaseInv, NEW layer \in Layers, NEW c \in Calls,
           \A k \in KeysOf(c) : Fits(layer, k), SetCounts(layer, Up(layer, c))
    PROVE  /\ counts' \in [Layers -> [Keys -> 0..Limit]]
           /\ \A l \in Layers \ {layer} : counts'[l] = counts[l]
           /\ \A k \in Keys :
                /\ k \in KeysOf(c) => counts'[layer][k] = counts[layer][k] + 1
                /\ k \notin KeysOf(c) => counts'[layer][k] = counts[layer][k]
<1>1. counts \in [Layers -> [Keys -> 0..Limit]] /\ Limit \in Nat
  BY GatewayAssumption DEF LeaseInv, LeaseTypeOK
<1>2. counts' = [counts EXCEPT ![layer] = Up(layer, c)]
  BY DEF SetCounts
<1>3. ASSUME NEW k \in Keys
      PROVE  /\ Up(layer, c)[k] \in 0..Limit
             /\ k \in KeysOf(c) => Up(layer, c)[k] = counts[layer][k] + 1
             /\ k \notin KeysOf(c) => Up(layer, c)[k] = counts[layer][k]
  <2>1. Up(layer, c)[k] = counts[layer][k] + IF k \in KeysOf(c) THEN 1 ELSE 0
    BY DEF Up
  <2>2. PICK n \in 0..Limit : n = counts[layer][k]
    BY <1>1
  <2>3. k \in KeysOf(c) => n < Limit
    BY <2>2 DEF Fits
  <2> QED
    BY <1>1, <2>1, <2>2, <2>3
<1>4. Up(layer, c) \in [Keys -> 0..Limit]
  BY <1>3 DEF Up
<1> QED
  BY <1>1, <1>2, <1>3, <1>4

LEMMA AcquireStep ==
    ASSUME LeaseInv, NEW layer \in Layers, NEW c \in Calls, Leased(layer, c),
           Acquire(layer, c), TookLease(layer, c)
    PROVE  LeaseInv'
<1>1. /\ counts' \in [Layers -> [Keys -> 0..Limit]]
      /\ \A l \in Layers \ {layer} : counts'[l] = counts[l]
      /\ \A k \in Keys :
           /\ k \in KeysOf(c) => counts'[layer][k] = counts[layer][k] + 1
           /\ k \notin KeysOf(c) => counts'[layer][k] = counts[layer][k]
  BY UpCounts DEF Acquire
<1>2. UNCHANGED <<leaks, outlived, expiries, losses>>
  BY DEF Acquire
<1>3. LeaseTypeOK'
  BY <1>1, <1>2 DEF LeaseInv, LeaseTypeOK
<1>4. ASSUME NEW l \in Layers, NEW k \in Keys PROVE Covered(l, k)'
  <2>1. CASE l # layer
    BY <1>1, <1>2, <2>1, QuietHolders, KeyUntouched DEF Leased
  <2>2. CASE l = layer /\ k \notin KeysOf(c)
    <3>1. InUse(layer, k)' = InUse(layer, k)
      BY <2>2, TakenHolders, HoldersFinite
    <3> QED
      BY <1>1, <1>2, <2>2, <3>1, KeyUntouched
  <2>3. CASE l = layer /\ k \in KeysOf(c)
    <3>1. InUse(layer, k)' = InUse(layer, k) + 1
      BY <2>3, TakenHolders
    <3>2. PICK n \in Nat, u \in Nat, k1 \in Nat :
            n = counts[layer][k] /\ u = InUse(layer, k) /\ k1 = leaks[layer][k]
      BY HoldersFinite, Counted DEF LeaseInv
    <3>3. n <= u + k1 /\ (<<layer, k>> \notin outlived => u <= n)
      BY <3>2, ExactIsCovered DEF LeaseInv, Covered
    <3>4. counts'[layer][k] = n + 1 /\ InUse(layer, k)' = u + 1 /\ leaks'[layer][k] = k1
      BY <1>1, <1>2, <2>3, <3>1, <3>2
    <3>5. n + 1 <= u + 1 + k1 /\ (<<layer, k>> \notin outlived => u + 1 <= n + 1)
      BY <3>3
    <3> QED
      BY <1>2, <2>3, <3>4, <3>5 DEF Covered
  <2> QED
    BY <2>1, <2>2, <2>3
<1> QED
  BY <1>3, <1>4, ExactNext

LEMMA MoreLeaks ==
    ASSUME LeaseInv, NEW layer \in Layers, NEW c \in Calls, losses' = losses + 1,
           leaks' = [leaks EXCEPT ![layer] =
                       [k \in Keys |-> @[k] + IF k \in KeysOf(c) THEN 1 ELSE 0]]
    PROVE  /\ leaks' \in [Layers -> [Keys -> 0..losses']]
           /\ \A l \in Layers \ {layer} : leaks'[l] = leaks[l]
           /\ \A k \in Keys :
                /\ k \in KeysOf(c) => leaks'[layer][k] = leaks[layer][k] + 1
                /\ k \notin KeysOf(c) => leaks'[layer][k] = leaks[layer][k]
<1>1. leaks \in [Layers -> [Keys -> 0..losses]] /\ losses \in Nat
  BY GatewayAssumption DEF LeaseInv, LeaseTypeOK
<1> DEFINE more == [k \in Keys |-> leaks[layer][k] + IF k \in KeysOf(c) THEN 1 ELSE 0]
<1>2. ASSUME NEW k \in Keys
      PROVE  /\ more[k] \in 0..(losses + 1)
             /\ k \in KeysOf(c) => more[k] = leaks[layer][k] + 1
             /\ k \notin KeysOf(c) => more[k] = leaks[layer][k]
  <2>1. PICK n \in 0..losses : n = leaks[layer][k]
    BY <1>1
  <2> QED
    BY <1>1, <2>1
<1>3. more \in [Keys -> 0..(losses + 1)]
  BY <1>2
<1>4. leaks' = [leaks EXCEPT ![layer] = more]
  BY <1>1
<1> HIDE DEF more
<1>5. ASSUME NEW l \in Layers PROVE leaks'[l] \in [Keys -> 0..losses']
  <2>1. CASE l = layer
    BY <1>1, <1>3, <1>4, <2>1
  <2>2. CASE l # layer
    <3>1. leaks'[l] = leaks[l] /\ \A n \in 0..losses : n \in 0..(losses + 1)
      BY <1>1, <1>4, <2>2
    <3> QED
      BY <1>1, <3>1
  <2> QED
    BY <2>1, <2>2
<1> QED
  BY <1>1, <1>2, <1>4, <1>5

\* A counted lease that nobody has.
LEMMA UnheardStep ==
    ASSUME LeaseInv, NEW layer \in Layers, NEW c \in Calls, Leased(layer, c),
           AcquireUnheard(layer, c), Quiet(layer)
    PROVE  LeaseInv'
<1>1. /\ counts' \in [Layers -> [Keys -> 0..Limit]]
      /\ \A l \in Layers \ {layer} : counts'[l] = counts[l]
      /\ \A k \in Keys :
           /\ k \in KeysOf(c) => counts'[layer][k] = counts[layer][k] + 1
           /\ k \notin KeysOf(c) => counts'[layer][k] = counts[layer][k]
  BY UpCounts DEF AcquireUnheard
<1>2. /\ losses' = losses + 1 /\ losses < MaxLosses /\ UNCHANGED <<outlived, expiries>>
      /\ leaks' = [leaks EXCEPT ![layer] =
                     [k \in Keys |-> @[k] + IF k \in KeysOf(c) THEN 1 ELSE 0]]
  BY DEF AcquireUnheard
<1>3. /\ leaks' \in [Layers -> [Keys -> 0..losses']]
      /\ \A l \in Layers \ {layer} : leaks'[l] = leaks[l]
      /\ \A k \in Keys :
           /\ k \in KeysOf(c) => leaks'[layer][k] = leaks[layer][k] + 1
           /\ k \notin KeysOf(c) => leaks'[layer][k] = leaks[layer][k]
  BY <1>2, MoreLeaks
<1>4. LeaseTypeOK'
  BY <1>1, <1>2, <1>3, GatewayAssumption DEF LeaseInv, LeaseTypeOK
<1>5. ASSUME NEW l \in Layers, NEW k \in Keys PROVE Covered(l, k)'
  <2>1. InUse(l, k)' = InUse(l, k)
    BY QuietHolders DEF Leased
  <2>2. CASE l # layer \/ k \notin KeysOf(c)
    <3>1. counts'[l][k] = counts[l][k] /\ leaks'[l][k] = leaks[l][k]
      BY <1>1, <1>3, <2>2
    <3> QED
      BY <1>2, <2>1, <3>1, KeyUntouched
  <2>3. CASE l = layer /\ k \in KeysOf(c)
    <3>2. PICK n \in Nat, u \in Nat, k1 \in Nat :
            n = counts[layer][k] /\ u = InUse(layer, k) /\ k1 = leaks[layer][k]
      BY HoldersFinite, Counted DEF LeaseInv
    <3>3. n <= u + k1 /\ (<<layer, k>> \notin outlived => u <= n)
      BY <3>2, ExactIsCovered DEF LeaseInv, Covered
    <3>4. counts'[layer][k] = n + 1 /\ InUse(layer, k)' = u /\ leaks'[layer][k] = k1 + 1
      BY <1>1, <1>3, <2>1, <2>3, <3>2
    <3>5. n + 1 <= u + (k1 + 1) /\ (<<layer, k>> \notin outlived => u <= n + 1)
      BY <3>3
    <3> QED
      BY <1>2, <2>3, <3>4, <3>5 DEF Covered
  <2> QED
    BY <2>2, <2>3
<1> QED
  BY <1>4, <1>5, ExactNext

\* The history of expired counters that is forgiven with the last lease.
LEMMA ForgivenStep ==
    ASSUME LeaseInv, NEW layer \in Layers, NEW c \in Calls, Given(layer, c), Forgiven(layer, c)
    PROVE  /\ outlived' \in SUBSET (Layers \X Keys)
           /\ \A l \in Layers \ {layer}, k \in Keys :
                <<l, k>> \in outlived => <<l, k>> \in outlived'
           /\ \A k \in Keys : k \notin KeysOf(c) =>
                (<<layer, k>> \in outlived => <<layer, k>> \in outlived')
           /\ \A k \in Keys : k \in KeysOf(c) =>
                \/ <<layer, k>> \in outlived => <<layer, k>> \in outlived'
                \/ InUse(layer, k)' = 0
<1>1. outlived' = outlived \ {<<layer, k>> : k \in {x \in KeysOf(c) : Holders(layer, x) = {c}}}
  BY DEF Forgiven
<1>2. ASSUME NEW k \in Keys, k \in KeysOf(c), Holders(layer, k) # {c}, <<layer, k>> \in outlived
      PROVE  <<layer, k>> \in outlived'
  BY <1>1, <1>2
<1> QED
  BY <1>1, <1>2, GivenHolders DEF LeaseInv, LeaseTypeOK

LEMMA GiveBackStep ==
    ASSUME LeaseInv, NEW layer \in Layers, NEW c \in Calls, Leased(layer, c),
           GiveBack(layer, c), Given(layer, c)
    PROVE  LeaseInv'
<1>1. /\ counts \in [Layers -> [Keys -> 0..Limit]] /\ Limit \in Nat
      /\ leaks \in [Layers -> [Keys -> 0..losses]] /\ losses \in Nat
  BY GatewayAssumption DEF LeaseInv, LeaseTypeOK
<1>2. /\ SetCounts(layer, [k \in Keys |->
           IF k \in KeysOf(c) /\ counts[layer][k] > 0 THEN counts[layer][k] - 1
                                                      ELSE counts[layer][k]])
      /\ leaks' = [leaks EXCEPT ![layer] = [k \in Keys |->
           IF k \in KeysOf(c) /\ counts[layer][k] <= 1 THEN 0 ELSE @[k]]]
      /\ Forgiven(layer, c) /\ UNCHANGED <<expiries, losses>>
  BY DEF GiveBack
<1>3. /\ counts' \in [Layers -> [Keys -> 0..Limit]]
      /\ \A l \in Layers \ {layer} : counts'[l] = counts[l]
      /\ \A k \in Keys :
           counts'[layer][k] = IF k \in KeysOf(c) /\ counts[layer][k] > 0
                                 THEN counts[layer][k] - 1 ELSE counts[layer][k]
  <2> DEFINE down == [k \in Keys |-> IF k \in KeysOf(c) /\ counts[layer][k] > 0
                                       THEN counts[layer][k] - 1 ELSE counts[layer][k]]
  <2>1. ASSUME NEW k \in Keys PROVE down[k] \in 0..Limit
    <3>1. PICK n \in 0..Limit : n = counts[layer][k]
      BY <1>1
    <3> QED
      BY <1>1, <3>1
  <2>2. down \in [Keys -> 0..Limit]
    BY <2>1
  <2>3. counts' = [counts EXCEPT ![layer] = down]
    BY <1>2 DEF SetCounts
  <2> QED
    BY <1>1, <2>2, <2>3
<1>4. /\ leaks' \in [Layers -> [Keys -> 0..losses]]
      /\ \A l \in Layers \ {layer} : leaks'[l] = leaks[l]
      /\ \A k \in Keys :
           leaks'[layer][k] = IF k \in KeysOf(c) /\ counts[layer][k] <= 1
                                THEN 0 ELSE leaks[layer][k]
  <2> DEFINE down == [k \in Keys |-> IF k \in KeysOf(c) /\ counts[layer][k] <= 1
                                       THEN 0 ELSE leaks[layer][k]]
  <2>1. ASSUME NEW k \in Keys PROVE down[k] \in 0..losses
    BY <1>1
  <2>2. down \in [Keys -> 0..losses]
    BY <2>1
  <2>3. leaks' = [leaks EXCEPT ![layer] = down]
    BY <1>1, <1>2
  <2> QED
    BY <1>1, <2>2, <2>3
<1>5. LeaseTypeOK'
  BY <1>2, <1>3, <1>4, ForgivenStep DEF LeaseInv, LeaseTypeOK
<1>6. ASSUME NEW l \in Layers, NEW k \in Keys PROVE Covered(l, k)'
  <2>1. CASE l # layer
    BY <1>2, <1>3, <1>4, <2>1, QuietHolders, ForgivenStep, KeyUntouched DEF Leased
  <2>2. CASE l = layer /\ k \notin KeysOf(c)
    <3>1. counts'[layer][k] = counts[layer][k] /\ leaks'[layer][k] = leaks[layer][k]
      BY <1>2, <1>3, <1>4, <2>2
    <3>2. InUse(layer, k)' = InUse(layer, k)
      BY <2>2, GivenHolders
    <3>3. <<layer, k>> \in outlived => <<layer, k>> \in outlived'
      BY <1>2, <2>2, ForgivenStep
    <3> QED
      BY <2>2, <3>1, <3>2, <3>3, KeyUntouched
  <2>3. CASE l = layer /\ k \in KeysOf(c)
    <3>1. PICK n \in Nat, u \in Nat, k1 \in Nat :
            n = counts[layer][k] /\ u = InUse(layer, k) /\ k1 = leaks[layer][k]
      BY HoldersFinite, Counted DEF LeaseInv
    <3>2. n <= u + k1 /\ (<<layer, k>> \notin outlived => u <= n)
      BY <3>1, ExactIsCovered DEF LeaseInv, Covered
    <3>3. u > 0 /\ InUse(layer, k)' = u - 1
      BY <2>3, <3>1, GivenHolders
    <3>4. /\ counts'[layer][k] = IF n > 0 THEN n - 1 ELSE n
          /\ leaks'[layer][k] = IF n <= 1 THEN 0 ELSE k1
      BY <1>3, <1>4, <2>3, <3>1
    <3>5. PICK m \in Nat, k2 \in Nat :
            /\ m = (IF n > 0 THEN n - 1 ELSE n) /\ k2 = IF n <= 1 THEN 0 ELSE k1
            /\ counts'[layer][k] = m /\ leaks'[layer][k] = k2
      BY <3>4
    <3>6. m <= (u - 1) + k2 /\ (<<layer, k>> \notin outlived => u - 1 <= m)
      BY <3>2, <3>3, <3>5
    <3>7. \/ <<layer, k>> \in outlived => <<layer, k>> \in outlived'
          \/ u - 1 = 0
      BY <1>2, <2>3, <3>3, ForgivenStep
    <3>8. <<layer, k>> \notin outlived' => u - 1 <= m
      BY <3>6, <3>7
    <3> QED
      BY <2>3, <3>3, <3>5, <3>6, <3>8 DEF Covered
  <2> QED
    BY <2>1, <2>2, <2>3
<1> QED
  BY <1>5, <1>6, ExactNext

LEMMA LeakStep ==
    ASSUME LeaseInv, NEW layer \in Layers, NEW c \in Calls, Leased(layer, c),
           Leak(layer, c), Given(layer, c)
    PROVE  LeaseInv'
<1>1. /\ losses' = losses + 1 /\ losses < MaxLosses /\ UNCHANGED <<counts, expiries>>
      /\ Forgiven(layer, c)
      /\ leaks' = [leaks EXCEPT ![layer] =
                     [k \in Keys |-> @[k] + IF k \in KeysOf(c) THEN 1 ELSE 0]]
  BY DEF Leak
<1>2. /\ leaks' \in [Layers -> [Keys -> 0..losses']]
      /\ \A l \in Layers \ {layer} : leaks'[l] = leaks[l]
      /\ \A k \in Keys :
           /\ k \in KeysOf(c) => leaks'[layer][k] = leaks[layer][k] + 1
           /\ k \notin KeysOf(c) => leaks'[layer][k] = leaks[layer][k]
  BY <1>1, MoreLeaks
<1>3. LeaseTypeOK'
  BY <1>1, <1>2, ForgivenStep, GatewayAssumption DEF LeaseInv, LeaseTypeOK
<1>4. ASSUME NEW l \in Layers, NEW k \in Keys PROVE Covered(l, k)'
  <2>1. CASE l # layer
    BY <1>1, <1>2, <2>1, QuietHolders, ForgivenStep, KeyUntouched DEF Leased
  <2>2. CASE l = layer /\ k \notin KeysOf(c)
    <3>1. counts'[layer][k] = counts[layer][k] /\ leaks'[layer][k] = leaks[layer][k]
      BY <1>1, <1>2, <2>2
    <3>2. InUse(layer, k)' = InUse(layer, k)
      BY <2>2, GivenHolders
    <3>3. <<layer, k>> \in outlived => <<layer, k>> \in outlived'
      BY <1>1, <2>2, ForgivenStep
    <3> QED
      BY <2>2, <3>1, <3>2, <3>3, KeyUntouched
  <2>3. CASE l = layer /\ k \in KeysOf(c)
    <3>1. PICK n \in Nat, u \in Nat, k1 \in Nat :
            n = counts[layer][k] /\ u = InUse(layer, k) /\ k1 = leaks[layer][k]
      BY HoldersFinite, Counted DEF LeaseInv
    <3>2. n <= u + k1 /\ (<<layer, k>> \notin outlived => u <= n)
      BY <3>1, ExactIsCovered DEF LeaseInv, Covered
    <3>3. u > 0 /\ InUse(layer, k)' = u - 1
      BY <2>3, <3>1, GivenHolders
    <3>4. counts'[layer][k] = n /\ leaks'[layer][k] = k1 + 1
      BY <1>1, <1>2, <2>3, <3>1
    <3>5. n <= (u - 1) + (k1 + 1) /\ (<<layer, k>> \notin outlived => u - 1 <= n)
      BY <3>2, <3>3
    <3>6. \/ <<layer, k>> \in outlived => <<layer, k>> \in outlived'
          \/ u - 1 = 0
      BY <1>1, <2>3, <3>3, ForgivenStep
    <3>7. <<layer, k>> \notin outlived' => u - 1 <= n
      BY <3>5, <3>6
    <3> QED
      BY <2>3, <3>3, <3>4, <3>5, <3>7 DEF Covered
  <2> QED
    BY <2>1, <2>2, <2>3
<1> QED
  BY <1>3, <1>4, ExactNext

LEMMA ExpireStep ==
    ASSUME LeaseInv, NEW layer \in Layers, NEW key \in Keys, Expire(layer, key)
    PROVE  LeaseInv'
<1>1. /\ counts' = [counts EXCEPT ![layer] = [counts[layer] EXCEPT ![key] = 0]]
      /\ leaks' = [leaks EXCEPT ![layer] = [leaks[layer] EXCEPT ![key] = 0]]
      /\ expiries < MaxExpiries /\ expiries' = expiries + 1
      /\ UNCHANGED <<stateVars, losses>>
      /\ outlived' = IF Holders(layer, key) = {} THEN outlived
                                                 ELSE outlived \cup {<<layer, key>>}
  BY DEF Expire, SetCounts, LeaseInv, LeaseTypeOK
<1>2. /\ counts' \in [Layers -> [Keys -> 0..Limit]]
      /\ leaks' \in [Layers -> [Keys -> 0..losses]]
  BY <1>1, GatewayAssumption DEF LeaseInv, LeaseTypeOK
<1>3. LeaseTypeOK'
  BY <1>1, <1>2, GatewayAssumption DEF LeaseInv, LeaseTypeOK
<1>4. ASSUME NEW l \in Layers, NEW k \in Keys PROVE Covered(l, k)'
  <2>1. Holders(l, k)' = Holders(l, k) /\ InUse(l, k)' = InUse(l, k)
    BY <1>1 DEF Holders, Holds, InUse, stateVars
  <2>2. CASE l # layer \/ k # key
    <3>1. counts'[l][k] = counts[l][k] /\ leaks'[l][k] = leaks[l][k]
      BY <1>1, <2>2 DEF LeaseInv, LeaseTypeOK
    <3> QED
      BY <1>1, <2>1, <3>1, KeyUntouched
  <2>3. CASE l = layer /\ k = key
    <3>1. counts'[l][k] = 0 /\ leaks'[l][k] = 0
      BY <1>1, <2>3 DEF LeaseInv, LeaseTypeOK
    <3>2. <<l, k>> \notin outlived' => InUse(l, k) = 0
      BY <1>1, <2>3, FS_EmptySet DEF InUse
    <3>3. PICK u \in Nat : u = InUse(l, k) /\ u = InUse(l, k)'
      BY <2>1, HoldersFinite
    <3> QED
      BY <3>1, <3>2, <3>3 DEF Covered
  <2> QED
    BY <2>2, <2>3
<1> QED
  BY <1>3, <1>4, ExactNext

LEMMA LeasesUnchanged ==
    ASSUME LeaseInv, UNCHANGED leaseVars, \A layer \in Layers : Quiet(layer)
    PROVE  LeaseInv'
<1>1. LeaseTypeOK'
  BY DEF LeaseInv, LeaseTypeOK, leaseVars
<1>2. ASSUME NEW l \in Layers, NEW k \in Keys PROVE Covered(l, k)'
  BY QuietHolders, KeyUntouched DEF leaseVars
<1> QED
  BY <1>1, <1>2, ExactNext

LEMMA LeasesInit ==
    ASSUME Init
    PROVE  LeaseInv
<1>1. LeaseTypeOK
  BY GatewayAssumption DEF Init, LeaseTypeOK
<1>2. ASSUME NEW l \in Layers, NEW k \in Keys PROVE Covered(l, k)
  <2>1. Holders(l, k) = {}
    BY DEF Init, Holders, Holds
  <2>2. InUse(l, k) = 0
    BY <2>1, FS_EmptySet DEF InUse
  <2>3. counts[l][k] = 0 /\ leaks[l][k] = 0
    BY DEF Init
  <2> QED
    BY <2>2, <2>3 DEF Covered
<1> QED
  BY <1>1, <1>2, ExactIsCovered DEF LeaseInv

LEMMA LeasesNext ==
    ASSUME CallsInv, LeaseInv, [Next]_vars
    PROVE  LeaseInv'
<1>1. ASSUME NEW c \in Calls, Step(c) PROVE LeaseInv'
  <2>1. PICK layer \in Layers : Leased(layer, c)
    BY <1>1, StepLeases
  <2>2. CASE UNCHANGED leaseVars /\ Quiet(layer)
    BY <2>1, <2>2, LeasesUnchanged DEF Leased
  <2>3. CASE Acquire(layer, c) /\ TookLease(layer, c)
    BY <2>1, <2>3, AcquireStep
  <2>4. CASE AcquireUnheard(layer, c) /\ Quiet(layer)
    BY <2>1, <2>4, UnheardStep
  <2>5. CASE Release(layer, c) /\ Given(layer, c)
    BY <2>1, <2>5, GiveBackStep, LeakStep DEF Release
  <2> QED
    BY <2>1, <2>2, <2>3, <2>4, <2>5 DEF Leased
<1>2. ASSUME NEW p \in Restless, Revoke(p) PROVE LeaseInv'
  <2>1. UNCHANGED leaseVars /\ \A layer \in Layers : Quiet(layer)
    BY <1>2 DEF Revoke, Quiet, Same, Holds
  <2> QED
    BY <2>1, LeasesUnchanged
<1>3. ASSUME NEW p \in Restless, NEW to \in {"same", "changed", "gone"}, AccountChanges(p, to)
      PROVE  LeaseInv'
  <2>1. UNCHANGED <<leaseVars, requests>>
    BY <1>3 DEF AccountChanges
  <2>2. ASSUME NEW c \in Calls PROVE calls'[c].pc = calls[c].pc
    <3>1. calls[c] \in Call
      BY DEF CallsInv, CallOK, CallTypeOK
    <3> QED
      BY <1>3, <3>1 DEF AccountChanges, Call
  <2>3. \A layer \in Layers : Quiet(layer)
    BY <2>1, <2>2 DEF Quiet, Same, Holds
  <2> QED
    BY <2>1, <2>3, LeasesUnchanged
<1>4. CASE UNCHANGED vars
  <2>1. UNCHANGED leaseVars /\ \A layer \in Layers : Quiet(layer)
    BY <1>4 DEF vars, leaseVars, Quiet, Same, Holds
  <2> QED
    BY <2>1, LeasesUnchanged
<1> QED
  BY <1>1, <1>2, <1>3, <1>4, ExpireStep DEF Next

-----------------------------------------------------------------------------
(* Theorems *)

GatewayInv == CallsInv /\ LeaseInv

THEOREM GatewayInductive == Spec => []GatewayInv
<1>1. Init => GatewayInv
  BY CallsInit, LeasesInit DEF GatewayInv
<1>2. GatewayInv /\ [Next]_vars => GatewayInv'
  BY CallsNext, LeasesNext DEF GatewayInv
<1> QED
  BY <1>1, <1>2, PTL DEF Spec

\* The shape of the state, and that a request is under way only while the MCP
\* server waits for it.
THEOREM GatewayTypes == Spec => []GatewayTypeOK
<1>1. GatewayInv => GatewayTypeOK
  <2> SUFFICES ASSUME GatewayInv PROVE GatewayTypeOK
    OBVIOUS
  <2>1. /\ calls \in [Calls -> Call] /\ requests \in [Calls -> RequestPcs]
        /\ rows \in [Calls -> SUBSET AuditRows]
    BY DEF GatewayInv, CallsInv, WorldOK, CallOK, CallTypeOK
  <2>2. leaks \in [Layers -> [Keys -> 0..MaxLosses]]
    BY GatewayAssumption DEF GatewayInv, LeaseInv, LeaseTypeOK
  <2> QED
    BY <2>1, <2>2 DEF GatewayInv, CallsInv, WorldOK, CallOK, CallTypeOK, LeaseInv,
       LeaseTypeOK, GatewayTypeOK
<1> QED
  BY <1>1, GatewayInductive, PTL

\* No data, no error of a tool and no refusal is answered, and no listing draft
\* is there, without the audit rows that its steps write before: whichever write
\* fails, and wherever the caller or the server stops waiting.
THEOREM Audited == Spec => []NothingUnaudited
<1>1. GatewayInv => NothingUnaudited
  BY DEF GatewayInv, CallsInv, WorldOK, CallOK, AnswerOK, StoredOK, NothingUnaudited
<1> QED
  BY <1>1, GatewayInductive, PTL

\* A call of a revoked grant, or of an account that was at no time of the call
\* as its token says, is told nothing and stores nothing.
THEOREM RevokedLearnNothing == Spec => []NothingAfterRevocation
<1>1. GatewayInv => NothingAfterRevocation
  BY DEF GatewayInv, CallsInv, CallOK, AnswerOK, StoredOK, NothingAfterRevocation
<1> QED
  BY <1>1, GatewayInductive, PTL

\* A counter holds at most the leases in use and those whose release was lost,
\* and covers the leases in use until it expires under one.
THEOREM CountersExact == Spec => []CapacityExact
<1>1. GatewayInv => CapacityExact
  BY DEF GatewayInv, LeaseInv
<1> QED
  BY <1>1, GatewayInductive, PTL

-----------------------------------------------------------------------------
(* The pages of orders *)

\* The server refuses action a on the row of now only as a refund that was never
\* paid or whose refund was left Processing.
WouldTake(a) ==
    \A o \in Outcomes(screen, a, order) :
        o[1] = "refused" => a = "refund" /\ (~order.paid \/ order.held)

\* What is read, shown or answered and not out of date is the row's status; a
\* request for which the page is up to date is one that the server would take;
\* and a page that hides its rows while it loads has no request under way.
PageInv ==
    /\ PageTypeOK
    /\ page.fresh => page.st = order.st
    /\ page.fresh /\ page.st = "Delivered" /\ screen = "customer" => page.over = order.over
    /\ load.got.fresh => load.got.st = order.st /\ load.got.over = order.over
    /\ request.pc = "sent" =>
          request.act \in Acts /\ (request.fresh => WouldTake(request.act))
    /\ request.pc = "answered" =>
          /\ request.act \in Acts
          /\ screen = "customer" => request.act \in {"cancel", "return"}
          /\ request.took = "taken" /\ request.fresh => order.st = Told(request.act)
    /\ screen # "customer" =>
          /\ ~load.behind
          /\ load.pc # "none" => request.pc = "none" /\ page.st = "none"
    /\ request.pc = "sent" /\ screen = "customer" => request.act \in {"cancel", "return"}
    /\ undone => screen = "customer"
    /\ \A x \in refused : x[1] = "refund" /\ (~x[2] \/ x[3])

\* Every status but "Confirming" is in one tab of each page.
LEMMA OneTab ==
    ASSUME NEW s \in Screens, NEW st \in RowStatuses \ {"Confirming"}
    PROVE  \E t \in TabsOf[s] : \A u \in TabsOf[s] : st \in u <=> u = t
<1> DEFINE Open == {"Pending", "Confirmed", "Processing"}
           Returned == ReturnSteps \cup {"Refund Released"}
           OpenOrShipped == {"Pending", "Confirmed", "Processing", "Shipped"}
<1>1. ASSUME NEW T, T = {Open, {"Shipped"}, {"Delivered"}, {"Cancelled"}, Returned}
      PROVE  \E t \in T : \A u \in T : st \in u <=> u = t
  <2>1. PICK t \in T : st \in t
    BY <1>1 DEF RowStatuses, DeliverySteps, ReturnSteps
  <2>2. \A u \in T : st \in u => u = t
    BY <1>1, <2>1 DEF ReturnSteps
  <2> QED
    BY <2>1, <2>2
<1>2. ASSUME NEW T, T = {OpenOrShipped, {"Delivered"}, {"Cancelled"}, Returned}
      PROVE  \E t \in T : \A u \in T : st \in u <=> u = t
  <2>1. PICK t \in T : st \in t
    BY <1>2 DEF RowStatuses, DeliverySteps, ReturnSteps
  <2>2. \A u \in T : st \in u => u = t
    BY <1>2, <2>1 DEF ReturnSteps
  <2> QED
    BY <2>1, <2>2
<1>3. /\ TabsOf["customer"] = MyOrdersTabs /\ TabsOf["seller"] = SellerTabs
      /\ TabsOf["admin"] = AdminTabs
  BY DEF TabsOf
<1>4. CASE s \in {"customer", "seller"}
  BY <1>1, <1>3, <1>4 DEF MyOrdersTabs, SellerTabs
<1>5. CASE s = "admin"
  BY <1>2, <1>3, <1>5 DEF AdminTabs
<1> QED
  BY <1>4, <1>5 DEF Screens

\* So what PageInv says is enough.
LEMMA PageInvTells == PageInv => PagesKeepUp
<1> SUFFICES ASSUME PageInv PROVE PagesKeepUp
  OBVIOUS
<1>1. page.st \notin {"none", "Confirming"} =>
        \E t \in TabsOf[screen] : \A u \in TabsOf[screen] : page.st \in u <=> u = t
  <2>1. screen \in Screens /\ page.st \in RowStatuses \cup {"none"}
    BY DEF PageInv, PageTypeOK, Shown
  <2> QED
    BY <2>1, OneTab
<1> QED
  BY <1>1 DEF PageInv, PagesKeepUp

\* What the server's answers say, with the row that they leave.
LEMMA AnswerParts ==
    ASSUME NEW r
    PROVE  /\ Taken(r)[1] = "taken" /\ Taken(r)[2] = r
           /\ Refused(r)[1] = "refused" /\ Refused(r)[2] = r
           /\ Failed(r)[1] = "failed" /\ Failed(r)[2] = r
BY DEF Taken, Refused, Failed

\* A row whose status moves, and one whose refund is left Processing.
LEMMA MovedRows ==
    ASSUME NEW r \in OrderFacts
    PROVE  /\ \A st \in RowStatuses : /\ [r EXCEPT !.st = st] \in OrderFacts
                                      /\ [r EXCEPT !.st = st].st = st
                                      /\ [r EXCEPT !.st = st].over = r.over
           /\ [r EXCEPT !.held = TRUE] \in OrderFacts
           /\ \A st \in RowStatuses : Staged(r, st) \in OrderFacts /\ Staged(r, st).st = st
<1>1. \A st \in RowStatuses : /\ [r EXCEPT !.st = st] \in OrderFacts
                              /\ [r EXCEPT !.st = st].st = st
                              /\ [r EXCEPT !.st = st].over = r.over
  BY DEF OrderFacts
<1>2. [r EXCEPT !.held = TRUE] \in OrderFacts
  BY DEF OrderFacts
<1>3. \A st \in RowStatuses : Staged(r, st) \in OrderFacts /\ Staged(r, st).st = st
  BY DEF OrderFacts, Staged
<1> QED
  BY <1>1, <1>2, <1>3

\* The status that an action aims at.
LEMMA ToldStatus ==
    /\ \A a \in Acts : Told(a) \in RowStatuses
    /\ \A a \in DeliverySteps : Told(a) = a
    /\ Told("cancel") = "Cancelled" /\ Told("return") = "Return Requested"
    /\ Told("approve") = "Return Approved" /\ Told("reject") = "Return Rejected"
    /\ Told("refund") = "Refund Released"
BY DEF Told, Acts, DeliverySteps, RowStatuses, ReturnSteps

\* What the server answers, and the row it leaves.
LEMMA OutcomeTypes ==
    ASSUME NEW s \in Screens, NEW a \in Acts, NEW r \in OrderFacts, NEW o \in Outcomes(s, a, r)
    PROVE  /\ o[1] \in {"taken", "refused", "failed"} /\ o[2] \in OrderFacts
           /\ o[1] = "taken" => o[2].st = Told(a)
           /\ a \in {"cancel", "return"} => o[2].over = r.over
<1> DEFINE Right(x) == x \in OrderFacts /\ x.st = Told(a)
                       /\ (a \in {"cancel", "return"} => x.over = r.over)
           Left(x) == x \in OrderFacts /\ (a \in {"cancel", "return"} => x.over = r.over)
<1>1. SUFFICES \/ \E x : Right(x) /\ o = Taken(x)
               \/ \E x : Left(x) /\ (o = Refused(x) \/ o = Failed(x))
  <2>1. CASE \E x : Right(x) /\ o = Taken(x)
    BY <2>1, AnswerParts
  <2>2. CASE \E x : Left(x) /\ (o = Refused(x) \/ o = Failed(x))
    BY <2>2, AnswerParts
  <2> QED
    BY <1>1, <2>1, <2>2
<1> DEFINE To(st) == [r EXCEPT !.st = st]
<1>2. /\ Left(r)
      /\ \A st \in RowStatuses : Left(To(st)) /\ To(st).st = st
      /\ Told(a) \in RowStatuses
  BY MovedRows, ToldStatus
<1>3. CASE a = "cancel"
  <2>1. o \in {Taken(To("Cancelled")), Refused(r)}
    BY <1>3 DEF Outcomes, CancelServed, DeliverySteps
  <2>2. Right(To("Cancelled"))
    BY <1>2, <1>3, ToldStatus
  <2> HIDE DEF Right, Left, To
  <2> QED
    BY <1>2, <2>1, <2>2
<1>4. CASE a = "return"
  <2>1. o \in {Taken(To("Return Requested")), Refused(r)}
    BY <1>4 DEF Outcomes, ReturnServed, DeliverySteps
  <2>2. Right(To("Return Requested"))
    BY <1>2, <1>4, ToldStatus
  <2> HIDE DEF Right, Left, To
  <2> QED
    BY <1>2, <2>1, <2>2
<1>5. CASE a \in DeliverySteps
  <2>1. o \in {Taken(Staged(r, a)), Failed(To("Confirming")), Refused(r)}
    BY <1>5 DEF Outcomes, StageServed, DeliverySteps
  <2>2. Right(Staged(r, a))
    <3>1. a \in RowStatuses /\ a \notin {"cancel", "return"} /\ Told(a) = a
      BY <1>5, ToldStatus DEF DeliverySteps, RowStatuses
    <3> QED
      BY <3>1, MovedRows
  <2>3. Left(To("Confirming"))
    BY <1>2 DEF RowStatuses
  <2> HIDE DEF Right, Left, To
  <2> QED
    BY <1>2, <2>1, <2>2, <2>3
<1>6. CASE a \in {"approve", "reject"}
  <2>1. o \in {Taken(To(Told(a))), Refused(r), Failed(r)}
    BY <1>6 DEF Outcomes, ReviewServed, DeliverySteps
  <2>2. Right(To(Told(a)))
    BY <1>2
  <2> HIDE DEF Right, Left, To
  <2> QED
    BY <1>2, <2>1, <2>2
<1>7. CASE a = "refund"
  <2> DEFINE Stuck == [r EXCEPT !.held = TRUE]
  <2>1. \/ o = Taken(r) /\ r.st = "Refund Released"
        \/ o \in {Taken(To("Refund Released")), Refused(r), Failed(r), Failed(Stuck)}
    BY <1>7 DEF Outcomes, RefundServed, DeliverySteps
  <2>2. Right(To("Refund Released")) /\ (r.st = "Refund Released" => Right(r))
    BY <1>2, <1>7, ToldStatus
  <2>3. Left(Stuck)
    BY <1>7, MovedRows
  <2> HIDE DEF Right, Left, To, Stuck
  <2> QED
    BY <1>2, <2>1, <2>2, <2>3
<1> QED
  BY <1>3, <1>4, <1>5, <1>6, <1>7 DEF Acts

\* What the server never refuses.
LEMMA ServedRows ==
    ASSUME NEW r \in OrderFacts
    PROVE  /\ r.st \in {"Pending", "Confirmed"} => \A o \in CancelServed(r) : o[1] # "refused"
           /\ IsReturnEligible(r) => \A o \in ReturnServed(r) : o[1] # "refused"
           /\ \A s \in Screens, a \in DeliverySteps :
                 \/ <<r.st, a>> \in NextDeliveryStage
                 \/ s = "admin" /\ r.st \in DeliverySteps \cup {"Pending"}
                 => \A o \in StageServed(s, a, r) : o[1] # "refused"
           /\ \A a \in {"approve", "reject"} :
                 r.st = "Return Requested" => \A o \in ReviewServed(a, r) : o[1] # "refused"
           /\ r.paid /\ ~r.held /\ r.st \in {"Return Approved", "Cancelled"} =>
                 \A o \in RefundServed(r) : o[1] # "refused"
<1>1. r.st \in {"Pending", "Confirmed"} => \A o \in CancelServed(r) : o[1] # "refused"
  BY DEF CancelServed, Taken
<1>2. IsReturnEligible(r) => \A o \in ReturnServed(r) : o[1] # "refused"
  <2> SUFFICES ASSUME IsReturnEligible(r), NEW o \in ReturnServed(r) PROVE o[1] # "refused"
    OBVIOUS
  <2>1. o = Taken([r EXCEPT !.st = "Return Requested"])
    BY DEF ReturnServed
  <2> QED
    BY <2>1 DEF Taken
<1>3. ASSUME NEW s \in Screens, NEW a \in DeliverySteps,
             \/ <<r.st, a>> \in NextDeliveryStage
             \/ s = "admin" /\ r.st \in DeliverySteps \cup {"Pending"},
             NEW o \in StageServed(s, a, r)
      PROVE  o[1] # "refused"
  <2>1. o = Taken(Staged(r, a)) \/ o = Failed([r EXCEPT !.st = "Confirming"])
    BY <1>3 DEF StageServed
  <2> QED
    BY <2>1 DEF Taken, Failed
<1>4. \A a \in {"approve", "reject"} :
         r.st = "Return Requested" => \A o \in ReviewServed(a, r) : o[1] # "refused"
  <2> SUFFICES ASSUME NEW a \in {"approve", "reject"}, r.st = "Return Requested",
                      NEW o \in ReviewServed(a, r)
               PROVE  o[1] # "refused"
    OBVIOUS
  <2>1. o = Taken([r EXCEPT !.st = Told(a)]) \/ o = Failed(r)
    BY DEF ReviewServed
  <2>2. \E x : o = Taken(x) \/ o = Failed(x)
    BY <2>1
  <2> QED
    BY <2>2, AnswerParts
<1>5. r.paid /\ ~r.held /\ r.st \in {"Return Approved", "Cancelled"} =>
         \A o \in RefundServed(r) : o[1] # "refused"
  <2> SUFFICES ASSUME r.paid, ~r.held, r.st \in {"Return Approved", "Cancelled"},
                      NEW o \in RefundServed(r)
               PROVE  o[1] # "refused"
    OBVIOUS
  <2>1. \/ o = Taken([r EXCEPT !.st = "Refund Released"])
        \/ o = Failed(r) \/ o = Failed([r EXCEPT !.held = TRUE])
    BY DEF RefundServed
  <2>2. \E x : o = Taken(x) \/ o = Failed(x)
    BY <2>1
  <2> QED
    BY <2>2, AnswerParts
<1> QED
  BY <1>1, <1>2, <1>3, <1>4, <1>5

\* A page that is up to date offers what the server would take.
LEMMA OffersStand ==
    ASSUME PageInv, page.fresh, NEW a \in Offered(screen, page)
    PROVE  WouldTake(a)
<1>1. screen \in Screens /\ order \in OrderFacts /\ page.st = order.st
  BY DEF PageInv, PageTypeOK
<1>2. SUFFICES ASSUME a = "refund" => order.paid /\ ~order.held,
                      NEW o \in Outcomes(screen, a, order)
               PROVE  o[1] # "refused"
  BY DEF WouldTake
<1>3. CASE a = "cancel"
  <2>1. order.st \in {"Pending", "Confirmed"}
    BY <1>1, <1>3
    DEF Offered, Screens, MyOrdersOffers, SellerOrdersOffers, AdminOrdersOffers,
        NextDeliveryStage, DeliverySteps
  <2>2. Outcomes(screen, a, order) = CancelServed(order)
    BY <1>3 DEF Outcomes, DeliverySteps
  <2> QED
    BY <1>1, <2>1, <2>2, ServedRows
<1>4. CASE a = "return"
  <2>1. screen = "customer" /\ IsReturnEligible(page)
    BY <1>1, <1>4
    DEF Offered, Screens, MyOrdersOffers, SellerOrdersOffers, AdminOrdersOffers,
        NextDeliveryStage, DeliverySteps
  <2>2. IsReturnEligible(order)
    BY <1>1, <2>1 DEF IsReturnEligible, PageInv
  <2>3. Outcomes(screen, a, order) = ReturnServed(order)
    BY <1>4 DEF Outcomes, DeliverySteps
  <2> QED
    BY <1>1, <2>2, <2>3, ServedRows
<1>5. CASE a \in DeliverySteps
  <2>1. \/ <<order.st, a>> \in NextDeliveryStage
        \/ screen = "admin" /\ order.st \in DeliverySteps \cup {"Pending"}
    BY <1>1, <1>5
    DEF Offered, Screens, MyOrdersOffers, SellerOrdersOffers, AdminOrdersOffers, DeliverySteps
  <2>2. Outcomes(screen, a, order) = StageServed(screen, a, order)
    BY <1>5 DEF Outcomes, DeliverySteps
  <2> QED
    BY <1>1, <1>5, <2>1, <2>2, ServedRows
<1>6. CASE a \in {"approve", "reject"}
  <2>1. order.st = "Return Requested"
    BY <1>1, <1>6
    DEF Offered, Screens, MyOrdersOffers, SellerOrdersOffers, AdminOrdersOffers,
        NextDeliveryStage, DeliverySteps
  <2>2. Outcomes(screen, a, order) = ReviewServed(a, order)
    BY <1>6 DEF Outcomes, DeliverySteps
  <2> QED
    BY <1>1, <1>6, <2>1, <2>2, ServedRows
<1>7. CASE a = "refund"
  <2>1. order.st \in {"Return Approved", "Cancelled"}
    BY <1>1, <1>7
    DEF Offered, Screens, MyOrdersOffers, SellerOrdersOffers, AdminOrdersOffers,
        NextDeliveryStage, DeliverySteps
  <2>2. Outcomes(screen, a, order) = RefundServed(order)
    BY <1>7 DEF Outcomes, DeliverySteps
  <2> QED
    BY <1>1, <1>2, <1>7, <2>1, <2>2, ServedRows
<1>8. a \in Acts
  BY <1>1
  DEF Offered, Screens, MyOrdersOffers, SellerOrdersOffers, AdminOrdersOffers, Acts
<1> QED
  BY <1>3, <1>4, <1>5, <1>6, <1>7, <1>8 DEF Acts

\* A page that loads has nothing to show yet.
LEMMA PageInitially == PageInit => PageInv
<1> SUFFICES ASSUME PageInit PROVE PageInv
  OBVIOUS
<1> QED
  BY DEF PageInit, PageInv, PageTypeOK, OrderFacts, RowStatuses, Shown, Hidden, NoLoad, NoRequest

\* A hidden page offers nothing.
LEMMA HiddenOffersNothing ==
    ASSUME NEW s \in {"seller", "admin"}, NEW p, p.st = "none"
    PROVE  Offered(s, p) = {}
BY DEF Offered, SellerOrdersOffers, AdminOrdersOffers, NextDeliveryStage, DeliverySteps

-----------------------------------------------------------------------------
(* The steps of a page *)

\* A load begins, is read, fails or is shown.
LEMMA PageLoads ==
    ASSUME PageInv, Refresh \/ ReadOrders \/ ShowOrders \/ LoadFails
    PROVE  PageInv'
<1>1. UNCHANGED <<screen, order, request, refused>>
  BY DEF Refresh, ReadOrders, ShowOrders, LoadFails
<1>2. \A a : WouldTake(a) => WouldTake(a)'
  BY <1>1 DEF WouldTake
<1>3. CASE Refresh
  BY <1>1, <1>2, <1>3 DEF Refresh, PageInv, PageTypeOK, NoLoad, Hidden, Shown
<1>4. CASE ReadOrders
  <2> DEFINE got == [st |-> order.st, over |-> order.over, fresh |-> TRUE,
                     paid |-> screen = "admin" /\ order.paid]
  <2>1. load.pc = "sent" /\ load' = [load EXCEPT !.pc = "read", !.got = got]
        /\ UNCHANGED <<page, undone>>
    BY <1>4 DEF ReadOrders
  <2>2. got \in Shown /\ got.st = order.st /\ got.over = order.over
    BY DEF PageInv, PageTypeOK, Shown, OrderFacts
  <2> HIDE DEF got
  <2>3. /\ load' \in [pc : {"none", "sent", "read"}, got : Shown, behind : BOOLEAN]
        /\ load'.got = got /\ load'.behind = load.behind
    BY <2>1, <2>2 DEF PageInv, PageTypeOK
  <2> QED
    BY <1>1, <1>2, <2>1, <2>2, <2>3 DEF PageInv, PageTypeOK
<1>5. CASE ShowOrders
  BY <1>1, <1>2, <1>5 DEF ShowOrders, PageInv, PageTypeOK, NoLoad, Hidden, Shown
<1>6. CASE LoadFails
  BY <1>1, <1>2, <1>6 DEF LoadFails, PageInv, PageTypeOK, NoLoad, Hidden, Shown
<1> QED
  BY <1>3, <1>4, <1>5, <1>6

\* The user acts, and the answer is shown or lost.
LEMMA PageActs ==
    ASSUME PageInv, (\E a \in Acts : Click(a)) \/ ShowAnswer \/ Lose
    PROVE  PageInv'
<1>1. UNCHANGED <<screen, order, undone, refused>>
  BY DEF Click, ShowAnswer, Lose
<1>2. \A a : WouldTake(a) => WouldTake(a)'
  BY <1>1 DEF WouldTake
<1>3. ASSUME NEW a \in Acts, Click(a)
      PROVE  PageInv'
  <2>1. /\ request' = [NoRequest EXCEPT !.pc = "sent", !.act = a, !.fresh = page.fresh]
        /\ UNCHANGED <<page, load>> /\ a \in Offered(screen, page)
    BY <1>3 DEF Click
  <2>2. /\ request'.pc = "sent" /\ request'.act = a /\ request'.fresh = page.fresh
        /\ request' \in [pc : {"none", "sent", "answered"}, act : Acts \cup {"none"},
                         took : {"none", "taken", "refused", "failed"}, fresh : BOOLEAN]
    BY <2>1 DEF NoRequest, PageInv, PageTypeOK, Shown
  <2>3. page.fresh => WouldTake(a)
    BY <2>1, OffersStand
  <2>4. screen = "customer" => a \in {"cancel", "return"}
    BY <2>1 DEF Offered, MyOrdersOffers
  <2>5. screen # "customer" => page.st # "none"
    BY <2>1, HiddenOffersNothing DEF PageInv, PageTypeOK, Screens
  <2> QED
    BY <1>1, <1>2, <2>1, <2>2, <2>3, <2>4, <2>5 DEF PageInv, PageTypeOK
<1>4. CASE ShowAnswer
  <2>1. /\ request.pc = "answered" /\ request' = NoRequest /\ UNCHANGED load
        /\ page' = IF request.took = "taken" /\ page.st # "none"
                   THEN [page EXCEPT !.st = Told(request.act), !.fresh = request.fresh]
                   ELSE page
    BY <1>4 DEF ShowAnswer
  <2>2. Told(request.act) \in RowStatuses
    BY <2>1 DEF PageInv, Told, Acts, DeliverySteps, RowStatuses, ReturnSteps
  <2>3. screen = "customer" => Told(request.act) # "Delivered"
    BY <2>1 DEF PageInv, Told, DeliverySteps
  <2>4. page' \in Shown
    BY <2>1, <2>2 DEF PageInv, PageTypeOK, Shown
  <2>5. /\ page'.fresh => page'.st = order.st
        /\ page'.fresh /\ page'.st = "Delivered" /\ screen = "customer" =>
             page'.over = order.over
        /\ page.st = "none" => page'.st = "none"
    BY <2>1, <2>3 DEF PageInv, PageTypeOK, Shown
  <2> QED
    BY <1>1, <1>2, <2>1, <2>4, <2>5 DEF PageInv, PageTypeOK, NoRequest
<1>5. CASE Lose
  <2>1. request' = NoRequest /\ load' = [load EXCEPT !.behind = FALSE] /\ UNCHANGED page
    BY <1>5 DEF Lose
  <2>2. /\ load' \in [pc : {"none", "sent", "read"}, got : Shown, behind : BOOLEAN]
        /\ load'.got = load.got /\ load'.pc = load.pc /\ load'.behind = FALSE
    BY <2>1 DEF PageInv, PageTypeOK
  <2>3. /\ request' \in [pc : {"none", "sent", "answered"}, act : Acts \cup {"none"},
                         took : {"none", "taken", "refused", "failed"}, fresh : BOOLEAN]
        /\ request'.pc = "none"
    BY <2>1 DEF NoRequest
  <2> QED
    BY <1>1, <1>2, <2>1, <2>2, <2>3 DEF PageInv, PageTypeOK
<1> QED
  BY <1>3, <1>4, <1>5

\* The server answers the page's own request.
LEMMA PageServed ==
    ASSUME PageInv, Serve
    PROVE  PageInv'
<1>1. UNCHANGED <<screen, undone>> /\ request.pc = "sent" /\ request.act \in Acts
  BY DEF Serve, PageInv
<1>2. PICK o \in Outcomes(screen, request.act, order) :
        /\ order' = o[2] /\ page' = [page EXCEPT !.fresh = (@ /\ o[2] = order)]
        /\ request' = [request EXCEPT !.pc = "answered", !.took = o[1], !.fresh = TRUE]
        /\ load' = [load EXCEPT !.got.fresh = (@ /\ o[2] = order),
                                !.behind = (@ \/ (load.pc = "read" /\ o[1] = "taken"))]
        /\ refused' = IF o[1] = "refused" /\ request.fresh
                      THEN refused \cup {<<request.act, order.paid, order.held>>}
                      ELSE refused
  BY DEF Serve, Overtaken
<1>3. /\ o[1] \in {"taken", "refused", "failed"} /\ o[2] \in OrderFacts
      /\ o[1] = "taken" => o[2].st = Told(request.act)
  BY <1>1, OutcomeTypes DEF PageInv, PageTypeOK
<1>4. PICK same \in BOOLEAN : same <=> o[2] = order
  OBVIOUS
<1>5. PICK behind \in BOOLEAN : behind <=> load.behind \/ (load.pc = "read" /\ o[1] = "taken")
  OBVIOUS
<1>6. /\ page' \in Shown /\ page'.st = page.st /\ page'.over = page.over
      /\ page'.fresh => page.fresh /\ o[2] = order
  BY <1>2 DEF PageInv, PageTypeOK, Shown
<1>7. /\ load' \in [pc : {"none", "sent", "read"}, got : Shown, behind : BOOLEAN]
      /\ load'.pc = load.pc /\ load'.got.st = load.got.st /\ load'.got.over = load.got.over
      /\ load'.got.fresh => load.got.fresh /\ o[2] = order
      /\ load'.behind => load.behind \/ load.pc # "none"
  BY <1>2 DEF PageInv, PageTypeOK, Shown
<1>8. /\ request'.pc = "answered" /\ request'.act = request.act /\ request'.took = o[1]
      /\ request' \in [pc : {"none", "sent", "answered"}, act : Acts \cup {"none"},
                       took : {"none", "taken", "refused", "failed"}, fresh : BOOLEAN]
  BY <1>2, <1>3 DEF PageInv, PageTypeOK
<1>9. /\ refused' \in SUBSET (Acts \X BOOLEAN \X BOOLEAN)
      /\ \A x \in refused' : x[1] = "refund" /\ (~x[2] \/ x[3])
  <2>1. CASE o[1] = "refused" /\ request.fresh
    <3>1. request.act = "refund" /\ (~order.paid \/ order.held)
      BY <1>1, <1>2, <2>1 DEF PageInv, WouldTake
    <3>2. order.paid \in BOOLEAN /\ order.held \in BOOLEAN
      BY DEF PageInv, PageTypeOK, OrderFacts
    <3> QED
      BY <1>1, <1>2, <2>1, <3>1, <3>2 DEF PageInv, PageTypeOK
  <2>2. CASE ~(o[1] = "refused" /\ request.fresh)
    BY <1>2, <2>2 DEF PageInv, PageTypeOK
  <2> QED
    BY <2>1, <2>2
<1>10. PageTypeOK'
  BY <1>1, <1>2, <1>3, <1>6, <1>7, <1>8, <1>9 DEF PageInv, PageTypeOK
<1> QED
  BY <1>1, <1>2, <1>3, <1>6, <1>7, <1>8, <1>9, <1>10 DEF PageInv

\* Anyone else moves the row: all that was read of it is out of date.
LEMMA PageOvertaken ==
    ASSUME PageInv, NEW r \in OrderFacts, OvertakenByOthers(r)
    PROVE  PageInv'
<1>1. /\ r # order /\ order' = r /\ UNCHANGED <<screen, undone, refused>>
      /\ page' = [page EXCEPT !.fresh = FALSE]
      /\ load' = [load EXCEPT !.got.fresh = FALSE]
      /\ request' = [request EXCEPT !.fresh = FALSE]
  BY DEF OvertakenByOthers, Overtaken, PageInv, PageTypeOK, Shown
<1>2. /\ page' \in Shown /\ page'.st = page.st /\ page'.fresh = FALSE
      /\ load' \in [pc : {"none", "sent", "read"}, got : Shown, behind : BOOLEAN]
      /\ load'.pc = load.pc /\ load'.got.fresh = FALSE /\ load'.behind = load.behind
      /\ request'.pc = request.pc /\ request'.act = request.act /\ request'.fresh = FALSE
      /\ request' \in [pc : {"none", "sent", "answered"}, act : Acts \cup {"none"},
                       took : {"none", "taken", "refused", "failed"}, fresh : BOOLEAN]
  BY <1>1 DEF PageInv, PageTypeOK, Shown
<1> QED
  BY <1>1, <1>2 DEF PageInv, PageTypeOK

\* Such a move is another action, a payment, or the end of the return window.
LEMMA PageOthers ==
    ASSUME PageInv, Elsewhere \/ Pay \/ WindowEnds
    PROVE  PageInv'
<1>1. order \in OrderFacts
  BY DEF PageInv, PageTypeOK
<1>2. CASE Elsewhere
  <2>1. PICK s \in Screens, a \in Acts : \E o \in Outcomes(s, a, order) : OvertakenByOthers(o[2])
    BY <1>2 DEF Elsewhere, MayAsk, Screens, Acts
  <2> QED
    BY <1>1, <2>1, OutcomeTypes, PageOvertaken
<1>3. CASE Pay
  <2>1. PICK st \in RowStatuses : OvertakenByOthers([order EXCEPT !.paid = TRUE, !.st = st])
    BY <1>3 DEF Pay
  <2>2. [order EXCEPT !.paid = TRUE, !.st = st] \in OrderFacts
    BY <1>1 DEF OrderFacts
  <2> QED
    BY <2>1, <2>2, PageOvertaken
<1>4. CASE WindowEnds
  <2>1. [order EXCEPT !.over = TRUE] \in OrderFacts
    BY <1>1 DEF OrderFacts
  <2> QED
    BY <1>4, <2>1, PageOvertaken DEF WindowEnds
<1> QED
  BY <1>2, <1>3, <1>4

\* Every step of the page, the server and the others keeps PageInv.
LEMMA PageStep == PageInv /\ [PageNext]_pageVars => PageInv'
<1> SUFFICES ASSUME PageInv, [PageNext]_pageVars PROVE PageInv'
  OBVIOUS
<1>1. CASE UNCHANGED pageVars
  BY <1>1 DEF pageVars, PageInv, PageTypeOK, WouldTake
<1>2. CASE PageNext
  BY <1>2, PageLoads, PageActs, PageServed, PageOthers DEF PageNext
<1> QED
  BY <1>1, <1>2

-----------------------------------------------------------------------------
(* The review page *)

\* What is told of a proposal is its end, or the one that its lateness is to be.
\* No step takes either back.
Stands(p, st) == settled[p] = st \/ (st = "expired" /\ settled[p] = "pending" /\ p \in late)

\* The ends that are on their way to the page are the proposals'.
LoadsStand == \A p \in Reviews : loads[p] \in Ends => Stands(p, loads[p])

\* Every end under way to the page, with a list's row or as an answer, is the
\* proposal's; a race that was lost is known; and a confirmation is of what the
\* page shows.
ReviewInv ==
    /\ ReviewTypeOK
    /\ LoadsStand
    /\ confirming.pc # "none" =>
          /\ confirming.of \in Reviews
          /\ ~crossed => confirming.reviewed
    /\ confirming.pc = "answered" =>
          /\ confirming.answer \in Answers \ {"none"}
          /\ confirming.answer \in Ends => Stands(confirming.of, confirming.answer)
          /\ confirming.answer = "state_changed" => confirming.of \in raced
    /\ ReviewTold

\* What the page is without a proposal and without a confirmation.
Confirmations == [pc : {"none", "sent", "answered"}, of : Reviews \cup {None},
                  password : BOOLEAN, reviewed : BOOLEAN, answer : Answers]
LEMMA EmptyPage ==
    /\ NoProposal \in [of : Reviews \cup {None}, st : ToldStatuses]
    /\ NotConfirming \in Confirmations /\ NotConfirming.pc = "none"
BY DEF NoProposal, NotConfirming, Confirmations, ToldStatuses, Ends, Answers

\* A tab that is not open shows no proposal.
LEMMA ReviewInitially == ReviewInit => ReviewInv
<1> SUFFICES ASSUME ReviewInit PROVE ReviewInv
  OBVIOUS
<1>1. ReviewTypeOK
  BY DEF ReviewInit, ReviewTypeOK, NoProposal, NotConfirming, ToldStatuses, Ends, Answers
<1> QED
  BY <1>1
  DEF ReviewInit, ReviewInv, LoadsStand, ReviewTold, Rendered, NoProposal, NotConfirming, Ends

\* An end of a proposal stays, and so does its lateness.
EndsStay == /\ settled' \in [Reviews -> ToldStatuses \cup {"missing"}]
            /\ late \subseteq late'
            /\ \A p \in Reviews :
                  /\ settled[p] # "pending" => settled'[p] = settled[p]
                  /\ p \in late => settled'[p] \in {settled[p], "expired"}

\* What was told before still holds.
LEMMA StandsStill ==
    ASSUME EndsStay, NEW p \in Reviews, NEW st \in Ends, Stands(p, st)
    PROVE  Stands(p, st)'
BY DEF EndsStay, Stands, Ends

\* What the server makes of a proposal.
LEMMA Executed ==
    ASSUME ReviewTypeOK, NEW p \in Reviews, NEW password, NEW o,
           o \in ExecuteProposal(p, password),
           settled' = [settled EXCEPT ![p] = o[2]], UNCHANGED late
    PROVE  /\ EndsStay
           /\ o[1] \in Answers \ {"none"}
           /\ o[1] \in Ends => settled'[p] = o[1]
<1>1. o[2] \in ToldStatuses \cup {"missing"} /\ o[1] \in Answers \ {"none"}
  BY DEF ExecuteProposal, ReviewTypeOK, ToldStatuses, Ends, Answers
<1>2. o[1] \in Ends => o[2] = o[1]
  BY DEF ExecuteProposal, ReviewTypeOK, ToldStatuses, Ends
<1>3. settled[p] # "pending" => o[2] = settled[p]
  BY DEF ExecuteProposal
<1>4. settled[p] = "pending" /\ p \in late => o[2] \in {"expired", "pending"}
  BY DEF ExecuteProposal
<1> QED
  BY <1>1, <1>2, <1>3, <1>4 DEF EndsStay, ReviewTypeOK

\* The server settles a proposal, or its time passes, behind the page.
LEMMA ServerMoves ==
    ASSUME ReviewInv, NEW p \in Reviews, SettledElsewhere(p) \/ PassExpiry(p)
    PROVE  ReviewInv'
<1>1. UNCHANGED <<url, loads, flags, seen, confirming, crossed, raced, unread>>
  BY DEF SettledElsewhere, PassExpiry
<1>2. EndsStay /\ late' \in SUBSET Reviews
  <2>1. CASE SettledElsewhere(p)
    BY <2>1, Executed DEF SettledElsewhere, ReviewInv, ReviewTypeOK
  <2>2. CASE PassExpiry(p)
    BY <2>2, ReviewAssumption DEF PassExpiry, EndsStay, ReviewInv, ReviewTypeOK
  <2> QED
    BY <2>1, <2>2
<1>3. ReviewTypeOK'
  BY <1>1, <1>2 DEF EndsStay, ReviewInv, ReviewTypeOK
<1>4. ReviewTold'
  <2>1. ~crossed /\ seen.of # None =>
          /\ seen.of \in Reviews
          /\ seen.st = "executed" => settled[seen.of] = "executed"
          /\ seen.st \in Ends /\ seen.of \notin raced => Stands(seen.of, seen.st)
    BY DEF ReviewInv, ReviewTold, ReviewTypeOK, Stands, EffectiveStatus
  <2>2. ~crossed /\ seen.of # None =>
          /\ seen.st = "executed" => settled'[seen.of] = "executed"
          /\ seen.st \in Ends /\ seen.of \notin raced => Stands(seen.of, seen.st)'
    BY <1>1, <1>2, <2>1, StandsStill DEF EndsStay
  <2> QED
    BY <1>1, <2>2 DEF ReviewInv, ReviewTold, Rendered, Stands, EffectiveStatus
<1> QED
  BY <1>1, <1>2, <1>3, <1>4, StandsStill DEF ReviewInv, LoadsStand, ReviewTypeOK, Stands

\* The page is opened, left, or asked again.
LEMMA PageMoves ==
    ASSUME ReviewInv,
           (\E p \in Reviews : OpenFromList(p) \/ PasteLink(p)) \/ BackToList \/ TryAgain
    PROVE  ReviewInv'
<1>1. UNCHANGED <<settled, late, crossed, raced, unread>>
  BY DEF OpenFromList, PasteLink, BackToList, TryAgain
<1>2. UNCHANGED confirming \/ confirming' = NotConfirming
  BY DEF OpenFromList, PasteLink, BackToList, TryAgain
<1>3. /\ seen' \in {seen, NoProposal}
      /\ url' = None \/ (flags' = {"loading"} /\ url' \in Reviews)
      /\ flags' \in {{}, {"loading"}}
  BY DEF OpenFromList, PasteLink, BackToList, TryAgain, ReviewInv, ReviewTypeOK
<1>4. /\ loads' \in [Reviews -> ToldStatuses \cup {"none", "sent", "missing", "failed"}]
      /\ \A p \in Reviews : loads'[p] \in {loads[p], "none", "sent"}
  BY DEF OpenFromList, PasteLink, BackToList, TryAgain, ReviewInv, ReviewTypeOK
<1>5. ReviewTypeOK'
  <2>1. url' \in Reviews \cup {None} /\ flags' \in SUBSET {"loading", "notFound", "error"}
    BY <1>3
  <2>2. confirming' \in Confirmations
    BY <1>2, EmptyPage DEF ReviewInv, ReviewTypeOK, Confirmations
  <2>3. seen' \in [of : Reviews \cup {None}, st : ToldStatuses]
    BY <1>3, EmptyPage DEF ReviewInv, ReviewTypeOK
  <2> QED
    BY <1>1, <1>4, <2>1, <2>2, <2>3 DEF ReviewInv, ReviewTypeOK, Confirmations
<1>6. ReviewTold'
  BY <1>1, <1>3
  DEF ReviewInv, ReviewTold, Rendered, EffectiveStatus, NoProposal, Ends
<1>7. LoadsStand'
  BY <1>1, <1>4 DEF ReviewInv, LoadsStand, Stands, Ends
<1> QED
  BY <1>1, <1>2, <1>5, <1>6, <1>7 DEF ReviewInv, Stands, NotConfirming

\* A proposal is read, and the answer put on the page.
LEMMA LoadMoves ==
    ASSUME ReviewInv, NEW p \in Reviews, GetProposalReview(p) \/ ShowProposal(p)
    PROVE  ReviewInv'
<1>1. UNCHANGED <<settled, late, url, confirming, raced, unread>>
  BY DEF GetProposalReview, ShowProposal
<1>2. CASE GetProposalReview(p)
  <2>1. UNCHANGED <<flags, seen, crossed>>
    BY <1>2 DEF GetProposalReview
  <2>2. PICK found \in {EffectiveStatus(p), "failed"} : loads' = [loads EXCEPT ![p] = found]
    BY <1>2 DEF GetProposalReview
  <2>3. /\ found \in ToldStatuses \cup {"missing", "failed"}
        /\ found \in Ends => Stands(p, found)
    BY DEF EffectiveStatus, ReviewInv, ReviewTypeOK, ToldStatuses, Ends, Stands
  <2>4. ReviewTypeOK'
    BY <1>1, <2>1, <2>2, <2>3 DEF ReviewInv, ReviewTypeOK
  <2>5. LoadsStand'
    BY <1>1, <2>2, <2>3 DEF ReviewInv, LoadsStand, ReviewTypeOK, Stands
  <2>6. ReviewTold'
    BY <1>1, <2>1 DEF ReviewInv, ReviewTold, Rendered, EffectiveStatus
  <2> QED
    BY <1>1, <2>1, <2>4, <2>5, <2>6 DEF ReviewInv, Stands
<1>3. CASE ShowProposal(p)
  <2>1. /\ loads' = [loads EXCEPT ![p] = "none"]
        /\ seen' = IF loads[p] \in ToldStatuses THEN [of |-> p, st |-> loads[p]] ELSE seen
        /\ crossed' = (crossed \/ p # url)
        /\ loads[p] \in ToldStatuses \cup {"missing", "failed"}
    BY <1>3 DEF ShowProposal, ReviewInv, ReviewTypeOK
  <2>2. /\ flags' \in SUBSET {"loading", "notFound", "error"}
        /\ loads[p] \notin ToldStatuses => flags' # {}
    BY <1>3, <2>1 DEF ShowProposal, ReviewInv, ReviewTypeOK, ToldStatuses, Ends
  <2>3. ReviewTypeOK'
    BY <1>1, <2>1, <2>2 DEF ReviewInv, ReviewTypeOK
  <2>4. LoadsStand'
    BY <1>1, <2>1 DEF ReviewInv, LoadsStand, ReviewTypeOK, Stands, Ends
  <2>5. ReviewTold'
    <3>1. CASE loads[p] \in ToldStatuses
      <4>1. seen'.of = p /\ seen'.st = loads[p]
        BY <2>1, <3>1
      <4>2. loads[p] \in Ends => Stands(p, loads[p])
        BY DEF ReviewInv, LoadsStand
      <4> QED
        BY <1>1, <2>1, <4>1, <4>2
        DEF ReviewInv, ReviewTold, Rendered, EffectiveStatus, Stands, Ends
    <3>2. CASE loads[p] \notin ToldStatuses
      BY <1>1, <2>1, <2>2, <3>2 DEF ReviewInv, ReviewTold, Rendered, EffectiveStatus
    <3> QED
      BY <3>1, <3>2
  <2> QED
    BY <1>1, <2>1, <2>3, <2>4, <2>5 DEF ReviewInv, Stands
<1> QED
  BY <1>2, <1>3

\* The confirmation is sent, or it or its answer is lost.
LEMMA ConfirmMoves ==
    ASSUME ReviewInv, Confirm \/ LoseAnswer
    PROVE  ReviewInv'
<1>1. UNCHANGED <<settled, late, url, loads, flags, seen, crossed, raced, unread>>
  BY DEF Confirm, LoseAnswer
<1>2. ReviewTold' /\ LoadsStand'
  BY <1>1 DEF ReviewInv, ReviewTold, Rendered, EffectiveStatus, LoadsStand, Stands
<1>3. CASE LoseAnswer
  <2>1. confirming' = NotConfirming
    BY <1>3 DEF LoseAnswer
  <2> QED
    BY <1>1, <1>2, <2>1 DEF ReviewInv, ReviewTypeOK, NotConfirming, Answers
<1>4. CASE Confirm
  <2>1. /\ confirming'.pc = "sent" /\ confirming'.of = url /\ url \in Reviews
        /\ confirming'.reviewed = (seen.of = url)
        /\ confirming' \in Confirmations
    <3>1. url \in Reviews
      BY <1>4 DEF Confirm, Rendered, ReviewInv, ReviewTypeOK
    <3> DEFINE password == seen.of \in Stepped
               reviewed == seen.of = url
    <3>2. confirming' = [NotConfirming EXCEPT !.pc = "sent", !.of = url,
                           !.password = password, !.reviewed = reviewed]
      BY <1>4 DEF Confirm
    <3>3. password \in BOOLEAN /\ reviewed \in BOOLEAN /\ reviewed = (seen.of = url)
      OBVIOUS
    <3> HIDE DEF password, reviewed
    <3> QED
      BY <3>1, <3>2, <3>3, EmptyPage DEF Confirmations
  <2>2. ~crossed => seen.of = url
    BY <1>4 DEF Confirm, ReviewInv, ReviewTold
  <2> QED
    BY <1>1, <1>2, <2>1, <2>2 DEF ReviewInv, ReviewTypeOK, Confirmations
<1> QED
  BY <1>3, <1>4

\* The server executes what the page confirmed.
LEMMA ExecuteMoves ==
    ASSUME ReviewInv, Execute
    PROVE  ReviewInv'
<1>1. UNCHANGED <<late, url, loads, flags, seen, crossed>>
  BY DEF Execute
<1>2. PICK p \in Reviews : p = confirming.of
  BY DEF Execute, ReviewInv
<1>3. PICK o \in ExecuteProposal(p, confirming.password) :
        /\ settled' = [settled EXCEPT ![p] = o[2]]
        /\ confirming' = [confirming EXCEPT !.pc = "answered", !.answer = o[1]]
        /\ unread' = IF settled[p] = "pending" /\ o[2] = "executed" /\ ~confirming.reviewed
                     THEN unread \cup {p} ELSE unread
        /\ raced' = IF o[1] = "state_changed" THEN raced \cup {p} ELSE raced
  BY <1>2 DEF Execute
<1>5. /\ EndsStay /\ o[1] \in Answers \ {"none"}
      /\ o[1] \in Ends => settled'[p] = o[1]
  BY <1>1, <1>3, Executed DEF ReviewInv
<1>6. /\ confirming'.pc = "answered" /\ confirming'.of = p /\ confirming'.answer = o[1]
      /\ confirming'.reviewed = confirming.reviewed
      /\ confirming' \in Confirmations
  BY <1>2, <1>3, <1>5 DEF ReviewInv, ReviewTypeOK, Confirmations
<1>7. ReviewTypeOK'
  BY <1>1, <1>3, <1>5, <1>6 DEF ReviewInv, ReviewTypeOK, EndsStay, Confirmations
<1>8. raced \subseteq raced' /\ (~crossed => unread' = unread /\ confirming.reviewed)
  BY <1>3 DEF ReviewInv, Execute
<1>9. ReviewTold'
  <2>1. ~crossed /\ seen.of # None =>
          /\ seen.of \in Reviews
          /\ seen.st = "executed" => settled[seen.of] = "executed"
          /\ seen.st \in Ends /\ seen.of \notin raced => Stands(seen.of, seen.st)
    BY DEF ReviewInv, ReviewTold, ReviewTypeOK, Stands, EffectiveStatus
  <2>2. ~crossed /\ seen.of # None =>
          /\ seen.st = "executed" => settled'[seen.of] = "executed"
          /\ seen.st \in Ends /\ seen.of \notin raced' => Stands(seen.of, seen.st)'
    BY <1>1, <1>5, <1>8, <2>1, StandsStill DEF EndsStay
  <2> QED
    BY <1>1, <1>8, <2>2 DEF ReviewInv, ReviewTold, Rendered, Stands, EffectiveStatus
<1>10. LoadsStand'
  BY <1>1, <1>5, StandsStill DEF ReviewInv, LoadsStand, ReviewTypeOK
<1>11. o[1] = "state_changed" => p \in raced'
  BY <1>3
<1> QED
  BY <1>1, <1>5, <1>6, <1>7, <1>8, <1>9, <1>10, <1>11 DEF ReviewInv, Stands

\* The answer is put on the page.
LEMMA SettleMoves ==
    ASSUME ReviewInv, Settle
    PROVE  ReviewInv'
<1>1. /\ UNCHANGED <<settled, late, url, loads, raced, unread>>
      /\ confirming.pc = "answered" /\ confirming' = NotConfirming
      /\ crossed' = (crossed \/ seen.of # confirming.of)
  BY DEF Settle
<1>2. PICK p \in Reviews : p = confirming.of
  BY <1>1 DEF ReviewInv
<1>3. LoadsStand'
  BY <1>1 DEF ReviewInv, LoadsStand, Stands
<1>4. CASE confirming.answer = "missing"
  <2>1. flags' = flags \cup {"notFound"} /\ seen' = NoProposal
    BY <1>4 DEF Settle
  <2>2. ReviewTypeOK'
    BY <1>1, <2>1
    DEF ReviewInv, ReviewTypeOK, NoProposal, NotConfirming, ToldStatuses, Ends, Answers
  <2>3. ReviewTold'
    BY <1>1, <2>1 DEF ReviewInv, ReviewTold, Rendered, NoProposal
  <2> QED
    BY <1>1, <1>3, <2>2, <2>3 DEF ReviewInv, NotConfirming
<1>5. CASE confirming.answer # "missing"
  <2>1. /\ UNCHANGED flags
        /\ seen' = IF confirming.answer \in {"reauthorize", "failed"} \/ seen.of = None
                   THEN seen ELSE [seen EXCEPT !.st = StatusToldBy(confirming.answer)]
    BY <1>5 DEF Settle
  <2>2. CASE confirming.answer \in {"reauthorize", "failed"} \/ seen.of = None
    <3>1. UNCHANGED seen
      BY <2>1, <2>2
    <3>2. ReviewTypeOK'
      BY <1>1, <2>1, <3>1 DEF ReviewInv, ReviewTypeOK, NotConfirming, Answers
    <3>3. ReviewTold'
      BY <1>1, <2>1, <3>1 DEF ReviewInv, ReviewTold, Rendered, EffectiveStatus
    <3> QED
      BY <1>1, <1>3, <3>2, <3>3 DEF ReviewInv, NotConfirming
  <2>3. CASE confirming.answer \in Ends \cup {"state_changed"} /\ seen.of # None
    <3>1. PICK st \in Ends : st = StatusToldBy(confirming.answer)
      BY <2>3 DEF StatusToldBy, Ends
    <3>2. /\ seen' = [seen EXCEPT !.st = st]
          /\ confirming.answer \notin {"reauthorize", "failed"}
      BY <2>1, <2>3, <3>1 DEF Ends
    <3>3. /\ seen'.of = seen.of /\ seen'.st = st
          /\ seen' \in [of : Reviews \cup {None}, st : ToldStatuses]
      BY <3>2 DEF ReviewInv, ReviewTypeOK, ToldStatuses
    <3>4. ReviewTypeOK'
      BY <1>1, <2>1, <3>3 DEF ReviewInv, ReviewTypeOK, NotConfirming, Answers
    <3>5. /\ p \notin raced => Stands(p, st)
          /\ st = "executed" => settled[p] = "executed"
      BY <1>1, <1>2, <2>3, <3>1 DEF ReviewInv, StatusToldBy, Stands, Ends
    <3>6. ReviewTold'
      BY <1>1, <1>2, <2>1, <3>3, <3>5
      DEF ReviewInv, ReviewTold, Rendered, EffectiveStatus, Stands
    <3> QED
      BY <1>1, <1>3, <3>4, <3>6 DEF ReviewInv, NotConfirming
  <2> QED
    BY <1>1, <1>5, <2>2, <2>3 DEF ReviewInv, Answers
<1> QED
  BY <1>4, <1>5

\* Every step of the tab and of the server keeps ReviewInv.
LEMMA ReviewStep == ReviewInv /\ [ReviewNext]_reviewVars => ReviewInv'
<1> SUFFICES ASSUME ReviewInv, [ReviewNext]_reviewVars PROVE ReviewInv'
  OBVIOUS
<1>1. CASE UNCHANGED reviewVars
  <2>1. UNCHANGED <<settled, late, url, loads, flags, seen, confirming, crossed, raced,
                    unread>>
    BY <1>1 DEF reviewVars
  <2> QED
    BY <2>1 DEF ReviewInv, LoadsStand, ReviewTypeOK, ReviewTold, Rendered,
                EffectiveStatus, Stands
<1>2. CASE ReviewNext
  BY <1>2, ServerMoves, PageMoves, LoadMoves, ConfirmMoves, ExecuteMoves, SettleMoves
  DEF ReviewNext
<1> QED
  BY <1>1, <1>2

-----------------------------------------------------------------------------
(* Both pages *)

\* Whatever others do to an order meanwhile, and for any number of proposals,
\* links, tabs and lost answers: the pages of orders show what the row is until
\* someone overtakes them, and offer then what the server takes; and as long as
\* no answer about another proposal comes in, the review page renders the
\* proposal of its address, calls applied only what is, and nothing is executed
\* from it that it did not show as pending (MyOrders.tsx, SellerOrders.tsx,
\* AdminOrders.tsx, ProposalReview.tsx).
THEOREM PagesTellTruth == StorefrontSpec => []PagesTruthful
<1>1. PageInit => PageInv
  BY PageInitially
<1>2. PageInv /\ [PageNext]_pageVars => PageInv'
  BY PageStep
<1>3. PageInv => PagesKeepUp
  BY PageInvTells
<1>4. ReviewInit => ReviewInv
  BY ReviewInitially
<1>5. ReviewInv /\ [ReviewNext]_reviewVars => ReviewInv'
  BY ReviewStep
<1>6. ReviewInv => ReviewTold
  BY DEF ReviewInv
<1>7. PagesKeepUp /\ ReviewTold => PagesTruthful
  BY DEF PagesTruthful
<1>8. PageSpec => []PagesKeepUp
  BY <1>1, <1>2, <1>3, PTL DEF PageSpec
<1>9. ReviewSpec => []ReviewTold
  BY <1>4, <1>5, <1>6, PTL DEF ReviewSpec
<1> QED
  BY <1>7, <1>8, <1>9, PTL DEF StorefrontSpec

-----------------------------------------------------------------------------
(* The first rows of a list, in an order that is a set of pairs *)

StrictOrder(R, S) ==
    /\ \A x \in S : <<x, x>> \notin R
    /\ \A x, y, z \in S : <<x, y>> \in R /\ <<y, z>> \in R => <<x, z>> \in R
    /\ \A x, y \in S : x = y \/ <<x, y>> \in R \/ <<y, x>> \in R

Above(R, S, r) == {s \in S : <<s, r>> \in R}
FirstOf(R, S, n) == {r \in S : Cardinality(Above(R, S, r)) < n}

\* What is above a row is finite and does not hold the row, and all of what is
\* above a row above it.
LEMMA AboveRow ==
    ASSUME NEW S, IsFiniteSet(S), NEW R, StrictOrder(R, S), NEW r \in S
    PROVE  /\ Above(R, S, r) \subseteq S \ {r}
           /\ IsFiniteSet(Above(R, S, r)) /\ Cardinality(Above(R, S, r)) \in Nat
           /\ Cardinality(Above(R, S, r)) < Cardinality(S) /\ Cardinality(S) \in Nat
           /\ \A s \in Above(R, S, r) :
                 Above(R, S, s) \subseteq Above(R, S, r) /\ s \notin Above(R, S, s)
<1>1. Above(R, S, r) \subseteq S \ {r}
  BY DEF Above, StrictOrder
<1>2. /\ IsFiniteSet(S \ {r}) /\ Cardinality(S \ {r}) = Cardinality(S) - 1
      /\ Cardinality(S) \in Nat
  BY FS_RemoveElement, FS_CardinalityType
<1>3. /\ IsFiniteSet(Above(R, S, r))
      /\ Cardinality(Above(R, S, r)) <= Cardinality(S \ {r})
  BY <1>1, <1>2, FS_Subset
<1>4. Cardinality(Above(R, S, r)) \in Nat
  BY <1>3, FS_CardinalityType
<1>5. \A s \in Above(R, S, r) :
         Above(R, S, s) \subseteq Above(R, S, r) /\ s \notin Above(R, S, s)
  BY DEF Above, StrictOrder
<1> QED
  BY <1>1, <1>2, <1>3, <1>4, <1>5

\* Some row comes before all others.
LEMMA SomeFirst ==
    ASSUME NEW S, IsFiniteSet(S), S # {}, NEW R, StrictOrder(R, S)
    PROVE  \E m \in S : \A s \in S \ {m} : <<m, s>> \in R
<1> DEFINE Aboves == {Above(R, S, r) : r \in S}
<1>1. Aboves \subseteq FiniteSubsetsOf(S) /\ Aboves # {}
  BY AboveRow DEF FiniteSubsetsOf
<1>2. PICK A \in Aboves : \A B \in Aboves : ~(<<B, A>> \in StrictSubsetOrdering(S))
  BY <1>1, FS_StrictSubsetOrderingWellFounded, WFMin
<1>3. PICK m \in S : A = Above(R, S, m)
  OBVIOUS
<1>4. ASSUME NEW s \in S, s # m, <<m, s>> \notin R
      PROVE  FALSE
  <2>1. s \in Above(R, S, m)
    BY <1>4 DEF StrictOrder, Above
  <2>2. /\ Above(R, S, s) \subseteq A /\ Above(R, S, s) # A
        /\ Above(R, S, s) \subseteq S /\ A \subseteq S
    BY <1>3, <2>1, AboveRow DEF Above
  <2>3. <<Above(R, S, s), A>> \in StrictSubsetOrdering(S)
    BY <2>2 DEF StrictSubsetOrdering
  <2> QED
    BY <1>2, <2>3
<1> QED
  BY <1>4

\* And some row after.
LEMMA SomeLast ==
    ASSUME NEW S, IsFiniteSet(S), S # {}, NEW R, StrictOrder(R, S)
    PROVE  \E m \in S : \A s \in S \ {m} : <<s, m>> \in R
<1> DEFINE C == {p \in S \X S : <<p[2], p[1]>> \in R}
<1>1. \A x, y \in S : <<x, y>> \in C <=> <<y, x>> \in R
  OBVIOUS
<1> HIDE DEF C
<1>2. StrictOrder(C, S)
  BY <1>1 DEF StrictOrder
<1> QED
  BY <1>1, <1>2, SomeFirst

\* The first rows come before all others.
LEMMA FirstBefore ==
    ASSUME NEW S, IsFiniteSet(S), NEW R, StrictOrder(R, S), NEW n \in Nat,
           NEW r \in FirstOf(R, S, n), NEW t \in S \ FirstOf(R, S, n)
    PROVE  <<r, t>> \in R
<1> SUFFICES ASSUME <<r, t>> \notin R PROVE FALSE
  OBVIOUS
<1>1. r \in S /\ t \in S /\ r # t
  BY DEF FirstOf
<1>2. t \in Above(R, S, r)
  BY <1>1 DEF Above, StrictOrder
<1>3. /\ Cardinality(Above(R, S, t)) <= Cardinality(Above(R, S, r))
      /\ Cardinality(Above(R, S, t)) \in Nat /\ Cardinality(Above(R, S, r)) \in Nat
  <2>1. Above(R, S, t) \subseteq Above(R, S, r) /\ IsFiniteSet(Above(R, S, r))
    BY <1>1, <1>2, AboveRow
  <2> QED
    BY <1>1, <2>1, AboveRow, FS_Subset
<1> QED
  BY <1>1, <1>3 DEF FirstOf

\* The first n rows are n, or fewer and all.
LEMMA FirstSize ==
    ASSUME NEW S, IsFiniteSet(S), NEW R, StrictOrder(R, S), NEW n \in Nat
    PROVE  /\ FirstOf(R, S, n) \subseteq S /\ IsFiniteSet(FirstOf(R, S, n))
           /\ Cardinality(FirstOf(R, S, n)) \in Nat
           /\ Cardinality(FirstOf(R, S, n)) <= n
           /\ FirstOf(R, S, n) = S \/ Cardinality(FirstOf(R, S, n)) = n
<1> DEFINE F == FirstOf(R, S, n)
<1>1. F \subseteq S /\ IsFiniteSet(F) /\ Cardinality(F) \in Nat
  BY FS_Subset, FS_CardinalityType DEF FirstOf
<1>2. \A r \in F, t \in S \ F : <<r, t>> \in R /\ <<t, r>> \notin R
  BY <1>1, FirstBefore DEF StrictOrder
<1>3. \A r \in S : Cardinality(Above(R, S, r)) \in Nat
  BY AboveRow
<1>4. \A r \in S : r \in F <=> Cardinality(Above(R, S, r)) < n
  BY DEF FirstOf
<1> HIDE DEF F
<1>5. Cardinality(F) <= n
  <2>1. CASE F = {}
    BY <2>1, FS_EmptySet
  <2>2. CASE F # {}
    <3>1. StrictOrder(R, F)
      BY <1>1 DEF StrictOrder
    <3>2. PICK l \in F : \A s \in F \ {l} : <<s, l>> \in R
      BY <1>1, <2>2, <3>1, SomeLast
    <3>3. Above(R, S, l) = F \ {l}
      BY <1>1, <1>2, <3>2 DEF Above, StrictOrder
    <3>4. Cardinality(Above(R, S, l)) = Cardinality(F) - 1
      BY <1>1, <3>3, FS_RemoveElement
    <3> QED
      BY <1>1, <1>4, <3>4
  <2> QED
    BY <2>1, <2>2
<1>6. ASSUME F # S PROVE Cardinality(F) >= n
  <2>1. S \ F # {} /\ IsFiniteSet(S \ F) /\ StrictOrder(R, S \ F)
    BY <1>1, <1>6, FS_Subset DEF StrictOrder
  <2>2. PICK m \in S \ F : \A s \in (S \ F) \ {m} : <<m, s>> \in R
    BY <2>1, SomeFirst
  <2>3. Above(R, S, m) = F
    BY <1>1, <1>2, <2>2 DEF Above, StrictOrder
  <2> QED
    BY <1>3, <1>4, <2>2, <2>3
<1> QED
  BY <1>1, <1>5, <1>6 DEF F

\* All rows are first where there are no more than asked for.
LEMMA FirstAll ==
    ASSUME NEW S, IsFiniteSet(S), NEW R, StrictOrder(R, S), NEW n \in Nat, Cardinality(S) <= n
    PROVE  FirstOf(R, S, n) = S
BY AboveRow DEF FirstOf

\* More rows of the same order hold the first ones, and none is before none.
LEMMA FirstGrows ==
    ASSUME NEW S, IsFiniteSet(S), NEW R, StrictOrder(R, S), NEW n \in Nat, NEW m \in Nat, n <= m
    PROVE  /\ FirstOf(R, S, n) \subseteq FirstOf(R, S, m)
           /\ FirstOf(R, S, 0) = {}
BY AboveRow DEF FirstOf

-----------------------------------------------------------------------------
(* The orders of the lists *)

Pairs == RowIds \X RowIds
ByNewest == {p \in Pairs : Newer(p[1], p[2])}
ById == {p \in Pairs : p[1] < p[2]}
ByPrice == {p \in Pairs : Cheaper(p[1], p[2])}
ByNewestFirstId == {p \in Pairs : NewerFirstId(p[1], p[2])}

\* Every row has a price.
LEMMA PricedRows == \A l : \A d \in Data(l) : d.price \in Int
<1> SUFFICES ASSUME NEW l, NEW d \in Data(l) PROVE d.price \in Int
  OBVIOUS
<1>1. \A s, f, k : \A p \in Int : Entry(s, f, k, p).price \in Int
  BY DEF Entry
<1>2. \A s : Plain(s).price \in Int
  BY DEF Plain, Entry
<1>3. Data(l) \in {{Plain("Pending"), Plain("Cancelled")},
                   {Plain("pending"), Plain("approved"), Plain("rejected")},
                   {Plain("verified"), Plain("unverified")},
                   {Plain("active"), Plain("inactive")}, {Plain("row")},
                   {Plain("Cancelled"), Entry("Cancelled", TRUE, TRUE, 1),
                    Plain("Return Requested"), Plain("Refund Released"),
                    Entry("Return Requested", FALSE, FALSE, 1)},
                   {Plain("listed"), Entry("listed", FALSE, TRUE, 2), Plain("archived")}}
  BY DEF Data
<1>4. \/ \E s : d = Plain(s)
      \/ \E s, f, k : d = Entry(s, f, k, 1) \/ d = Entry(s, f, k, 2)
  BY <1>3
<1> QED
  BY <1>1, <1>2, <1>4

\* Each list has an order of its own for all of its rows.
LEMMA OrdersAreStrict ==
    ASSUME ScanTypeOK, NEW S \in SUBSET RowIds
    PROVE  /\ StrictOrder(ByNewest, S) /\ StrictOrder(ById, S)
           /\ StrictOrder(ByPrice, S) /\ StrictOrder(ByNewestFirstId, S)
           /\ IsFiniteSet(S)
<1>1. \A r \in RowIds : r \in Int /\ entries[r].at \in Int /\ entries[r].data.price \in Int
  BY ScanAssumption, PricedRows DEF ScanTypeOK
<1>2. \A r, s \in S : /\ <<r, s>> \in ByNewest <=> Newer(r, s)
                      /\ <<r, s>> \in ById <=> r < s
                      /\ <<r, s>> \in ByPrice <=> Cheaper(r, s)
                      /\ <<r, s>> \in ByNewestFirstId <=> NewerFirstId(r, s)
  BY DEF ByNewest, ById, ByPrice, ByNewestFirstId, Pairs
<1>3. StrictOrder(ByNewest, S)
  BY <1>1, <1>2 DEF StrictOrder, Newer
<1>4. StrictOrder(ById, S)
  BY <1>1, <1>2 DEF StrictOrder
<1>5. StrictOrder(ByPrice, S)
  BY <1>1, <1>2 DEF StrictOrder, Cheaper
<1>6. StrictOrder(ByNewestFirstId, S)
  BY <1>1, <1>2 DEF StrictOrder, NewerFirstId
<1>7. IsFiniteSet(S)
  BY ScanAssumption, FS_Subset
<1> QED
  BY <1>3, <1>4, <1>5, <1>6, <1>7

\* Take is FirstOf.
LEMMA TakesFirst ==
    ASSUME NEW S \in SUBSET RowIds, NEW n
    PROVE  /\ Take(S, n, Newer) = FirstOf(ByNewest, S, n)
           /\ Take(S, n, Cheaper) = FirstOf(ByPrice, S, n)
           /\ Take(S, n, NewerFirstId) = FirstOf(ByNewestFirstId, S, n)
           /\ {r \in S : Cardinality({s \in S : s < r}) < n} = FirstOf(ById, S, n)
<1>1. \A r \in S : /\ {s \in S : Newer(s, r)} = Above(ByNewest, S, r)
                   /\ {s \in S : Cheaper(s, r)} = Above(ByPrice, S, r)
                   /\ {s \in S : NewerFirstId(s, r)} = Above(ByNewestFirstId, S, r)
                   /\ {s \in S : s < r} = Above(ById, S, r)
  BY DEF Above, ByNewest, ById, ByPrice, ByNewestFirstId, Pairs
<1> QED
  BY <1>1 DEF Take, FirstOf

-----------------------------------------------------------------------------
(* The inductive invariant of a reader *)

WindowedLists == {"orders", "sales", "exceptions", "returns"}
Windows == [from : Int, to : Int]

\* What the reader holds.
ScanShape ==
    /\ ScanTypeOK
    /\ scan \in [pc : {"idle", "open", "done"}, query : Queries(list), window : Windows,
                 at : Int, id : Int, pages : Nat, seen : SUBSET RowIds, twice : BOOLEAN,
                 page : SUBSET RowIds, total : Nat, read : SUBSET {"rows", "total"}]
    /\ quiet \in BOOLEAN

\* The window that goes with a query, once there is one.
WindowFits(q, w) == IF list \in WindowedLists
                    THEN q.to # 0 => w = [from |-> q.to - Span, to |-> q.to]
                    ELSE w = Everything

\* The rows that the next page is of.
After(r) == IF list = "references" THEN r > scan.id
            ELSE \/ entries[r].at < scan.at
                 \/ (entries[r].at = scan.at /\ r < scan.id)

\* By key: what was shown is not after the cursor, if it is still there, and what
\* stayed in the list was shown or is after it.
ByKey ==
    /\ ~scan.twice /\ scan.read = {}
    /\ scan.pc = "idle" => scan.seen = {} /\ steady = {} /\ scan.id = 0
    /\ scan.pc # "idle" => WindowFits(scan.query, scan.window)
    /\ list = "references" => scan.window = Everything
    /\ \A r \in steady : InList(list, entries[r], scan.query, scan.window)
    /\ scan.pc = "open" =>
          /\ \A r \in scan.seen : entries[r].at # 0 /\ (entries[r].at > 0 => ~After(r))
          /\ \A r \in steady : r \in scan.seen \/ After(r)
    /\ scan.pc = "done" => \/ steady \subseteq scan.seen
                           \/ (list = "references" /\ scan.pages = MaxPages)
    /\ list = "references" /\ scan.pc # "done" => scan.pages < MaxPages

\* By offset: as long as the list rests, the pages shown are its first rows.
OffsetOrder == IF list = "search" THEN ByPrice ELSE ByNewestFirstId
Rests == quiet /\ ~Fresh /\ (list = "adminOrders" => ~Ties)
ByOffset ==
    /\ scan.pc = "idle" => scan.seen = {} /\ scan.pages = 0 /\ ~scan.twice
    /\ scan.pc = "done" => scan.read = {}
    /\ Rests =>
          /\ Found(scan.query, Everything) = steady /\ ~scan.twice
          /\ scan.pc # "done" => scan.seen = FirstOf(OffsetOrder, steady, scan.pages * PageSize)
          /\ scan.pc = "done" => scan.seen = steady
          /\ "rows" \in scan.read =>
                scan.page = FirstOf(OffsetOrder, steady, scan.pages * PageSize + PageSize)
                            \ FirstOf(OffsetOrder, steady, scan.pages * PageSize)
          /\ "total" \in scan.read => scan.total = Cardinality(steady)

ScanInv == /\ ScanShape
           /\ list \in OffsetLists => ByOffset
           /\ list \notin OffsetLists => ByKey

LEMMA ScanInvTells == ScanInv => ScanExact
<1> SUFFICES ASSUME ScanInv PROVE ScanExact
  OBVIOUS
<1>1. CASE list \in OffsetLists
  <2>1. scan.pc = "done" => ~Fresh
    BY DEF Fresh
  <2> QED
    BY <1>1, <2>1 DEF ScanInv, ByOffset, Rests, ScanExact
<1>2. CASE list \notin OffsetLists
  BY <1>2 DEF ScanInv, ByKey, ScanExact
<1> QED
  BY <1>1, <1>2

\* Nothing is read yet.
LEMMA ScanInitially == ScanInit => ScanInv
<1> SUFFICES ASSUME ScanInit PROVE ScanInv
  OBVIOUS
<1>1. (CHOOSE d \in Data(list) : TRUE) \in Data(list)
  <2>1. Data(list) # {}
    BY DEF Data
  <2> QED
    BY <2>1
<1>2. ScanTypeOK
  BY <1>1, ScanAssumption DEF ScanInit, ScanTypeOK, Idle
<1>3. [filter |-> "any", to |-> 0] \in Queries(list)
  BY DEF Queries, Filters
<1>4. Everything \in Windows
  BY ScanAssumption DEF Everything, Windows
<1>5. ScanShape
  BY <1>2, <1>3, <1>4 DEF ScanInit, ScanShape, Idle
<1>6. ByOffset
  BY DEF ScanInit, ByOffset, Rests, Fresh, Idle
<1>7. ByKey
  BY ScanAssumption DEF ScanInit, ByKey, Idle
<1> QED
  BY <1>5, <1>6, <1>7 DEF ScanInv

-----------------------------------------------------------------------------
(* Pages by key *)

\* What a list holds for a query and a window.
LEMMA FoundRows ==
    ASSUME NEW q, NEW w
    PROVE  /\ Found(q, w) \subseteq RowIds
           /\ \A r \in Found(q, w) : entries[r].at > 0 /\ InList(list, entries[r], q, w)
BY DEF Found, InList

\* The newest n rows of a set, and its oldest one.
NewestOf(S, n) == Take(S, n, Newer)
OldestOf(S) == Last(S, Newer)

\* The next page of rows after the cursor: disjoint from what was shown, and all
\* that is left, or with the new cursor at its last row.
LEMMA NextPage ==
    ASSUME ScanTypeOK, NEW S \in SUBSET RowIds,
           NEW part, part = NewestOf(S, PageSize)
    PROVE  /\ part \subseteq S
           /\ Cardinality(NewestOf(S, PageSize + 1)) > PageSize \/ part = S
           /\ part # {} \/ part = S
           /\ part # {} =>
                /\ OldestOf(part) \in part
                /\ \A r \in part : r = OldestOf(part) \/ Newer(r, OldestOf(part))
                /\ \A r \in S \ part : Newer(OldestOf(part), r)
<1> DEFINE R == ByNewest
           last == OldestOf(part)
<1>1. StrictOrder(R, S) /\ IsFiniteSet(S)
  BY OrdersAreStrict
<1>2. part = FirstOf(R, S, PageSize) /\ NewestOf(S, PageSize + 1) = FirstOf(R, S, PageSize + 1)
  BY TakesFirst DEF NewestOf
<1>3. PageSize \in Nat /\ PageSize + 1 \in Nat /\ PageSize > 0
  BY ScanAssumption
<1>4. \A r, s \in S : <<r, s>> \in R <=> Newer(r, s)
  BY DEF ByNewest, Pairs
<1>5. part \subseteq S /\ IsFiniteSet(part) /\ StrictOrder(R, part)
  BY <1>1, <1>2, <1>3, FirstSize DEF StrictOrder
<1>6. Cardinality(FirstOf(R, S, PageSize + 1)) > PageSize \/ part = S
  <2>1. ASSUME ~(Cardinality(FirstOf(R, S, PageSize + 1)) > PageSize)
        PROVE  part = S
    <3>1. FirstOf(R, S, PageSize + 1) = S
      BY <1>1, <1>3, <2>1, FirstSize
    <3>2. Cardinality(S) \in Nat /\ Cardinality(S) <= PageSize
      BY <1>1, <1>3, <2>1, <3>1, FS_CardinalityType
    <3> QED
      BY <1>1, <1>2, <1>3, <3>2, FirstAll
  <2> QED
    BY <2>1
<1>7. part # {} \/ part = S
  BY <1>1, <1>2, <1>3, FirstSize, FS_EmptySet
<1>8. ASSUME part # {}
      PROVE  last \in part /\ \A r \in part \ {last} : Newer(r, last)
  <2> HIDE DEF R
  <2>1. PICK m \in part : \A r \in part \ {m} : <<r, m>> \in R
    BY <1>5, <1>8, SomeLast
  <2>2. \A r \in part \ {m} : Newer(r, m)
    BY <1>4, <1>5, <2>1
  <2> QED
    BY <2>2 DEF OldestOf, Last
<1>9. ASSUME part # {}, NEW r \in S \ part
      PROVE  Newer(last, r)
  <2>1. last \in part
    BY <1>8, <1>9
  <2> HIDE DEF last
  <2>2. <<last, r>> \in R
    BY <1>1, <1>2, <1>3, <1>9, <2>1, FirstBefore
  <2> QED
    BY <1>4, <1>5, <1>9, <2>1, <2>2
<1> QED
  BY <1>2, <1>5, <1>6, <1>7, <1>8, <1>9

\* One page of a list by key.
LEMMA KeysetKeeps ==
    ASSUME ScanInv, list \in KeysetLists, scan.pc \in {"idle", "open"},
           NEW q \in Queries(list), NEW w \in Windows, WindowFits(q, w),
           scan.pc = "open" => q = scan.query /\ w = scan.window,
           KeysetPage(q, w)
    PROVE  ScanInv'
<1> DEFINE after == {r \in Found(q, w) : \/ scan.pc = "idle"
                                         \/ entries[r].at < scan.at
                                         \/ (entries[r].at = scan.at /\ r < scan.id)}
           part == NewestOf(after, PageSize)
           more == Cardinality(NewestOf(after, PageSize + 1)) > PageSize
           last == OldestOf(part)
<1>1. /\ list \notin OffsetLists /\ list # "references" /\ ScanShape /\ ScanTypeOK /\ ByKey
      /\ \A r \in RowIds : r \in Int /\ entries[r].at \in Int
      /\ scan.at \in Int /\ scan.id \in Int /\ steady \subseteq RowIds /\ scan.seen \subseteq RowIds
  BY ScanAssumption DEF ScanInv, KeysetLists, OffsetLists, ScanShape, ScanTypeOK
<1>2. after \subseteq RowIds
  BY FoundRows
<1>3. /\ part \subseteq after
      /\ more \/ part = after
      /\ part # {} \/ part = after
      /\ part # {} => /\ last \in part
                      /\ \A r \in part : r = last \/ Newer(r, last)
                      /\ \A r \in after \ part : Newer(last, r)
  <2> HIDE DEF after
  <2> QED
    BY <1>1, <1>2, NextPage
<1>4. /\ UNCHANGED <<list, entries, now, edits>>
      /\ steady' = IF Fresh THEN Found(q, w) ELSE steady
      /\ quiet' = (Fresh \/ quiet)
      /\ more => scan' = [scan EXCEPT !.pc = "open", !.query = q, !.window = w,
                                      !.at = entries[last].at, !.id = last,
                                      !.seen = @ \cup part,
                                      !.twice = @ \/ part \cap scan.seen # {}]
      /\ ~more => Show(part, FALSE, q, w)
  BY DEF KeysetPage, Remember, Frame, NewestOf, OldestOf
<1>5. more => part # {}
  <2>1. ASSUME part = {} PROVE ~more
    <3>1. after = {}
      BY <1>3, <2>1
    <3>2. NewestOf(after, PageSize + 1) = {}
      BY <3>1 DEF NewestOf, Take
    <3> HIDE DEF after
    <3> QED
      BY <3>2, FS_EmptySet, ScanAssumption
  <2> QED
    BY <2>1
<1>6. Fresh <=> scan.pc = "idle"
  BY <1>1 DEF Fresh, ByKey
<1>7. \A r \in scan.seen : r \notin after
  BY <1>1, FoundRows DEF ByKey, After
<1>8. /\ steady' \subseteq Found(q, w)
      /\ \A r \in steady' : r \in scan.seen \/ r \in after
  <2>1. CASE scan.pc = "idle"
    BY <1>4, <1>6, <2>1
  <2>2. CASE scan.pc = "open"
    BY <1>1, <1>4, <1>6, <2>2 DEF ByKey, After, Found
  <2> QED
    BY <2>1, <2>2
<1>9. \A r \in Found(q, w) : r \in RowIds /\ entries[r].at > 0 /\ InList(list, entries[r], q, w)
  BY FoundRows
<1>10. steady' \subseteq RowIds /\ quiet' \in BOOLEAN
  BY <1>1, <1>4, <1>8, <1>9 DEF ScanShape
<1>11. \A r \in after : r \in Found(q, w)
  OBVIOUS
<1> HIDE DEF after, part, more, last
<1>12. (scan.twice \/ part \cap scan.seen # {}) = FALSE
  <2>1. part \cap scan.seen = {} /\ ~scan.twice
    BY <1>1, <1>3, <1>7 DEF ByKey
  <2> QED
    BY <2>1
<1>13. CASE more
  <2>1. /\ scan'.pc = "open" /\ scan'.query = q /\ scan'.window = w
        /\ scan'.at = entries[last].at /\ scan'.id = last
        /\ scan'.seen = scan.seen \cup part /\ scan'.twice = FALSE
        /\ scan'.read = {} /\ scan'.pages = scan.pages
    <3>1. scan.read = {} /\ scan' = [scan EXCEPT
                !.pc = "open", !.query = q, !.window = w, !.at = entries[last].at, !.id = last,
                !.seen = @ \cup part, !.twice = FALSE]
      BY <1>1, <1>4, <1>13, <1>12 DEF ByKey
    <3> QED
      BY <1>1, <3>1 DEF ScanShape
  <2>2. last \in RowIds
    BY <1>2, <1>3, <1>5, <1>13
  <2>3. ScanShape'
    BY <1>1, <1>2, <1>3, <1>4, <1>10, <1>13, <2>1, <2>2 DEF ScanShape, ScanTypeOK
  <2>4. \A r \in RowIds : After(r)' <=> Newer(last, r)
    BY <1>1, <1>4, <2>1, <2>2 DEF After, Newer
  <2>5. \A r \in scan.seen \cup part :
           entries[r].at # 0 /\ (entries[r].at > 0 => ~Newer(last, r))
    <3>1. ASSUME NEW r \in part
          PROVE  entries[r].at > 0 /\ ~Newer(last, r)
      BY <1>1, <1>2, <1>3, <1>9, <1>11, <2>2, <3>1 DEF Newer
    <3>2. ASSUME NEW r \in scan.seen
          PROVE  entries[r].at # 0 /\ (entries[r].at > 0 => ~Newer(last, r))
      <4>1. scan.pc = "open" /\ entries[r].at # 0 /\ (entries[r].at > 0 => ~After(r))
        BY <1>1, <3>2 DEF ByKey
      <4>2. entries[last].at < scan.at \/ (entries[last].at = scan.at /\ last < scan.id)
        BY <1>3, <1>5, <1>13, <4>1 DEF after
      <4> QED
        BY <1>1, <2>2, <3>2, <4>1, <4>2 DEF After, Newer
    <3> QED
      BY <3>1, <3>2
  <2>6. \A r \in steady' : r \in scan.seen \cup part \/ Newer(last, r)
    BY <1>3, <1>5, <1>8, <1>13
  <2>7. ByKey'
    <3>1. /\ \A r \in scan'.seen : entries'[r].at # 0 /\ (entries'[r].at > 0 => ~After(r)')
          /\ \A r \in steady' : r \in scan'.seen \/ After(r)'
      BY <1>1, <1>2, <1>3, <1>4, <1>10, <2>1, <2>4, <2>5, <2>6
    <3>2. WindowFits(scan.query, scan.window)'
      BY <1>4, <2>1 DEF WindowFits
    <3>3. \A r \in steady' : InList(list', entries'[r], scan'.query, scan'.window)
      BY <1>4, <1>8, <1>9, <2>1
    <3> QED
      BY <1>1, <1>4, <2>1, <3>1, <3>2, <3>3 DEF ByKey
  <2> QED
    BY <1>1, <1>4, <2>3, <2>7 DEF ScanInv
<1>14. CASE ~more
  <2>1. scan' = [scan EXCEPT
              !.pc = "done", !.query = q, !.window = w, !.seen = @ \cup part,
              !.pages = @ + 1, !.twice = FALSE, !.page = {}, !.total = 0, !.read = {}]
    BY <1>4, <1>14, <1>12 DEF Show
  <2>2. /\ scan'.pc = "done" /\ scan'.query = q /\ scan'.window = w
        /\ scan'.seen = scan.seen \cup part /\ scan'.twice = FALSE /\ scan'.read = {}
        /\ scan'.at = scan.at /\ scan'.id = scan.id /\ scan'.pages = scan.pages + 1
        /\ scan'.page = {} /\ scan'.total = 0
    BY <1>1, <2>1 DEF ScanShape
  <2>3. ScanShape'
    <3>1. scan' \in [pc : {"idle", "open", "done"}, query : Queries(list), window : Windows,
                     at : Int, id : Int, pages : Nat, seen : SUBSET RowIds, twice : BOOLEAN,
                     page : SUBSET RowIds, total : Nat, read : SUBSET {"rows", "total"}]
      <4>1. scan.seen \cup part \in SUBSET RowIds /\ scan.pages + 1 \in Nat
        BY <1>1, <1>2, <1>3 DEF ScanShape
      <4> QED
        BY <1>1, <2>1, <4>1 DEF ScanShape
    <3> QED
      BY <1>1, <1>2, <1>3, <1>4, <1>10, <2>2, <3>1 DEF ScanShape, ScanTypeOK
  <2>4. steady' \subseteq scan.seen \cup part
    BY <1>3, <1>8, <1>14
  <2>5. ByKey'
    BY <1>1, <1>4, <1>8, <1>9, <2>2, <2>4 DEF ByKey, WindowFits
  <2> QED
    BY <1>1, <1>4, <2>3, <2>5 DEF ScanInv
<1> QED
  BY <1>13, <1>14

\* The lists by key, each with its window and its check of the cursor.
KeysetScans == \/ ListMyOrders \/ ListMySales \/ ListOrderExceptionQueue \/ ListReturnQueue
               \/ ListMyNotifications \/ ListSellerApplications
               \/ ListPromotionConfiguration \/ ListMyProducts
LEMMA KeysetScansKeep ==
    ASSUME ScanInv, KeysetScans
    PROVE  ScanInv'
<1>1. /\ ScanShape /\ scan.query \in Queries(list) /\ scan.window \in Windows
      /\ now \in Int /\ Span \in Int
      /\ list \in KeysetLists => (scan.pc = "open" => WindowFits(scan.query, scan.window))
  BY ScanAssumption DEF ScanInv, ScanShape, ScanTypeOK, ByKey, KeysetLists, OffsetLists
<1>2. ASSUME list \in WindowedLists, NEW q \in Queries(list), WindowedPage(q)
      PROVE  ScanInv'
  <2>1. list \in KeysetLists
    BY <1>2 DEF WindowedLists, KeysetLists
  <2>2. scan.pc = "idle" \/ (scan.pc = "open" /\ q = scan.query)
    BY <1>2 DEF WindowedPage, Accepted
  <2>3. q.to \in Int
    BY DEF Queries
  <2> DEFINE w == WindowOf(q)
  <2>4. /\ w \in Windows
        /\ q.to # 0 => w = [from |-> q.to - Span, to |-> q.to]
        /\ scan.pc = "open" => w = scan.window
    <3>1. CASE q.to # 0
      BY <1>1, <1>2, <2>1, <2>2, <2>3, <3>1 DEF WindowOf, Windows, WindowFits
    <3>2. CASE q.to = 0
      BY <1>1, <1>2, <2>1, <2>2, <2>3, <3>2 DEF WindowOf, Windows, WindowFits
    <3> QED
      BY <3>1, <3>2
  <2>5. KeysetPage(q, w)
    BY <1>2 DEF WindowedPage
  <2> HIDE DEF w
  <2>6. WindowFits(q, w)
    BY <1>2, <2>4 DEF WindowFits
  <2> QED
    BY <2>1, <2>2, <2>4, <2>5, <2>6, KeysetKeeps
<1>3. Everything \in Windows
  BY ScanAssumption DEF Everything, Windows
<1>4. ASSUME list \in KeysetLists \ WindowedLists, NEW q \in Queries(list),
             scan.pc = "idle" \/ (scan.pc = "open" /\ q = scan.query),
             KeysetPage(q, Everything)
      PROVE  ScanInv'
  <2>1. WindowFits(q, Everything) /\ (scan.pc = "open" => scan.window = Everything)
    BY <1>1, <1>4 DEF WindowFits
  <2> QED
    BY <1>3, <1>4, <2>1, KeysetKeeps
<1>5. CASE ListMyOrders \/ ListMySales \/ ListOrderExceptionQueue \/ ListReturnQueue
  BY <1>2, <1>5
  DEF ListMyOrders, ListMySales, ListOrderExceptionQueue, ListReturnQueue, ReadQueuePage,
      WindowedLists
<1>6. CASE ListMyNotifications
  <2>1. PICK q \in Queries(list) : AcceptedForPrincipal(q) /\ KeysetPage(q, Everything)
    BY <1>6 DEF ListMyNotifications
  <2>2. list = "notifications" /\ q = scan.query
    BY <1>1, <1>6, <2>1 DEF ListMyNotifications, Queries, Filters
  <2> QED
    BY <1>4, <2>1, <2>2 DEF AcceptedForPrincipal, KeysetLists, WindowedLists
<1>7. CASE ListSellerApplications \/ ListPromotionConfiguration \/ ListMyProducts
  <2>1. PICK q \in Queries(list) : PlainPage(q)
    BY <1>7 DEF ListSellerApplications, ListPromotionConfiguration, ListMyProducts
  <2>2. list \in {"applications", "promotions", "myProducts"}
    BY <1>7 DEF ListSellerApplications, ListPromotionConfiguration, ListMyProducts
  <2> QED
    BY <1>4, <2>1, <2>2 DEF PlainPage, Accepted, KeysetLists, WindowedLists
<1> QED
  BY <1>5, <1>6, <1>7 DEF KeysetScans

\* A page of the sellers by id.
LEMMA ReferencesKeep ==
    ASSUME ScanInv, FindSellerApplicationByReference
    PROVE  ScanInv'
<1> DEFINE q == scan.query
           after == {r \in Found(q, Everything) : r > scan.id}
           part == {r \in after : Cardinality({s \in after : s < r}) < PageSize}
           full == Cardinality(part) = PageSize
           last == CHOOSE r \in part : \A s \in part \ {r} : s < r
<1>1. /\ list = "references" /\ list \notin OffsetLists /\ ScanShape /\ ScanTypeOK /\ ByKey
      /\ scan.pc \in {"idle", "open"} /\ scan.window = Everything
      /\ \A r \in RowIds : r \in Int
      /\ scan.id \in Int /\ steady \subseteq RowIds /\ scan.seen \subseteq RowIds
      /\ scan.pages \in Nat /\ scan.pages < MaxPages /\ MaxPages \in Nat
  BY ScanAssumption
  DEF ScanInv, OffsetLists, ScanShape, ScanTypeOK, FindSellerApplicationByReference, ByKey
<1>2. /\ scan' = [scan EXCEPT
                    !.pc = IF full /\ scan.pages + 1 < MaxPages THEN "open" ELSE "done",
                    !.id = IF full THEN last ELSE @,
                    !.seen = @ \cup part, !.pages = @ + 1,
                    !.twice = @ \/ part \cap scan.seen # {}]
      /\ UNCHANGED <<list, entries, now, edits>>
      /\ steady' = IF Fresh THEN Found(q, Everything) ELSE steady
      /\ quiet' = (Fresh \/ quiet)
  BY DEF FindSellerApplicationByReference, Take, Last, Remember, Frame
<1>3. after \subseteq RowIds /\ IsFiniteSet(after) /\ StrictOrder(ById, after)
  <2>1. after \subseteq RowIds
    BY FoundRows
  <2> QED
    BY <1>1, <2>1, OrdersAreStrict
<1>4. part = FirstOf(ById, after, PageSize)
  <2> HIDE DEF after
  <2> QED
    BY <1>3, TakesFirst
<1>5. PageSize \in Nat /\ PageSize > 0
  BY ScanAssumption
<1> DEFINE R == ById
<1>6. \A r, s \in after : <<r, s>> \in R <=> r < s
  BY <1>3 DEF ById, Pairs
<1>7. /\ part \subseteq after /\ IsFiniteSet(part) /\ (~full => part = after)
  <2> HIDE DEF after, part
  <2>1. /\ FirstOf(R, after, PageSize) \subseteq after /\ IsFiniteSet(FirstOf(R, after, PageSize))
        /\ FirstOf(R, after, PageSize) = after
           \/ Cardinality(FirstOf(R, after, PageSize)) = PageSize
    BY <1>3, <1>5, FirstSize
  <2> QED
    BY <1>4, <2>1
<1>8. Fresh <=> scan.pc = "idle"
  BY <1>1 DEF Fresh, ByKey
<1>9. \A r \in scan.seen : r \notin after
  BY <1>1, FoundRows DEF ByKey, After
<1>10. /\ steady' \subseteq Found(q, Everything)
       /\ \A r \in steady' : r \in scan.seen \/ r \in after
  <2>1. CASE scan.pc = "idle"
    <3>1. scan.id = 0 /\ after = Found(q, Everything)
      <4>1. scan.id = 0 /\ \A r \in RowIds : r > 0
        BY <1>1, <2>1, ScanAssumption DEF ByKey
      <4> QED
        BY <4>1, FoundRows
    <3> QED
      BY <1>2, <1>8, <2>1, <3>1
  <2>2. CASE scan.pc = "open"
    BY <1>1, <1>2, <1>8, <2>2 DEF ByKey, After, Found
  <2> QED
    BY <1>1, <2>1, <2>2
<1>11. \A r \in Found(q, Everything) : r \in RowIds /\ entries[r].at > 0
                                       /\ InList(list, entries[r], q, Everything)
  BY FoundRows
<1>12. steady' \subseteq RowIds /\ quiet' \in BOOLEAN
  BY <1>1, <1>2, <1>10, <1>11 DEF ScanShape
<1>13. ASSUME full
       PROVE  /\ last \in part /\ last \in RowIds /\ last > scan.id
              /\ \A r \in part : r <= last
              /\ \A r \in after \ part : r > last
  <2> HIDE DEF part
  <2>1. part # {}
    BY <1>5, <1>13, FS_EmptySet
  <2>2. StrictOrder(R, part)
    BY <1>3, <1>7 DEF StrictOrder
  <2>3. PICK m \in part : \A r \in part \ {m} : <<r, m>> \in R
    <3> HIDE DEF R
    <3> QED
      BY <1>7, <2>1, <2>2, SomeLast
  <2>4. \A r \in part \ {m} : r < m
    BY <1>6, <1>7, <2>3
  <2>5. last \in part /\ \A r \in part \ {last} : r < last
    BY <2>4
  <2> HIDE DEF last, part
  <2>6. ASSUME NEW r \in after \ part PROVE r > last
    <3>1. <<last, r>> \in R
      BY <1>3, <1>4, <1>5, <2>5, <2>6, FirstBefore
    <3>2. last < r
      BY <1>6, <1>7, <2>5, <2>6, <3>1
    <3> QED
      BY <1>1, <1>3, <1>7, <2>5, <2>6, <3>2
  <2>7. last \in RowIds /\ last > scan.id
    BY <1>3, <1>7, <2>5
  <2>8. \A r \in part : r <= last
    BY <1>1, <1>3, <1>7, <2>5
  <2> QED
    BY <2>5, <2>6, <2>7, <2>8
<1>14. \A r \in after : r \in Found(q, Everything) /\ r > scan.id
  OBVIOUS
<1> HIDE DEF after, part, full, last
<1>15. /\ scan'.query = q /\ scan'.window = Everything /\ scan'.read = {}
       /\ scan'.twice = FALSE /\ scan'.seen = scan.seen \cup part
       /\ scan'.pages = scan.pages + 1
       /\ scan'.pc = IF full /\ scan.pages + 1 < MaxPages THEN "open" ELSE "done"
       /\ scan'.id = IF full THEN last ELSE scan.id
  BY <1>1, <1>2, <1>7, <1>9 DEF ScanShape, ByKey
<1>16. ScanShape'
  <2>1. scan'.id \in Int /\ scan'.pages \in Nat /\ scan'.seen \subseteq RowIds
    BY <1>1, <1>3, <1>7, <1>13, <1>15
  <2> QED
    BY <1>1, <1>2, <1>12, <1>15, <2>1 DEF ScanShape, ScanTypeOK
<1>17. CASE scan'.pc = "open"
  <2>1. full /\ scan.pages + 1 < MaxPages /\ scan'.id = last
    BY <1>15, <1>17
  <2>2. \A r \in RowIds : After(r)' <=> r > last
    BY <1>1, <1>2, <2>1 DEF After
  <2>3. \A r \in scan.seen \cup part :
           entries[r].at # 0 /\ (entries[r].at > 0 => ~(r > last))
    <3>1. ASSUME NEW r \in part
          PROVE  entries[r].at > 0 /\ ~(r > last)
      BY <1>1, <1>3, <1>7, <1>11, <1>13, <1>14, <2>1, <3>1
    <3>2. ASSUME NEW r \in scan.seen
          PROVE  entries[r].at # 0 /\ (entries[r].at > 0 => ~(r > last))
      <4>1. scan.pc = "open" /\ entries[r].at # 0 /\ (entries[r].at > 0 => ~(r > scan.id))
        BY <1>1, <3>2 DEF ByKey, After
      <4>2. r \in Int /\ last \in Int /\ scan.id \in Int /\ last > scan.id
        BY <1>1, <1>13, <2>1, <3>2
      <4> QED
        BY <4>1, <4>2
    <3> QED
      BY <3>1, <3>2
  <2>4. \A r \in steady' : r \in scan.seen \cup part \/ r > last
    BY <1>10, <1>13, <2>1
  <2>5. ByKey'
    <3>1. /\ \A r \in scan'.seen : entries'[r].at # 0 /\ (entries'[r].at > 0 => ~After(r)')
          /\ \A r \in steady' : r \in scan'.seen \/ After(r)'
      BY <1>1, <1>2, <1>3, <1>7, <1>12, <1>15, <2>2, <2>3, <2>4
    <3>2. WindowFits(scan.query, scan.window)'
      BY <1>1, <1>2, <1>15 DEF WindowFits, WindowedLists
    <3>3. \A r \in steady' : InList(list', entries'[r], scan'.query, scan'.window)
      BY <1>1, <1>2, <1>10, <1>11, <1>15
    <3> QED
      BY <1>1, <1>2, <1>15, <1>17, <2>1, <3>1, <3>2, <3>3 DEF ByKey
  <2> QED
    BY <1>1, <1>2, <1>16, <2>5 DEF ScanInv
<1>18. CASE scan'.pc = "done"
  <2>1. steady' \subseteq scan'.seen \/ scan'.pages = MaxPages
    BY <1>1, <1>7, <1>10, <1>15, <1>18
  <2>2. ByKey'
    BY <1>1, <1>2, <1>10, <1>11, <1>15, <1>18, <2>1 DEF ByKey, WindowFits, WindowedLists
  <2> QED
    BY <1>1, <1>2, <1>16, <2>2 DEF ScanInv
<1> QED
  BY <1>15, <1>17, <1>18

-----------------------------------------------------------------------------
(* Pages by offset *)

\* The pages that are due, of the rows that the list holds.
Due(S) == FirstOf(OffsetOrder, S, scan.pages * PageSize + PageSize)
          \ FirstOf(OffsetOrder, S, scan.pages * PageSize)

\* Sizes of the pages shown so far.
LEMMA PageSizes ==
    ASSUME NEW n \in Nat
    PROVE  /\ n * PageSize \in Nat /\ n * PageSize + PageSize \in Nat
           /\ 0 * PageSize = 0 /\ (n + 1) * PageSize = n * PageSize + PageSize
           /\ n * PageSize <= n * PageSize + PageSize
BY ScanAssumption

\* The rows or their number are read: of the first page, or of the next one.
LEMMA ReadKeeps ==
    ASSUME ScanInv, list \in OffsetLists, NEW q \in Queries(list), AcceptedOffset(q),
           NEW x \in {"rows", "total"}, NEW part \in SUBSET RowIds, NEW total \in Nat,
           scan' = [scan EXCEPT !.query = q, !.read = @ \cup {x},
                                !.page = part, !.total = total],
           x = "rows" => /\ total = scan.total
                         /\ (list = "adminOrders" => ~Ties) => part = Due(Found(q, Everything)),
           x = "total" => part = scan.page /\ total = Cardinality(Found(q, Everything)),
           Remember(q, Everything), Frame
    PROVE  ScanInv'
<1> DEFINE F == Found(q, Everything)
<1>1. /\ ScanShape /\ ScanTypeOK /\ ByOffset /\ UNCHANGED <<list, entries, now, edits>>
      /\ steady' = IF Fresh THEN F ELSE steady
      /\ quiet' = (Fresh \/ quiet)
      /\ F \subseteq RowIds /\ scan.pages \in Nat
  BY FoundRows DEF ScanInv, ScanShape, Remember, Frame
<1>2. /\ scan'.pc = scan.pc /\ scan'.query = q /\ scan'.read = scan.read \cup {x}
      /\ scan'.seen = scan.seen /\ scan'.twice = scan.twice /\ scan'.pages = scan.pages
      /\ scan'.page = part /\ scan'.total = total /\ scan'.read \subseteq {"rows", "total"}
  BY <1>1 DEF ScanShape
<1>3. ScanShape'
  <2>1. steady' \subseteq RowIds /\ quiet' \in BOOLEAN
    BY <1>1 DEF ScanShape, ScanTypeOK
  <2> QED
    BY <1>1, <1>2, <2>1 DEF ScanShape, ScanTypeOK
<1>4. /\ OffsetOrder' = OffsetOrder /\ Ties' = Ties /\ Found(scan.query, Everything)' = F
      /\ ~Fresh'
  BY <1>1, <1>2
  DEF OffsetOrder, ByPrice, ByNewestFirstId, Cheaper, NewerFirstId, Ties, Found, InList,
      Everything, Fresh
<1>5. /\ StrictOrder(OffsetOrder, F) /\ IsFiniteSet(F)
  BY <1>1, OrdersAreStrict DEF OffsetOrder
<1>6. scan.pc # "done" /\ (~Fresh => q = scan.query)
  BY <1>1 DEF AcceptedOffset, Fresh
<1>7. (scan.pc = "idle" => scan.seen = {} /\ scan.pages = 0 /\ ~scan.twice)
  BY <1>1 DEF ByOffset
<1>8. CASE Fresh
  <2>1. scan.pc = "idle" /\ scan.read = {} /\ steady' = F
    BY <1>1, <1>8 DEF Fresh
  <2>2. scan.pages * PageSize = 0 /\ scan.seen = FirstOf(OffsetOrder, F, 0)
    BY <1>5, <1>7, <2>1, FirstGrows, PageSizes
  <2> HIDE DEF F
  <2>3. ByOffset'
    <3>1. Rests' => (list = "adminOrders" => ~Ties)
      BY <1>1, <1>4 DEF Rests
    <3>2. x = "rows" /\ Rests' =>
            part = FirstOf(OffsetOrder, F, scan.pages * PageSize + PageSize)
                   \ FirstOf(OffsetOrder, F, scan.pages * PageSize)
      BY <3>1 DEF Due, F
    <3>3. x = "total" => total = Cardinality(F)
      BY DEF F
    <3>4. scan'.pc = "idle" /\ scan'.read = {x} /\ ~scan'.twice /\ scan'.seen = {}
          /\ scan'.pages = 0
      BY <1>2, <1>7, <2>1
    <3>5. scan'.seen = FirstOf(OffsetOrder, F, scan'.pages * PageSize)
      BY <1>2, <2>2
    <3> QED
      BY <1>2, <1>4, <2>1, <3>2, <3>3, <3>4, <3>5 DEF ByOffset
  <2> QED
    BY <1>1, <1>3, <2>3 DEF ScanInv
<1>9. CASE ~Fresh
  <2>1. quiet' = quiet /\ steady' = steady /\ q = scan.query
    BY <1>1, <1>6, <1>9 DEF ScanShape
  <2>2. Rests' => Rests /\ (list = "adminOrders" => ~Ties) /\ F = steady
    BY <1>1, <1>4, <1>9, <2>1 DEF Rests, ByOffset
  <2> HIDE DEF F
  <2>3. ByOffset'
    BY <1>1, <1>2, <1>4, <1>6, <1>7, <2>1, <2>2 DEF ByOffset, Due, F
  <2> QED
    BY <1>1, <1>3, <2>3 DEF ScanInv
<1> QED
  BY <1>8, <1>9

\* The readers of the offset lists, and the count.
OffsetScans == \/ SearchPublicProducts \/ GetPublicProductReviews \/ GetAllOrder
               \/ ListAdminSellers \/ GetAdminSeller \/ ReadTotal
LEMMA OffsetScansKeep ==
    ASSUME ScanInv, OffsetScans
    PROVE  ScanInv'
<1>1. ScanShape /\ ScanTypeOK /\ scan.pages \in Nat /\ scan.total \in Nat
      /\ scan.page \subseteq RowIds
  BY DEF ScanInv, ScanShape
<1>2. ASSUME list \in OffsetLists, NEW q \in Queries(list), AcceptedOffset(q),
             NEW part \in SUBSET RowIds,
             scan' = [scan EXCEPT !.query = q, !.read = @ \cup {"rows"}, !.page = part],
             (list = "adminOrders" => ~Ties) => part = Due(Found(q, Everything)),
             Remember(q, Everything), Frame
      PROVE  ScanInv'
  <2>1. scan' = [scan EXCEPT !.query = q, !.read = @ \cup {"rows"}, !.page = part,
                             !.total = scan.total]
    BY <1>1, <1>2 DEF ScanShape
  <2> QED
    BY <1>1, <1>2, <2>1, ReadKeeps
<1>3. ASSUME NEW S \in SUBSET RowIds
      PROVE  /\ Skip(S, Skipped, PageSize, Cheaper) =
                   FirstOf(ByPrice, S, scan.pages * PageSize + PageSize)
                   \ FirstOf(ByPrice, S, scan.pages * PageSize)
             /\ Skip(S, Skipped, PageSize, NewerFirstId) =
                   FirstOf(ByNewestFirstId, S, scan.pages * PageSize + PageSize)
                   \ FirstOf(ByNewestFirstId, S, scan.pages * PageSize)
             /\ Skip(S, Skipped, PageSize, Newer) =
                   FirstOf(ByNewest, S, scan.pages * PageSize + PageSize)
                   \ FirstOf(ByNewest, S, scan.pages * PageSize)
  BY TakesFirst DEF Skip, Skipped
<1>4. \A S \in SUBSET RowIds : \A R, n : FirstOf(R, S, n) \subseteq RowIds
  BY DEF FirstOf
<1>5. CASE SearchPublicProducts
  <2>1. PICK q \in Queries(list) :
          /\ list = "search" /\ AcceptedOffset(q) /\ Remember(q, Everything) /\ Frame
          /\ scan' = [scan EXCEPT !.query = q, !.read = @ \cup {"rows"},
                         !.page = Skip(Found(q, Everything), Skipped, PageSize, Cheaper)]
    BY <1>5 DEF SearchPublicProducts, ReadRows
  <2>2. Skip(Found(q, Everything), Skipped, PageSize, Cheaper) = Due(Found(q, Everything))
    BY <1>3, <2>1, FoundRows DEF Due, OffsetOrder
  <2>3. Due(Found(q, Everything)) \in SUBSET RowIds
    BY <1>4, FoundRows DEF Due
  <2> QED
    BY <1>2, <2>1, <2>2, <2>3 DEF OffsetLists
<1>6. CASE GetPublicProductReviews \/ ListAdminSellers \/ GetAdminSeller
           \/ (GetAllOrder /\ ReadRows(NewerFirstId))
  <2>1. PICK q \in Queries(list) :
          /\ list \in OffsetLists /\ list # "search"
          /\ AcceptedOffset(q) /\ Remember(q, Everything) /\ Frame
          /\ scan' = [scan EXCEPT !.query = q, !.read = @ \cup {"rows"},
                         !.page = Skip(Found(q, Everything), Skipped, PageSize, NewerFirstId)]
    BY <1>6
    DEF GetPublicProductReviews, ListAdminSellers, GetAdminSeller, GetAllOrder, ReadRows,
        OffsetLists
  <2>2. Skip(Found(q, Everything), Skipped, PageSize, NewerFirstId) = Due(Found(q, Everything))
    BY <1>3, <2>1, FoundRows DEF Due, OffsetOrder
  <2>3. Due(Found(q, Everything)) \in SUBSET RowIds
    BY <1>4, FoundRows DEF Due
  <2> QED
    BY <1>2, <2>1, <2>2, <2>3
<1>7. CASE GetAllOrder /\ ReadRows(Newer)
  <2>1. PICK q \in Queries(list) :
          /\ list = "adminOrders"
          /\ AcceptedOffset(q) /\ Remember(q, Everything) /\ Frame
          /\ scan' = [scan EXCEPT !.query = q, !.read = @ \cup {"rows"},
                         !.page = Skip(Found(q, Everything), Skipped, PageSize, Newer)]
    BY <1>7 DEF GetAllOrder, ReadRows
  <2> DEFINE F == Found(q, Everything)
             part == Skip(F, Skipped, PageSize, Newer)
  <2>2. F \subseteq RowIds /\ \A r \in F : entries[r].at > 0
    BY FoundRows
  <2> HIDE DEF F
  <2>3. part \in SUBSET RowIds
    BY <1>3, <1>4, <2>2
  <2>4. ASSUME ~Ties
        PROVE  part = Due(F)
    <3>1. \A r, s \in F : <<r, s>> \in ByNewest <=> <<r, s>> \in ByNewestFirstId
      <4>1. \A r, s \in F : r # s => entries[r].at # entries[s].at
        BY <2>2, <2>4 DEF Ties
      <4>2. \A r \in F : ~(r > r) /\ ~(r < r)
        BY <2>2, ScanAssumption
      <4> QED
        BY <2>2, <4>1, <4>2 DEF ByNewest, ByNewestFirstId, Pairs, Newer, NewerFirstId
    <3>2. \A r \in F : Above(ByNewest, F, r) = Above(ByNewestFirstId, F, r)
      BY <3>1 DEF Above
    <3>3. \A n : FirstOf(ByNewest, F, n) = FirstOf(ByNewestFirstId, F, n)
      BY <3>2 DEF FirstOf
    <3> QED
      BY <1>3, <2>1, <2>2, <3>3 DEF Due, OffsetOrder
  <2> HIDE DEF part
  <2> QED
    BY <1>2, <2>1, <2>3, <2>4 DEF OffsetLists, part, F
<1>8. CASE ReadTotal
  <2>1. PICK q \in Queries(list) :
          /\ list \in OffsetLists /\ AcceptedOffset(q) /\ Remember(q, Everything) /\ Frame
          /\ scan' = [scan EXCEPT !.query = q, !.read = @ \cup {"total"},
                                  !.total = Cardinality(Found(q, Everything))]
    BY <1>8 DEF ReadTotal
  <2>2. Cardinality(Found(q, Everything)) \in Nat
    <3>1. IsFiniteSet(Found(q, Everything))
      BY <1>1, FoundRows, OrdersAreStrict
    <3> QED
      BY <3>1, FS_CardinalityType
  <2>3. scan' = [scan EXCEPT !.query = q, !.read = @ \cup {"total"}, !.page = scan.page,
                             !.total = Cardinality(Found(q, Everything))]
    BY <1>1, <2>1 DEF ScanShape
  <2> QED
    BY <1>1, <2>1, <2>2, <2>3, ReadKeeps
<1> QED
  BY <1>5, <1>6, <1>7, <1>8 DEF OffsetScans, GetAllOrder

\* The page is shown, and another one is due while there are more rows.
LEMMA NextCursorKeeps ==
    ASSUME ScanInv, NextCursor
    PROVE  ScanInv'
<1> DEFINE k == scan.pages * PageSize
           A == FirstOf(OffsetOrder, steady, k)
           B == FirstOf(OffsetOrder, steady, k + PageSize)
           more == k + Cardinality(scan.page) < scan.total
<1>1. /\ ScanShape /\ ScanTypeOK /\ scan.read = {"rows", "total"} /\ ~Fresh
      /\ UNCHANGED <<list, entries, now, edits, steady, quiet>>
      /\ scan.pages \in Nat /\ Everything \in Windows
  BY ScanAssumption
  DEF ScanInv, NextCursor, Fresh, Frame, ScanShape, Everything, Windows
<1>2. list \in OffsetLists /\ ByOffset
  BY <1>1 DEF ScanInv, ByKey
<1>3. /\ scan'.pc = (IF more THEN "open" ELSE "done") /\ scan'.query = scan.query
      /\ scan'.seen = scan.seen \cup scan.page /\ scan'.pages = scan.pages + 1
      /\ scan'.twice = (scan.twice \/ scan.page \cap scan.seen # {})
      /\ scan'.read = {}
      /\ ScanShape'
  <2>1. scan' = [scan EXCEPT !.pc = IF more THEN "open" ELSE "done", !.query = scan.query,
                             !.window = Everything, !.seen = @ \cup scan.page,
                             !.pages = @ + 1,
                             !.twice = @ \/ scan.page \cap scan.seen # {},
                             !.page = {}, !.total = 0, !.read = {}]
    BY DEF NextCursor, Show, Skipped
  <2> HIDE DEF more
  <2> QED
    <3>1. scan.seen \cup scan.page \in SUBSET RowIds /\ scan.pages + 1 \in Nat
          /\ (IF more THEN "open" ELSE "done") \in {"idle", "open", "done"}
          /\ (scan.twice \/ scan.page \cap scan.seen # {}) \in BOOLEAN
      BY <1>1 DEF ScanShape
    <3>2. scan' \in [pc : {"idle", "open", "done"}, query : Queries(list), window : Windows,
                     at : Int, id : Int, pages : Nat, seen : SUBSET RowIds, twice : BOOLEAN,
                     page : SUBSET RowIds, total : Nat, read : SUBSET {"rows", "total"}]
      BY <1>1, <2>1, <3>1 DEF ScanShape
    <3>3. /\ scan'.pc = (IF more THEN "open" ELSE "done") /\ scan'.query = scan.query
          /\ scan'.seen = scan.seen \cup scan.page /\ scan'.pages = scan.pages + 1
          /\ scan'.twice = (scan.twice \/ scan.page \cap scan.seen # {})
          /\ scan'.read = {}
      BY <1>1, <2>1 DEF ScanShape
    <3>4. ScanShape'
      BY <1>1, <3>2, <3>3 DEF ScanShape, ScanTypeOK
    <3> QED
      BY <3>3, <3>4
<1>4. /\ OffsetOrder' = OffsetOrder /\ Ties' = Ties
      /\ Found(scan.query, Everything)' = Found(scan.query, Everything)
  BY <1>1, <1>3
  DEF OffsetOrder, ByPrice, ByNewestFirstId, Cheaper, NewerFirstId, Ties, Found, InList,
      Everything
<1>5. StrictOrder(OffsetOrder, steady) /\ IsFiniteSet(steady)
  BY <1>1, OrdersAreStrict DEF OffsetOrder, ScanTypeOK
<1>6. /\ k \in Nat /\ k + PageSize \in Nat /\ (scan.pages + 1) * PageSize = k + PageSize
      /\ k <= k + PageSize
  BY <1>1, PageSizes
<1>7. ASSUME Rests
      PROVE  /\ Found(scan.query, Everything) = steady /\ ~scan'.twice
             /\ scan'.seen = B /\ (~more => B = steady)
  <2>1. /\ scan.pc # "done" /\ scan.seen = A /\ scan.page = B \ A
        /\ scan.total = Cardinality(steady)
        /\ Found(scan.query, Everything) = steady /\ ~scan.twice
    BY <1>1, <1>2, <1>7 DEF ByOffset
  <2>2. A \subseteq B /\ B \subseteq steady /\ IsFiniteSet(A) /\ IsFiniteSet(B)
    BY <1>5, <1>6, FirstGrows, FirstSize
  <2>3. A = steady \/ Cardinality(A) = k
    BY <1>5, <1>6, FirstSize
  <2> HIDE DEF A, B, k
  <2>4. ASSUME ~more PROVE B = steady
    <3>1. CASE A = steady
      BY <2>2, <3>1
    <3>2. CASE Cardinality(A) = k
      <4>1. Cardinality(B \ A) = Cardinality(B) - Cardinality(A)
        <5>1. B \cap A = A
          BY <2>2
        <5> QED
          BY <2>2, <5>1, FS_Difference
      <4>2. /\ Cardinality(B) \in Nat /\ Cardinality(A) \in Nat
            /\ Cardinality(steady) \in Nat /\ Cardinality(B) <= Cardinality(steady)
        BY <1>5, <2>2, FS_CardinalityType, FS_Subset
      <4>3. Cardinality(B) = Cardinality(steady)
        BY <2>1, <2>4, <3>2, <4>1, <4>2
      <4> QED
        BY <1>5, <2>2, <4>3, FS_Subset
    <3> QED
      BY <2>3, <3>1, <3>2
  <2> QED
    BY <1>3, <2>1, <2>2, <2>4
<1>8. Rests' => Rests
  BY <1>1, <1>4 DEF Rests
<1>9. scan'.pc # "idle"
  BY <1>3
<1> HIDE DEF A, B, k, more
<1>10. ByOffset'
  <2>1. Rests' => B = FirstOf(OffsetOrder, steady, scan'.pages * PageSize)
    BY <1>3, <1>6 DEF B
  <2> QED
    BY <1>1, <1>3, <1>4, <1>7, <1>8, <1>9, <2>1 DEF ByOffset
<1> QED
  BY <1>1, <1>2, <1>3, <1>10 DEF ScanInv

-----------------------------------------------------------------------------
(* The list changes *)

\* A row is inserted, edited or removed.
LEMMA ChangeKeeps ==
    ASSUME ScanInv, NEW r \in RowIds, NEW row \in [at : -1 .. MaxTime, data : Data(list)],
           entries[r].at = 0 \/ row.at \in {entries[r].at, -1}, entries[r].at # -1,
           row.at # 0, edits' \in 0 .. MaxEdits, Change(r, row)
    PROVE  ScanInv'
<1>1. /\ ScanShape /\ ScanTypeOK
      /\ entries' = [entries EXCEPT ![r] = row] /\ UNCHANGED <<list, now, scan>>
      /\ steady' = IF InList(list, row, scan.query, scan.window) THEN steady ELSE steady \ {r}
      /\ quiet' = (quiet /\ Fresh)
  BY DEF Change, ScanInv, ScanShape
<1>2. ScanShape'
  BY <1>1 DEF ScanShape, ScanTypeOK
<1>3. /\ steady' \subseteq steady /\ steady \subseteq RowIds /\ scan.seen \subseteq RowIds
      /\ \A s \in RowIds : s # r => entries'[s] = entries[s]
      /\ entries'[r] = row
  BY <1>1 DEF ScanShape, ScanTypeOK
<1>4. CASE list \in OffsetLists
  <2>1. ~Rests'
    BY <1>1 DEF Rests, Fresh
  <2> QED
    BY <1>1, <1>2, <1>4, <2>1 DEF ScanInv, ByOffset
<1>5. CASE list \notin OffsetLists
  <2>1. \A s \in steady' : InList(list, entries'[s], scan.query, scan.window)
    BY <1>1, <1>3, <1>5 DEF ScanInv, ByKey
  <2>2. \A s \in RowIds : entries[s].at # 0 /\ entries'[s].at > 0 => entries'[s].at = entries[s].at
    BY <1>1, <1>3
  <2>3. \A s \in RowIds : entries[s].at # 0 => entries'[s].at # 0
    BY <1>3
  <2>4. \A s \in RowIds : entries'[s].at = entries[s].at => (After(s)' <=> After(s))
    BY <1>1 DEF After
  <2>5. \A s \in steady' : entries[s].at > 0 /\ entries'[s].at > 0
    BY <1>3, <1>5, <2>1 DEF InList, ScanInv, ByKey
  <2>6. scan.pc = "open" =>
          /\ \A s \in scan.seen : entries'[s].at # 0 /\ (entries'[s].at > 0 => ~After(s)')
          /\ \A s \in steady' : s \in scan.seen \/ After(s)'
    <3>1. ASSUME scan.pc = "open", NEW s \in scan.seen
          PROVE  entries'[s].at # 0 /\ (entries'[s].at > 0 => ~After(s)')
      <4>1. entries[s].at # 0 /\ (entries[s].at > 0 => ~After(s)) /\ s \in RowIds
        BY <1>3, <1>5, <3>1 DEF ScanInv, ByKey
      <4> QED
        BY <2>2, <2>3, <2>4, <4>1
    <3>2. ASSUME scan.pc = "open", NEW s \in steady'
          PROVE  s \in scan.seen \/ After(s)'
      <4>1. s \in RowIds /\ (s \in scan.seen \/ After(s))
        BY <1>3, <1>5, <3>2 DEF ScanInv, ByKey
      <4> QED
        BY <2>2, <2>4, <2>5, <3>2, <4>1
    <3> QED
      BY <3>1, <3>2
  <2>7. ByKey'
    BY <1>1, <1>3, <1>5, <2>1, <2>6 DEF ScanInv, ByKey, WindowFits
  <2> QED
    BY <1>1, <1>2, <1>5, <2>7 DEF ScanInv
<1> QED
  BY <1>4, <1>5

\* The clock is of no account to what was read.
LEMMA ScanUnmoved ==
    ASSUME ScanInv, UNCHANGED <<list, entries, scan, steady, quiet, edits>>,
           now' \in 1 .. MaxTime
    PROVE  ScanInv'
<1>1. ScanShape'
  BY DEF ScanInv, ScanShape, ScanTypeOK
<1>2. ByOffset => ByOffset'
  BY DEF ByOffset, Rests, Fresh, Ties, Found, InList, OffsetOrder, ByPrice, ByNewestFirstId,
         Cheaper, NewerFirstId
<1>3. ByKey => ByKey'
  BY DEF ByKey, After, WindowFits, InList
<1> QED
  BY <1>1, <1>2, <1>3 DEF ScanInv

\* Whatever happens to the list, and to the clock.
LEMMA ListKeeps ==
    ASSUME ScanInv, Insert \/ Edit \/ Remove \/ Tick
    PROVE  ScanInv'
<1>1. ScanShape /\ ScanTypeOK /\ now \in 1 .. MaxTime /\ MaxTime \in Nat /\ MaxEdits \in Nat
      /\ edits \in 0 .. MaxEdits /\ \A r \in RowIds : entries[r].at \in -1 .. MaxTime
  BY ScanAssumption DEF ScanInv, ScanShape, ScanTypeOK
<1>2. CASE Insert
  <2>1. PICK r \in RowIds, d \in Data(list), t \in {now - 1, now} \ {0} :
          entries[r].at = 0 /\ Change(r, [at |-> t, data |-> d]) /\ UNCHANGED edits
    BY <1>2 DEF Insert
  <2>2. t \in -1 .. MaxTime /\ t # 0
    BY <1>1
  <2>3. [at |-> t, data |-> d] \in [at : -1 .. MaxTime, data : Data(list)]
    BY <2>2
  <2> QED
    BY <1>1, <2>1, <2>2, <2>3, ChangeKeeps
<1>3. CASE Edit
  <2>1. PICK r \in RowIds, d \in Data(list) :
          /\ entries[r].at > 0 /\ edits < MaxEdits /\ edits' = edits + 1
          /\ Change(r, [entries[r] EXCEPT !.data = d])
    BY <1>3 DEF Edit
  <2> DEFINE row == [entries[r] EXCEPT !.data = d]
  <2>2. row \in [at : -1 .. MaxTime, data : Data(list)] /\ row.at = entries[r].at
    BY <1>1 DEF ScanTypeOK
  <2>3. edits' \in 0 .. MaxEdits /\ entries[r].at # -1 /\ entries[r].at # 0
    BY <1>1, <2>1
  <2> HIDE DEF row
  <2> QED
    BY <2>1, <2>2, <2>3, ChangeKeeps DEF row
<1>4. CASE Remove
  <2>1. PICK r \in RowIds :
          /\ entries[r].at > 0 /\ edits < MaxEdits /\ edits' = edits + 1
          /\ Change(r, [entries[r] EXCEPT !.at = -1])
    BY <1>4 DEF Remove
  <2> DEFINE row == [entries[r] EXCEPT !.at = -1]
  <2>2. row \in [at : -1 .. MaxTime, data : Data(list)] /\ row.at = -1
    BY <1>1 DEF ScanTypeOK
  <2>3. edits' \in 0 .. MaxEdits /\ entries[r].at # -1
    BY <1>1, <2>1
  <2> HIDE DEF row
  <2> QED
    BY <2>1, <2>2, <2>3, ChangeKeeps DEF row
<1>5. CASE Tick
  <2>1. UNCHANGED <<list, entries, scan, steady, quiet, edits>> /\ now' \in 1 .. MaxTime
    BY <1>1, <1>5 DEF Tick
  <2> QED
    BY <2>1, ScanUnmoved
<1> QED
  BY <1>2, <1>3, <1>4, <1>5

\* Every step of the reader and of the list keeps ScanInv.
LEMMA ScanStep == ScanInv /\ [ScanNext]_scanVars => ScanInv'
<1> SUFFICES ASSUME ScanInv, [ScanNext]_scanVars PROVE ScanInv'
  OBVIOUS
<1>1. CASE ScanNext
  BY <1>1, KeysetScansKeep, ReferencesKeep, OffsetScansKeep, NextCursorKeeps, ListKeeps
  DEF ScanNext, KeysetScans, OffsetScans
<1>2. CASE UNCHANGED scanVars
  <2>1. UNCHANGED <<list, entries, scan, steady, quiet, edits>> /\ now' \in 1 .. MaxTime
    BY <1>2 DEF scanVars, ScanInv, ScanShape, ScanTypeOK
  <2> QED
    BY <2>1, ScanUnmoved
<1> QED
  BY <1>1, <1>2

\* For any number of rows and pages and any page size, and whatever happens to
\* the list meanwhile: a list read by key shows no row twice and leaves out none
\* that stayed in it, the look-up by reference but for its bound; and a list read
\* by offset does so while it rests (assistantOrders.js, assistantAdminOrders.js,
\* mcpProducts.js, adminSellers.js, order.js).
THEOREM ListsAreExact == ScanSpec => []ScanExact
<1>1. ScanInit => ScanInv
  BY ScanInitially
<1>2. ScanInv /\ [ScanNext]_scanVars => ScanInv'
  BY ScanStep
<1>3. ScanInv => ScanExact
  BY ScanInvTells
<1> QED
  BY <1>1, <1>2, <1>3, PTL DEF ScanSpec

-----------------------------------------------------------------------------
(* The four tables of the tools *)

\* The one scope of a private tool.
ScopeFits(t, scope) ==
    /\ t \in {"get_my_profile_summary"} => scope = "profile:read"
    /\ t \in {"list_my_notifications"} => scope = "notifications:read"
    /\ t \in {"get_my_cart", "validate_promo_code", "preview_checkout"} => scope = "cart:read"
    /\ t \in {"list_my_orders", "get_my_order", "track_my_order", "get_my_bill_summary",
              "get_my_payment_status"}
          => scope = "orders:read"
    /\ t \in {"list_my_products", "get_my_product", "get_my_inventory_summary"}
          => scope = "catalog:read"
    /\ t \in {"list_my_seller_orders", "get_my_seller_order"} => scope = "sales:read"
    /\ t \in {"get_my_revenue_summary"} => scope = "revenue:read"
    /\ t \in {"get_platform_revenue_summary"} => scope = "platform:read"
    /\ t \in {"list_seller_applications"} => scope = "sellers:read"
    /\ t \in {"draft_listing_copy", "save_listing_draft", "list_my_listing_drafts",
              "get_my_listing_draft"}
          => scope = "listings:draft"
    /\ t \in {"propose_cart_change"} => scope = "cart:propose"
    /\ t \in {"propose_order_return"} => scope = "returns:propose"
    /\ t \in {"get_my_action_status"} => scope = "proposals:read"
    /\ t \in {"propose_order_cancellation"} => scope = "orders:propose"
    /\ t \in {"propose_listing_publish", "propose_listing_content_change"}
          => scope = "listings:propose"
    /\ t \in {"propose_price_change"} => scope = "pricing:propose"
    /\ t \in {"propose_inventory_adjustment"} => scope = "inventory:propose"
    /\ t \in {"propose_fulfillment_transition"} => scope = "fulfillment:propose"
    /\ t \in {"list_order_exception_queue", "get_order_exception_detail",
              "list_return_queue"}
          => scope = "support:read"
    /\ t \in {"draft_support_message"} => scope = "support:draft"
    /\ t \in {"list_promotion_configuration", "get_promotion_usage_summary"}
          => scope = "promotions:read"
    /\ t \in {"draft_seller_review_recommendation", "draft_return_review_recommendation",
              "draft_promotion_recommendation"}
          => scope = "recommendations:draft"

\* Who may have a scope, and whether only once verified.
RolesFit(scope, roles, verified) ==
    /\ scope \in {"profile:read", "notifications:read"} => roles = Roles
    /\ scope \in {"cart:read", "orders:read", "cart:propose", "returns:propose", "proposals:read",
                  "orders:propose", "support:draft"} => roles = {"user"}
    /\ scope \in {"catalog:read", "sales:read", "revenue:read", "listings:draft",
                  "listings:propose", "pricing:propose", "inventory:propose",
                  "fulfillment:propose"} => roles = {"seller"}
    /\ scope \in {"platform:read", "sellers:read", "support:read", "promotions:read",
                  "recommendations:draft"} => roles = {"admin"}
    /\ verified <=> scope \in {"catalog:read", "sales:read", "revenue:read"}

\* The tools whose route stores a row.
StoringTools == {"save_listing_draft", "propose_cart_change", "propose_order_cancellation",
                 "propose_order_return", "propose_listing_publish",
                 "propose_listing_content_change", "propose_price_change",
                 "propose_inventory_adjustment", "propose_fulfillment_transition"}

\* A row of several tables is of one of them.
LEMMA TableHas ==
    ASSUME NEW tables, NEW x
    PROVE  /\ x \in DOMAIN Joined(tables) <=> \E f \in tables : x \in DOMAIN f
           /\ x \in DOMAIN Joined(tables) =>
                 \E f \in tables : x \in DOMAIN f /\ Joined(tables)[x] = f[x]
<1>1. DOMAIN Joined(tables) = UNION {DOMAIN f : f \in tables}
  BY DEF Joined
<1>2. ASSUME NEW f \in tables, x \in DOMAIN f
      PROVE  \E g \in tables : x \in DOMAIN g /\ Joined(tables)[x] = g[x]
  <2>1. PICK g : g = CHOOSE h \in tables : x \in DOMAIN h
    OBVIOUS
  <2>2. g \in tables /\ x \in DOMAIN g
    BY <1>2, <2>1
  <2>3. Joined(tables)[x] = g[x]
    BY <2>1, <2>2 DEF Joined
  <2> QED
    BY <2>2, <2>3
<1> QED
  BY <1>1, <1>2

LEMMA ScopesFit ==
    ASSUME NEW t \in PrivateTools
    PROVE  ScopeFits(t, PrivateScopes[t])
BY TableHas DEF PrivateTools, PrivateScopes, Scoped, ScopeFits

\* The rows of the registry, table by table.
LEMMA RegistryFits ==
    ASSUME NEW t \in DOMAIN Registry, NEW s, ScopeFits(t, s), t \in PrivateTools
    PROVE  /\ "public" \notin Registry[t].roles
           /\ Registry[t].scopes = {s} /\ RolesFit(s, Registry[t].roles, Registry[t].verified)
           /\ t \in StoringTools => Registry[t].class # "read"
<1> DEFINE Fit(row) == /\ row.scopes = {s} /\ RolesFit(s, row.roles, row.verified)
                       /\ row.roles \subseteq Roles
                       /\ t \in StoringTools => row.class # "read"
<1>1. ASSUME NEW T \in {AccountRows, CartRows, OrderRows, SellerRows, PlatformRows},
             t \in DOMAIN T
      PROVE  Fit(T[t])
  BY <1>1, TableHas
  DEF AccountRows, CartRows, OrderRows, SellerRows, PlatformRows, Rows, ScopeFits, RolesFit,
      Roles, StoringTools
<1>2. ASSUME NEW T \in {DraftRows, BuyerProposalRows, SellerProposalRows, ListingProposalRows},
             t \in DOMAIN T
      PROVE  Fit(T[t])
  BY <1>2, TableHas
  DEF DraftRows, BuyerProposalRows, SellerProposalRows, ListingProposalRows, Rows, ScopeFits,
      RolesFit, Roles, StoringTools
<1>3. ASSUME NEW T \in {QueueRows, SupportRows, PromotionRows}, t \in DOMAIN T
      PROVE  Fit(T[t])
  BY <1>3, TableHas
  DEF QueueRows, SupportRows, PromotionRows, Rows, ScopeFits, RolesFit, Roles, StoringTools
<1>4. t \notin DOMAIN LocalRows /\ t \notin DOMAIN PublicRows
  BY TableHas DEF LocalRows, PublicRows, Rows, PrivateTools, PrivateScopes, Scoped
<1>5. \E T \in {LocalRows, AccountRows, PublicRows, CartRows, OrderRows, SellerRows,
              PlatformRows, DraftRows, BuyerProposalRows, SellerProposalRows, QueueRows,
              SupportRows, PromotionRows, ListingProposalRows} :
        t \in DOMAIN T /\ Registry[t] = T[t]
  BY TableHas DEF Registry
<1>6. Fit(Registry[t])
  BY <1>1, <1>2, <1>3, <1>4, <1>5
<1> QED
  BY <1>6 DEF Roles

\* And those of the policy.
LEMMA PolicyFits ==
    ASSUME NEW t \in DOMAIN Policy, NEW s, ScopeFits(t, s)
    PROVE  /\ Policy[t].scope = s /\ RolesFit(s, Policy[t].roles, Policy[t].verified)
           /\ Policy[t].stores => t \in StoringTools
<1> DEFINE Fit(route) == /\ route.scope = s /\ RolesFit(s, route.roles, route.verified)
                         /\ route.stores => t \in StoringTools
<1>1. ASSUME NEW T \in {AccountRoutes, BuyerRoutes, SellerRoutes, PlatformRoutes, DraftRoutes,
                       CartProposalRoutes},
             t \in DOMAIN T
      PROVE  Fit(T[t])
  BY <1>1, TableHas
  DEF AccountRoutes, BuyerRoutes, SellerRoutes, PlatformRoutes, DraftRoutes,
      CartProposalRoutes, Routes, StoringRoutes, ScopeFits, RolesFit, Roles, StoringTools
<1>2. ASSUME NEW T \in {OrderProposalRoutes, ListingProposalRoutes, PriceProposalRoutes,
                       StockProposalRoutes, QueueRoutes, PromotionRoutes},
             t \in DOMAIN T
      PROVE  Fit(T[t])
  BY <1>2, TableHas
  DEF OrderProposalRoutes, ListingProposalRoutes, PriceProposalRoutes, StockProposalRoutes,
      QueueRoutes, PromotionRoutes, Routes, StoringRoutes, ScopeFits, RolesFit, Roles,
      StoringTools
<1>3. \E T \in {AccountRoutes, BuyerRoutes, SellerRoutes, PlatformRoutes, DraftRoutes,
              CartProposalRoutes, OrderProposalRoutes, ListingProposalRoutes,
              PriceProposalRoutes, StockProposalRoutes, QueueRoutes, PromotionRoutes} :
        t \in DOMAIN T /\ Policy[t] = T[t]
  BY TableHas DEF Policy
<1> QED
  BY <1>1, <1>2, <1>3

\* The private tools by name.
Named ==
    {"get_my_profile_summary", "list_my_notifications", "get_my_cart", "validate_promo_code",
     "preview_checkout", "list_my_orders", "get_my_order", "track_my_order", "get_my_bill_summary",
     "get_my_payment_status", "list_my_products", "get_my_product", "get_my_inventory_summary",
     "list_my_seller_orders", "get_my_seller_order", "get_my_revenue_summary",
     "get_platform_revenue_summary", "list_seller_applications", "draft_listing_copy",
     "save_listing_draft", "list_my_listing_drafts", "get_my_listing_draft", "propose_cart_change",
     "propose_order_return", "get_my_action_status", "propose_order_cancellation",
     "propose_listing_publish", "propose_listing_content_change", "propose_price_change",
     "propose_inventory_adjustment", "propose_fulfillment_transition",
     "list_order_exception_queue", "get_order_exception_detail", "list_return_queue",
     "draft_support_message", "list_promotion_configuration", "get_promotion_usage_summary",
     "draft_seller_review_recommendation", "draft_return_review_recommendation",
     "draft_promotion_recommendation"}

LEMMA PrivateNamed == PrivateTools = Named
<1>1. ASSUME NEW t PROVE t \in PrivateTools <=> t \in Named
  BY DEF PrivateTools, PrivateScopes, Scoped, Joined, Named
<1> QED
  BY <1>1

\* A private tool is in the registry and has a route, and no other has one.
LEMMA PrivateListed ==
    ASSUME NEW t \in PrivateTools
    PROVE  t \in DOMAIN Registry
<1>1. {"get_my_profile_summary", "list_my_notifications"}
      \subseteq DOMAIN AccountRows
  BY TableHas DEF AccountRows, Rows
<1>2. {"get_my_cart", "validate_promo_code", "preview_checkout"}
      \subseteq DOMAIN CartRows
  BY DEF CartRows, Rows
<1>3. {"list_my_orders", "get_my_order", "track_my_order", "get_my_bill_summary",
       "get_my_payment_status"}
      \subseteq DOMAIN OrderRows
  BY DEF OrderRows, Rows
<1>4. {"list_my_products", "get_my_product", "get_my_inventory_summary", "list_my_seller_orders",
       "get_my_seller_order", "get_my_revenue_summary"}
      \subseteq DOMAIN SellerRows
  BY TableHas DEF SellerRows, Rows
<1>5. {"get_platform_revenue_summary", "list_seller_applications"}
      \subseteq DOMAIN PlatformRows
  BY TableHas DEF PlatformRows, Rows
<1>6. {"draft_listing_copy", "save_listing_draft", "list_my_listing_drafts", "get_my_listing_draft"}
      \subseteq DOMAIN DraftRows
  BY DEF DraftRows, Rows
<1>7. {"propose_cart_change", "get_my_action_status", "propose_order_cancellation",
       "propose_order_return"}
      \subseteq DOMAIN BuyerProposalRows
  BY TableHas DEF BuyerProposalRows, Rows
<1>8. {"propose_price_change", "propose_inventory_adjustment", "propose_fulfillment_transition"}
      \subseteq DOMAIN SellerProposalRows
  BY TableHas DEF SellerProposalRows, Rows
<1>9. {"list_order_exception_queue", "get_order_exception_detail", "list_return_queue"}
      \subseteq DOMAIN QueueRows
  BY DEF QueueRows, Rows
<1>10. {"draft_support_message"}
       \subseteq DOMAIN SupportRows
  BY DEF SupportRows, Rows
<1>11. {"list_promotion_configuration", "get_promotion_usage_summary",
        "draft_seller_review_recommendation", "draft_return_review_recommendation",
        "draft_promotion_recommendation"}
       \subseteq DOMAIN PromotionRows
  BY TableHas DEF PromotionRows, Rows
<1>12. {"propose_listing_publish", "propose_listing_content_change"}
       \subseteq DOMAIN ListingProposalRows
  BY DEF ListingProposalRows, Rows
<1>13. \E T \in {AccountRows, CartRows, OrderRows, SellerRows, PlatformRows, DraftRows,
                BuyerProposalRows, SellerProposalRows, QueueRows, SupportRows, PromotionRows,
                ListingProposalRows} :
        t \in DOMAIN T
  BY PrivateNamed, <1>1, <1>2, <1>3, <1>4, <1>5, <1>6, <1>7, <1>8, <1>9, <1>10, <1>11, <1>12
  DEF Named
<1> QED
  BY <1>13, TableHas DEF Registry

LEMMA PrivateRouted == PrivateTools = DOMAIN Policy
<1>1. DOMAIN AccountRoutes
      = {"get_my_profile_summary", "list_my_notifications"}
  BY DEF AccountRoutes, Routes, StoringRoutes, Joined
<1>2. DOMAIN BuyerRoutes
      = {"get_my_cart", "validate_promo_code", "preview_checkout", "list_my_orders",
         "get_my_order", "track_my_order", "get_my_bill_summary", "get_my_payment_status"}
  BY DEF BuyerRoutes, Routes, StoringRoutes, Joined
<1>3. DOMAIN SellerRoutes
      = {"list_my_products", "get_my_product", "get_my_inventory_summary", "list_my_seller_orders",
         "get_my_seller_order", "get_my_revenue_summary"}
  BY DEF SellerRoutes, Routes, StoringRoutes, Joined
<1>4. DOMAIN PlatformRoutes
      = {"get_platform_revenue_summary", "list_seller_applications"}
  BY DEF PlatformRoutes, Routes, StoringRoutes, Joined
<1>5. DOMAIN DraftRoutes
      = {"draft_listing_copy", "list_my_listing_drafts", "get_my_listing_draft",
         "save_listing_draft"}
  BY DEF DraftRoutes, Routes, StoringRoutes, Joined
<1>6. DOMAIN CartProposalRoutes
      = {"propose_cart_change", "get_my_action_status"}
  BY DEF CartProposalRoutes, Routes, StoringRoutes, Joined
<1>7. DOMAIN OrderProposalRoutes
      = {"propose_order_cancellation", "propose_order_return"}
  BY DEF OrderProposalRoutes, Routes, StoringRoutes, Joined
<1>8. DOMAIN ListingProposalRoutes
      = {"propose_listing_publish", "propose_listing_content_change"}
  BY DEF ListingProposalRoutes, Routes, StoringRoutes
<1>9. DOMAIN PriceProposalRoutes
      = {"propose_price_change"}
  BY DEF PriceProposalRoutes, Routes, StoringRoutes
<1>10. DOMAIN StockProposalRoutes
       = {"propose_inventory_adjustment", "propose_fulfillment_transition"}
  BY DEF StockProposalRoutes, Routes, StoringRoutes, Joined
<1>11. DOMAIN QueueRoutes
       = {"list_order_exception_queue", "get_order_exception_detail", "list_return_queue",
          "draft_support_message"}
  BY DEF QueueRoutes, Routes, StoringRoutes, Joined
<1>12. DOMAIN PromotionRoutes
       = {"list_promotion_configuration", "get_promotion_usage_summary",
          "draft_seller_review_recommendation", "draft_return_review_recommendation",
          "draft_promotion_recommendation"}
  BY DEF PromotionRoutes, Routes, StoringRoutes, Joined
<1>13. ASSUME NEW t
      PROVE  t \in DOMAIN Policy <=>
               \E T \in {AccountRoutes, BuyerRoutes, SellerRoutes, PlatformRoutes, DraftRoutes,
                          CartProposalRoutes, OrderProposalRoutes, ListingProposalRoutes,
                          PriceProposalRoutes, StockProposalRoutes, QueueRoutes, PromotionRoutes} :
                  t \in DOMAIN T
  BY DEF Policy, Joined
<1>14. \A t \in DOMAIN Policy : t \in Named
  BY <1>1, <1>2, <1>3, <1>4, <1>5, <1>6, <1>7, <1>8, <1>9, <1>10, <1>11, <1>12, <1>13 DEF Named
<1>15. \A t \in Named : t \in DOMAIN Policy
  BY <1>1, <1>2, <1>3, <1>4, <1>5, <1>6, <1>7, <1>8, <1>9, <1>10, <1>11, <1>12, <1>13 DEF Named
<1> QED
  BY PrivateNamed, <1>14, <1>15

\* What a private tool is shown for and served for, for any token.
LEMMA ListedIsServed ==
    ASSUME NEW t \in PrivateTools, NEW claims \in Tokens
    PROVE  Listed(t, claims) <=> Served(t, claims)
<1>1. PICK s : s = PrivateScopes[t]
  OBVIOUS
<1>2. ScopeFits(t, s)
  BY <1>1, ScopesFit
<1>3. /\ "public" \notin Registry[t].roles /\ Registry[t].scopes = {s}
      /\ RolesFit(s, Registry[t].roles, Registry[t].verified)
  BY <1>2, PrivateListed, RegistryFits
<1>4. /\ Policy[t].scope = s /\ RolesFit(s, Policy[t].roles, Policy[t].verified)
  BY <1>2, PrivateRouted, PolicyFits
<1>5. s \in {"profile:read", "notifications:read", "cart:read", "orders:read", "cart:propose",
            "returns:propose", "proposals:read", "orders:propose", "support:draft",
            "catalog:read", "sales:read", "revenue:read", "listings:draft", "listings:propose",
            "pricing:propose", "inventory:propose", "fulfillment:propose", "platform:read",
            "sellers:read", "support:read", "promotions:read", "recommendations:draft"}
  BY <1>2, TableHas DEF PrivateTools, PrivateScopes, Scoped, ScopeFits
<1>6. /\ Registry[t].roles = Policy[t].roles
      /\ Registry[t].verified <=> Policy[t].verified
      /\ Policy[t].verified => Policy[t].roles = {"seller"}
  BY <1>3, <1>4, <1>5 DEF RolesFit
<1>7. /\ claims.role \in Roles
      /\ [claims EXCEPT !.scopes = {s}].role = claims.role
      /\ [claims EXCEPT !.scopes = {s}].verified = claims.verified
      /\ [claims EXCEPT !.scopes = {s}].scopes = {s}
  BY DEF Tokens
<1>8. Served(t, claims) <=> /\ s \in claims.scopes /\ claims.role \in Policy[t].roles
                            /\ (Policy[t].verified /\ claims.role = "seller") => claims.verified
  BY <1>1, <1>4, <1>7 DEF Served, Allowed
<1>9. Listed(t, claims) <=> /\ claims.role \in Registry[t].roles
                            /\ Registry[t].verified => claims.verified
                            /\ s \in claims.scopes
  BY <1>3 DEF Listed
<1> QED
  BY <1>6, <1>8, <1>9

\* A token is still one after it lost a scope, and then the same is said of it.
LEMMA TablesDoAgree == TablesAgree
<1>1. \A p \in Principals : Claims[p] \in Tokens
  BY GatewayAssumption
<1>2. ASSUME NEW p \in Principals, NEW scope
      PROVE  [Claims[p] EXCEPT !.scopes = @ \ {scope}] \in Tokens
  BY <1>1 DEF Tokens
<1>3. ASSUME NEW t \in PrivateTools PROVE Policy[t].stores => Registry[t].class # "read"
  BY ScopesFit, PrivateListed, PrivateRouted, RegistryFits, PolicyFits
<1> QED
  BY <1>1, <1>2, <1>3, PrivateRouted, ListedIsServed DEF TablesAgree

\* For any callers with any tokens, of whatever scopes were granted: a private
\* tool is listed exactly to those whom its route would serve, and none that is
\* announced as read-only stores a row (toolRegistry.js, backendClient.js, the
\* assistant's routes and policies).
THEOREM ShownIsAlwaysServed == Spec => []ShownIsServed
<1>1. ShownIsServed
  BY TablesDoAgree DEF ShownIsServed
<1> QED
  BY <1>1, PTL

-----------------------------------------------------------------------------
(* What is between the server and its users *)

\* Every call, lease, audit row, list and page is of its type, for any number of
\* calls, principals, rows and proposals: the counters of the leases stay between
\* 0 and the limit, whatever expires and whichever release is lost.
THEOREM AssistantTyped == AssistantSpec => []AssistantTypeOK
<1>1. ScanInit => ScanInv
  BY ScanInitially
<1>2. ScanInv /\ [ScanNext]_scanVars => ScanInv'
  BY ScanStep
<1>3. ScanInv => ScanTypeOK
  BY DEF ScanInv, ScanShape
<1>4. PageInit => PageInv
  BY PageInitially
<1>5. PageInv /\ [PageNext]_pageVars => PageInv'
  BY PageStep
<1>6. PageInv => PageTypeOK
  BY DEF PageInv
<1>7. ReviewInit => ReviewInv
  BY ReviewInitially
<1>8. ReviewInv /\ [ReviewNext]_reviewVars => ReviewInv'
  BY ReviewStep
<1>9. ReviewInv => ReviewTypeOK
  BY DEF ReviewInv
<1>10. ScanSpec => []ScanTypeOK
  BY <1>1, <1>2, <1>3, PTL DEF ScanSpec
<1>11. PageSpec => []PageTypeOK
  BY <1>4, <1>5, <1>6, PTL DEF PageSpec
<1>12. ReviewSpec => []ReviewTypeOK
  BY <1>7, <1>8, <1>9, PTL DEF ReviewSpec
<1>13. GatewayTypeOK /\ ScanTypeOK /\ PageTypeOK /\ ReviewTypeOK => AssistantTypeOK
  BY DEF AssistantTypeOK
<1> QED
  BY <1>10, <1>11, <1>12, <1>13, GatewayTypes, PTL DEF AssistantSpec, StorefrontSpec
=============================================================================
