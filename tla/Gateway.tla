------------------------------- MODULE Gateway -------------------------------
(***************************************************************************)
(* A tool call on its way through the MCP server and the backend's         *)
(* assistant routes: verification of the credential, the distributed       *)
(* leases of both servers, the account check, the operation, and the audit *)
(* rows that must be there before anything is answered.                    *)
(*                                                                         *)
(* A call sends two requests to the backend, one to resolve its account    *)
(* and one for its tool; requests[c] is the one under way.  The request    *)
(* quotas and the daily limits of drafts and proposals are a refusal that  *)
(* may happen at any time; what a tool reads is left out.                  *)
(***************************************************************************)
EXTENDS Tools

CONSTANTS
    Calls,        \* tool calls, by their trace id
    Principals,   \* pairs of a user and a client, with one grant each
    Claims,       \* what a principal's tokens say
    Caller,       \* who makes a call
    ToolsOf,      \* bound: the tools a call may be for
    Limit,        \* concurrent leases of a key
    Restless,     \* bound: principals whose grant or account may change
    MaxExpiries,  \* bound: counters that expire
    MaxLosses     \* bound: leases that are never released

ASSUME GatewayAssumption ==
    /\ Limit \in Nat \ {0} /\ MaxExpiries \in Nat /\ MaxLosses \in Nat
    /\ Claims \in [Principals -> Tokens]
    /\ Caller \in [Calls -> Principals]
    /\ ToolsOf \in [Calls -> SUBSET ToolNames]
    /\ Restless \subseteq Principals
    /\ "platform" \notin Principals
    /\ IsFiniteSet(Calls)

VARIABLES
    grants,    \* principals whose grant the identity provider still honours
    accounts,  \* the users row of a principal: "same" as its token's claims,
               \* "changed" in role or verification, or "gone"
    calls,     \* the MCP server's side of a call
    requests,  \* the backend's side: where the request under way is
    rows,      \* the call's assistant_audit_events
    stored,    \* calls whose operation stored a row
    counts,    \* the concurrency counters in Redis
    leaks,     \* history: leases a counter counts that nobody will release
    outlived,  \* history: counters that expired while a lease was in use
    expiries, losses  \* how many counters have expired, how many leases leaked

stateVars == <<grants, accounts, calls, requests, rows, stored>>
leaseVars == <<counts, leaks, outlived, losses, expiries>>
vars == <<grants, accounts, calls, requests, rows, stored, counts, leaks,
          outlived, expiries, losses>>

-----------------------------------------------------------------------------
(* Types *)

Layers == {"mcp", "assistant"}
Keys == Principals \cup {"platform"}

AuditRows == {"ingress", "context", "operation", "tool", "dispatch"}

Call == [pc      : {"idle", "verify", "resolve", "resolving", "denied", "enter",
                    "tool", "calling", "audit", "reply", "done"},
         tool    : ToolNames \cup {"none"},
         out     : {"none", "data", "error"},
         answer  : {"none", "data", "error", "refused", "unavailable"},
         live    : BOOLEAN,   \* history: the grant was live when the call came
         matched : BOOLEAN]   \* history: since then the account was once as claimed

RequestPcs == {"none", "verify", "limit", "authorize", "run", "audit", "orphan"}

GatewayTypeOK ==
    /\ grants \in SUBSET Principals
    /\ accounts \in [Principals -> {"same", "changed", "gone"}]
    /\ calls \in [Calls -> Call]
    /\ requests \in [Calls -> RequestPcs]
    /\ rows \in [Calls -> SUBSET AuditRows]
    /\ stored \in SUBSET Calls
    /\ counts \in [Layers -> [Keys -> 0..Limit]]
    /\ leaks \in [Layers -> [Keys -> 0..MaxLosses]]
    /\ outlived \in SUBSET (Layers \X Keys)
    /\ expiries \in 0..MaxExpiries /\ losses \in 0..MaxLosses
    /\ \A c \in Calls :
         requests[c] \notin {"none", "orphan"} => calls[c].pc \in {"resolving", "calling"}

Init ==
    /\ grants = Principals
    /\ accounts = [p \in Principals |-> "same"]
    /\ calls = [c \in Calls |->
                  [pc |-> "idle", tool |-> "none", out |-> "none", answer |-> "none",
                   live |-> FALSE, matched |-> FALSE]]
    /\ requests = [c \in Calls |-> "none"]
    /\ rows = [c \in Calls |-> {}]
    /\ stored = {}
    /\ counts = [l \in Layers |-> [k \in Keys |-> 0]]
    /\ leaks = counts
    /\ outlived = {} /\ expiries = 0 /\ losses = 0

-----------------------------------------------------------------------------
(* Leases.  A script takes the caller's counter and then the platform's, or *)
(* neither; giving back deletes a counter that is at one.                 *)

KeysOf(c) == {Caller[c], "platform"}

\* The leases in use: a call's from enter to its answer, a request's from its
\* limit to the end of its response.
Holds(layer, c) ==
    IF layer = "mcp" THEN calls[c].pc \in {"tool", "calling", "audit", "reply"}
                     ELSE requests[c] \in {"authorize", "run", "audit"}

Holders(layer, key) == {c \in Calls : key \in KeysOf(c) /\ Holds(layer, c)}

\* Mutant of Fits: one lease too many.
FitsOff(layer, key) == counts[layer][key] <= Limit

\* The incremented counter is compared with the limit.
Fits(layer, key) == counts[layer][key] < Limit

SetCounts(layer, values) == counts' = [counts EXCEPT ![layer] = values]

Up(layer, c) ==
    [k \in Keys |-> counts[layer][k] + IF k \in KeysOf(c) THEN 1 ELSE 0]

Acquire(layer, c) ==
    /\ \A k \in KeysOf(c) : Fits(layer, k)
    /\ SetCounts(layer, Up(layer, c))
    /\ UNCHANGED <<leaks, outlived, expiries, losses>>

\* The script takes back what it had counted.
Refuse(layer, c) ==
    /\ \E k \in KeysOf(c) : ~Fits(layer, k)
    /\ UNCHANGED leaseVars

\* The script ran but its reply was lost: the lease is taken and nobody has it.
AcquireUnheard(layer, c) ==
    /\ losses < MaxLosses /\ losses' = losses + 1
    /\ \A k \in KeysOf(c) : Fits(layer, k)
    /\ SetCounts(layer, Up(layer, c))
    /\ leaks' = [leaks EXCEPT ![layer] =
                   [k \in Keys |-> @[k] + IF k \in KeysOf(c) THEN 1 ELSE 0]]
    /\ UNCHANGED <<outlived, expiries>>

\* A counter nobody uses any more has forgotten that it expired too early.
Forgiven(layer, c) ==
    outlived' = outlived \ {<<layer, k>> : k \in {x \in KeysOf(c) : Holders(layer, x) = {c}}}

\* Mutant of GiveBack: the response's finish and its close both release.
GiveBackTwice(layer, c) ==
    /\ SetCounts(layer, [k \in Keys |->
         IF k \in KeysOf(c) /\ counts[layer][k] > 1 THEN counts[layer][k] - 2
         ELSE IF k \in KeysOf(c) THEN 0 ELSE counts[layer][k]])
    /\ leaks' = [leaks EXCEPT ![layer] = [k \in Keys |->
         IF k \in KeysOf(c) /\ counts[layer][k] <= 2 THEN 0 ELSE @[k]]]
    /\ Forgiven(layer, c)
    /\ UNCHANGED <<expiries, losses>>

GiveBack(layer, c) ==
    /\ SetCounts(layer, [k \in Keys |->
         IF k \in KeysOf(c) /\ counts[layer][k] > 0 THEN counts[layer][k] - 1
                                                    ELSE counts[layer][k]])
    /\ leaks' = [leaks EXCEPT ![layer] = [k \in Keys |->
         IF k \in KeysOf(c) /\ counts[layer][k] <= 1 THEN 0 ELSE @[k]]]
    /\ Forgiven(layer, c)
    /\ UNCHANGED <<expiries, losses>>

\* A failed release is swallowed.
Leak(layer, c) ==
    /\ losses < MaxLosses /\ losses' = losses + 1
    /\ leaks' = [leaks EXCEPT ![layer] =
                   [k \in Keys |-> @[k] + IF k \in KeysOf(c) THEN 1 ELSE 0]]
    /\ Forgiven(layer, c)
    /\ UNCHANGED <<counts, expiries>>

Release(layer, c) == GiveBack(layer, c) \/ Leak(layer, c)

\* A counter lives 15 s from when it was last set to one, however long the
\* leases it counts are in use.
Expire(layer, key) ==
    /\ counts[layer][key] > 0
    /\ expiries < MaxExpiries /\ expiries' = expiries + 1
    /\ SetCounts(layer, [counts[layer] EXCEPT ![key] = 0])
    /\ leaks' = [leaks EXCEPT ![layer][key] = 0]
    /\ outlived' = IF Holders(layer, key) = {} THEN outlived
                                               ELSE outlived \cup {<<layer, key>>}
    /\ UNCHANGED <<stateVars, losses>>

-----------------------------------------------------------------------------
(* Shared state formulae *)

At(c, pc) == calls[c].pc = pc
Asks(c, pc) == requests[c] = pc
Go(c, pc) == calls' = [calls EXCEPT ![c].pc = pc]
Ask(c, pc) == requests' = [requests EXCEPT ![c] = pc]
Row(c) == Policy[calls[c].tool]
Grant(c) == Caller[c] \in grants
Account(c) == accounts[Caller[c]]

\* An audit row is written, or not.
MayWrite(c, row) ==
    \E wrote \in {{}, {row}} : rows' = [rows EXCEPT ![c] = @ \cup wrote]
Write(c, row) == rows' = [rows EXCEPT ![c] = @ \cup {row}]

Handle(c, tool, pc, out) ==
    calls' = [calls EXCEPT ![c] = [@ EXCEPT !.tool = tool, !.pc = pc, !.out = out]]
Outcome(c, pc, out) == calls' = [calls EXCEPT ![c].pc = pc, ![c].out = out]
Answer(c, answer) == calls' = [calls EXCEPT ![c].pc = "done", ![c].answer = answer]

\* What is answered once the row is written; a write that fails, or whose reply
\* is lost, makes it 503.
AuditedAnswer(c, row, answer) ==
    \/ Answer(c, answer) /\ Write(c, row)
    \/ Answer(c, "unavailable") /\ MayWrite(c, row)

-----------------------------------------------------------------------------
(* The MCP server, up to the tool *)

Begin(c) ==
    /\ At(c, "idle")
    /\ calls' = [calls EXCEPT ![c] =
                   [@ EXCEPT !.pc = "verify", !.live = Grant(c),
                             !.matched = Account(c) = "same"]]
    /\ UNCHANGED <<grants, accounts, requests, rows, stored, leaseVars>>

\* auditIngress, then the refusal.
Denied(c) ==
    /\ At(c, "denied")
    /\ AuditedAnswer(c, "ingress", "refused")
    /\ UNCHANGED <<grants, accounts, requests, stored, leaseVars>>

\* The identity provider is asked whether the token is still active.
Verify(c) ==
    /\ At(c, "verify")
    /\ \/ Grant(c) /\ Go(c, "resolve")
       \/ Go(c, "denied")   \* inactive, or the provider cannot be asked
    /\ UNCHANGED <<grants, accounts, requests, rows, stored, leaseVars>>

\* A delegated token is exchanged for the caller's, of which the provider gives
\* none for a revoked grant, and the backend asked for the account.
Resolve(c) ==
    /\ At(c, "resolve")
    /\ \/ Grant(c) /\ Go(c, "resolving") /\ Ask(c, "verify")
       \/ Go(c, "denied") /\ UNCHANGED requests
    /\ UNCHANGED <<grants, accounts, rows, stored, leaseVars>>

\* The quotas, then the lease.  Without Redis the answer is 503 whether or not
\* the refusal could be written.
Enter(c) ==
    /\ At(c, "enter")
    /\ \/ /\ Acquire("mcp", c)
          /\ Go(c, "tool") /\ UNCHANGED rows
       \/ /\ Refuse("mcp", c)
          /\ Go(c, "denied") /\ UNCHANGED rows
       \/ /\ Go(c, "denied")                    \* over a quota
          /\ UNCHANGED <<rows, leaseVars>>
       \/ /\ AcquireUnheard("mcp", c) \/ UNCHANGED leaseVars
          /\ Answer(c, "unavailable") /\ MayWrite(c, "ingress")
    /\ UNCHANGED <<grants, accounts, requests, stored>>

\* An unknown session or a malformed body, inside the lease.
Reject(c) ==
    /\ At(c, "tool")
    /\ AuditedAnswer(c, "ingress", "refused")
    /\ Release("mcp", c)
    /\ UNCHANGED <<grants, accounts, requests, stored>>

\* A tool that was not registered for the caller is unknown to the protocol
\* handler; a local or public one needs no delegated token.
Dispatch(c, t) ==
    /\ At(c, "tool")
    /\ \/ /\ ~Listed(t, Claims[Caller[c]])
          /\ Handle(c, t, "reply", "error") /\ UNCHANGED requests
       \/ /\ Listed(t, Claims[Caller[c]]) /\ t \in LocalTools
          /\ Handle(c, t, "audit", "data") /\ UNCHANGED requests
       \/ /\ Listed(t, Claims[Caller[c]]) /\ t \notin LocalTools \cup PrivateTools
          /\ \E out \in {"data", "error"} : Handle(c, t, "audit", out)
          /\ UNCHANGED requests
       \/ /\ Listed(t, Claims[Caller[c]]) /\ t \in PrivateTools
          /\ \/ Grant(c) /\ Handle(c, t, "calling", "none") /\ Ask(c, "verify")
             \/ Handle(c, t, "audit", "error") /\ UNCHANGED requests
    /\ UNCHANGED <<grants, accounts, rows, stored, leaseVars>>

\* The row of a tool that failed names a field the backend's schema does not
\* know, so it is never stored; that is swallowed.
ToolAudit(c) ==
    /\ At(c, "audit")
    /\ \/ /\ calls[c].out = "data"
          /\ \/ Go(c, "reply") /\ Write(c, "tool")
             \/ Outcome(c, "reply", "error") /\ MayWrite(c, "tool")
       \/ /\ calls[c].out = "error"
          /\ Go(c, "reply") /\ UNCHANGED rows
    /\ UNCHANGED <<grants, accounts, requests, stored, leaseVars>>

Reply(c) ==
    /\ At(c, "reply")
    /\ AuditedAnswer(c, "dispatch", calls[c].out)
    /\ Release("mcp", c)
    /\ UNCHANGED <<grants, accounts, requests, stored>>

-----------------------------------------------------------------------------
(* The backend's request *)

\* What the MCP server makes of the answer.
Receive(c, ok) ==
    IF At(c, "resolving") THEN Go(c, IF ok THEN "enter" ELSE "denied")
                          ELSE Outcome(c, "audit", IF ok THEN "data" ELSE "error")

\* An answer without the lease, and one that ends it.
Respond(c, ok) == Receive(c, ok) /\ Ask(c, "none")

\* authenticateAssistantDelegation
Delegation(c) ==
    /\ Asks(c, "verify")
    /\ \/ Grant(c) /\ Ask(c, "limit") /\ UNCHANGED calls
       \/ Respond(c, FALSE)
    /\ UNCHANGED <<grants, accounts, rows, stored, leaseVars>>

\* enforceAssistantDistributedLimit
LimitRequest(c) ==
    /\ Asks(c, "limit")
    /\ \/ Acquire("assistant", c) /\ Ask(c, "authorize") /\ UNCHANGED calls
       \/ Refuse("assistant", c) /\ Respond(c, FALSE)
       \/ UNCHANGED leaseVars /\ Respond(c, FALSE)          \* over a quota
       \/ AcquireUnheard("assistant", c) /\ Respond(c, FALSE)
    /\ UNCHANGED <<grants, accounts, rows, stored>>

\* Mutant of MayOperate: the token is believed.
MayOperateByToken(c) == At(c, "calling") => Served(calls[c].tool, Claims[Caller[c]])

\* validateAssistantAccess: the live account is what the token says, and the
\* route's policy allows it.
MayOperate(c) ==
    /\ Account(c) = "same"
    /\ At(c, "calling") => Served(calls[c].tool, Claims[Caller[c]])

\* authorizeAssistantOperation, and the refusals of the route's middlewares.
Authorize(c) ==
    /\ Asks(c, "authorize")
    /\ \/ /\ MayOperate(c)
          /\ At(c, "calling") => PassesGate(calls[c].tool, Claims[Caller[c]])
          /\ Ask(c, IF At(c, "calling") THEN "run" ELSE "audit")
          /\ UNCHANGED <<calls, leaseVars>>
       \/ Respond(c, FALSE) /\ Release("assistant", c)
    /\ UNCHANGED <<grants, accounts, rows, stored>>

\* Mutant of RunAtomically: the draft is committed before its audit row.
RunSeparately(c) ==
    /\ stored' = stored \cup {c}
    /\ Ask(c, "audit") /\ UNCHANGED <<calls, rows, leaseVars>>

\* A transaction that stores the draft and the audit row.
RunAtomically(c) ==
    /\ stored' = stored \cup {c}
    /\ Write(c, "operation")
    /\ Respond(c, TRUE) /\ Release("assistant", c)

\* The operation's transaction commits, or fails as a whole.
Run(c) ==
    /\ Asks(c, "run")
    /\ \/ Row(c).atomic /\ RunAtomically(c)
       \/ /\ ~Row(c).atomic
          /\ stored' = IF Row(c).stores THEN stored \cup {c} ELSE stored
          /\ Ask(c, "audit") /\ UNCHANGED <<calls, rows, leaseVars>>
       \/ /\ Respond(c, FALSE) /\ Release("assistant", c)
          /\ UNCHANGED <<rows, stored>>
    /\ UNCHANGED <<grants, accounts>>

\* auditedJson
AuditResponse(c) ==
    LET row == IF At(c, "resolving") THEN "context" ELSE "operation" IN
    /\ Asks(c, "audit")
    /\ \/ Respond(c, TRUE) /\ Write(c, row)
       \/ Respond(c, FALSE) /\ MayWrite(c, row)
    /\ Release("assistant", c)
    /\ UNCHANGED <<grants, accounts, stored>>

\* The MCP server stops waiting and the connection closes, which gives the
\* lease back and ends the request at its next step, save for the audit row of
\* what is committed.  A request that has no lease yet goes on to take one.
Timeout(c) ==
    /\ requests[c] \notin {"none", "orphan"}
    /\ Receive(c, FALSE)
    /\ \/ /\ requests[c] \in {"verify", "limit"}
          /\ Ask(c, "orphan") /\ UNCHANGED <<rows, leaseVars>>
       \/ /\ requests[c] \in {"authorize", "run"}
          /\ Ask(c, "none") /\ Release("assistant", c) /\ UNCHANGED rows
       \/ /\ requests[c] = "audit"
          /\ Ask(c, "none") /\ Release("assistant", c)
          /\ MayWrite(c, IF At(c, "resolving") THEN "context" ELSE "operation")
    /\ UNCHANGED <<grants, accounts, stored>>

\* Its connection is closed already: nothing will give the lease back.
Orphan(c) ==
    /\ Asks(c, "orphan") /\ Ask(c, "none")
    /\ AcquireUnheard("assistant", c) \/ UNCHANGED leaseVars
    /\ UNCHANGED <<grants, accounts, calls, rows, stored>>

-----------------------------------------------------------------------------
(* The world around *)

\* The user disconnects the client, or logs out of the identity provider.
Revoke(p) ==
    /\ p \in grants /\ grants' = grants \ {p}
    /\ UNCHANGED <<accounts, calls, requests, rows, stored, leaseVars>>

\* An administrator changes the role or the verification, and perhaps back;
\* or the account is deleted.
AccountChanges(p, to) ==
    /\ accounts[p] # "gone" /\ to # accounts[p]
    /\ accounts' = [accounts EXCEPT ![p] = to]
    /\ calls' = [c \in Calls |->
                   [calls[c] EXCEPT !.matched =
                      @ \/ (Caller[c] = p /\ to = "same" /\ calls[c].pc # "idle")]]
    /\ UNCHANGED <<grants, requests, rows, stored, leaseVars>>

Step(c) ==
    \/ Begin(c) \/ Denied(c) \/ Verify(c) \/ Resolve(c) \/ Enter(c) \/ Reject(c)
    \/ \E t \in ToolsOf[c] : Dispatch(c, t)
    \/ ToolAudit(c) \/ Reply(c)
    \/ Delegation(c) \/ LimitRequest(c) \/ Authorize(c) \/ Run(c) \/ AuditResponse(c)
    \/ Timeout(c) \/ Orphan(c)

Next ==
    \/ \E c \in Calls : Step(c)
    \/ \E p \in Restless :
          Revoke(p) \/ \E to \in {"same", "changed", "gone"} : AccountChanges(p, to)
    \/ \E layer \in Layers, key \in Keys : Expire(layer, key)

Spec == Init /\ [][Next]_vars

-----------------------------------------------------------------------------
(* Properties *)

\* The backend answers and the MCP server passes on nothing without a trace:
\* data was preceded by the durable rows of the account's resolution, of the
\* operation if it is private, of the tool and of the dispatch; an error by the
\* row of the dispatch, a refusal by that of the ingress.  And a listing draft
\* is never there without its audit row, whatever fails.
NothingUnaudited ==
    /\ \A c \in Calls :
        /\ calls[c].answer = "data" =>
             /\ {"context", "tool", "dispatch"} \subseteq rows[c]
             /\ calls[c].tool \in PrivateTools => "operation" \in rows[c]
        /\ calls[c].answer = "error" => "dispatch" \in rows[c]
        /\ calls[c].answer = "refused" => "ingress" \in rows[c]
    /\ \A c \in stored : Row(c).atomic => "operation" \in rows[c]

\* A call that came after its grant was revoked, or whose account was not at
\* any time of the call what the token says, is told nothing and stores nothing.
NothingAfterRevocation ==
    \A c \in Calls :
        (calls[c].answer = "data" \/ c \in stored) => calls[c].live /\ calls[c].matched

\* The counters are exact.  What one holds beyond the leases in use are leases
\* whose release was lost: a refused or finished call keeps no capacity.  And
\* until it expires under a lease it covers the leases in use, so that there are
\* never more of them than the limit.
CapacityExact ==
    \A layer \in Layers, key \in Keys :
        LET inUse == Cardinality(Holders(layer, key)) IN
        /\ counts[layer][key] <= inUse + leaks[layer][key]
        /\ <<layer, key>> \notin outlived => inUse <= counts[layer][key]

\* With an account that is as its token says, whichever of the scopes was not
\* granted, the MCP server lists exactly the private tools whose route would
\* serve it, under the scope the backend client asks for; and no tool announced
\* as read-only stores a row.  Only the gated proposal tools are shown to sellers
\* who are then refused.
TablesAgree ==
    /\ PrivateTools = DOMAIN Policy
    /\ \A t \in PrivateTools : Policy[t].stores => Registry[t].class # "read"
    /\ \A p \in Principals : \A t \in PrivateTools, scope \in Claims[p].scopes :
         LET claims == [Claims[p] EXCEPT !.scopes = @ \ {scope}] IN
         /\ Listed(t, claims) <=> Served(t, claims)
         /\ Listed(t, Claims[p]) <=> Served(t, Claims[p])

\* What a caller is shown is what it is served: the four tables, kept in four
\* files of two services, agree.  They do not change, so they are compared
\* before the first call.
ShownIsServed == (\A c \in Calls : At(c, "idle")) => TablesAgree
=============================================================================
