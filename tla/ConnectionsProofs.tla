-------------------------- MODULE ConnectionsProofs --------------------------
(* Proofs about Connections for any number of spaces, users, accounts,        *)
(* returns from Cloudflare, calls and grants: type correctness, that no space *)
(* loses the grant it builds with, that only a dead credential is called      *)
(* ended, and that nobody takes an account over, where the read that settles  *)
(* it neither failed nor came too early.                                      *)
EXTENDS Connections, TLAPS

-----------------------------------------------------------------------------
(* The inductive invariant.                                                   *)

\* A return whose grant is not in use yet.
Bringing(f) == flow[f].pc \in {"authorization", "others", "asking", "store", "activate"}

\* A grant that was brought, and that no return will make an authorization any more.
Known == {h \in 1..used : \A f \in Flows : Bringing(f) => flow[f].handle # h}

\* Each return brings a grant of its own, later than what its space has.
FreshGrants ==
    /\ \A s \in Spaces : /\ conn[s].gen <= used
                         /\ conn[s].active => conn[s].acct \in Accounts
    /\ \A f \in Flows : Bringing(f) =>
           /\ flow[f].space \in Spaces /\ flow[f].acct \in Accounts /\ flow[f].user \in Users
           /\ flow[f].handle \in 1..used
           /\ flow[f].prev.gen < flow[f].handle
    /\ \A f, g \in Flows : Bringing(f) /\ Bringing(g) /\ flow[f].handle = flow[g].handle => f = g

\* Whatever names a credential names one whose fate is not a return's any more.
NamesAreKnown ==
    /\ \A a \in Accounts : auth[a] # 0 => auth[a] \in Known
    /\ \A a, b \in Accounts : auth[a] # 0 /\ auth[a] = auth[b] => a = b
    /\ \A s \in Spaces : /\ leave[s].handle # 0 => leave[s].handle \in Known
                         /\ leave[s].pc = "revoke" => leave[s].handle # 0
                         /\ leave[s].pc \in {"unused", "revoke", "delete"} =>
                                leave[s].acct \in Accounts
    /\ \A f \in Flows : /\ flow[f].replaced # 0 => flow[f].replaced \in Known
                        /\ flow[f].pc = "others" => flow[f].replaced # 0
    /\ \A p \in Flows \cup Calls :
           /\ ask[p].handle # 0 => ask[p].handle \in Known
           /\ ask[p].pc \notin {"none", "works"} => ask[p].handle # 0

\* Only grants that were named can have been revoked.
RevokedAreKnown == \A h \in Handles : grant[h].state = "revoked" => h \in Known

\* Nobody builds with the grant a deletion is about to revoke.
UnusedStaysUnused ==
    \A s, t \in Spaces :
        leave[s].handle # 0 /\ conn[t].active => auth[conn[t].acct] # leave[s].handle

UseInv == FreshGrants /\ NamesAreKnown /\ RevokedAreKnown /\ UnusedStaysUnused
          /\ ActiveSpacesKeepTheirGrant

\* What a use of the vault has seen of a credential still stored.
Seen(p) ==
    LET q == ask[p] IN
    /\ q.seen \in 1..vault[q.handle]
    /\ q.pc = "write" => vault[q.handle] = q.seen /\ grant[q.handle].token = q.seen + 1
    /\ q.pc = "settle" => grant[q.handle].state # "alive" \/ q.seen < grant[q.handle].token

\* What is stored is no later than what Cloudflare gave.
RefreshInv ==
    /\ \A h \in Handles : vault[h] <= grant[h].token
    /\ \A p \in Flows \cup Calls : ask[p].pc \in {"request", "write", "settle"} =>
           ask[p].seen # 0 /\ (vault[ask[p].handle] = 0 \/ Seen(p))
    /\ \A p, r \in Flows \cup Calls :
           /\ ask[p].pc = "write" /\ ask[r].pc = "write" /\ ask[p].handle = ask[r].handle
           => p = r \/ vault[ask[p].handle] = 0

\* Who may bring a space into an account in place of its authorization.
MayTakeOver(f) ==
    \/ RunsEveryOtherSpace(flow[f].user, flow[f].space, flow[f].acct)
    \/ Dead(flow[f].replaced)
    \/ f \in misled

TakeOverInv ==
    \A f \in Flows :
        /\ /\ flow[f].pc \in {"store", "activate"} /\ flow[f].replaced # 0
           /\ flow[f].prev.acct # flow[f].acct
           /\ auth[flow[f].acct] = flow[f].replaced
           => MayTakeOver(f)
        /\ flow[f].pc = "asking" /\ ask[f].pc \notin {"none", "works"} =>
               ask[f].handle = flow[f].replaced

-----------------------------------------------------------------------------
(* Types, and what the actions do.                                            *)

Askers == Flows \cup Calls
Grant == [token : 1..MaxTokens, state : {"alive", "ended", "revoked"}]
FlowRow == [pc : {"none", "authorization", "others", "asking", "store",
                  "activate", "verify", "discard", "changed", "tidy"},
            space : Spaces \cup {None}, acct : Accounts \cup {None},
            user : Users \cup {None}, handle : 0..NumHandles,
            prev : Connection, replaced : 0..NumHandles, drop : SUBSET Handles]
AskRow == [pc : {"none", "read", "request", "write", "settle", "works", "ended"},
           handle : 0..NumHandles, seen : 0..MaxTokens]
LeaveRow == [pc : {"none", "unused", "revoke", "delete", "gone"},
             acct : Accounts \cup {None}, handle : 0..NumHandles]

LEMMA Types ==
    TypeOK <=> /\ conn \in [Spaces -> Connection] /\ auth \in [Accounts -> 0..NumHandles]
               /\ vault \in [Handles -> 0..MaxTokens] /\ grant \in [Handles -> Grant]
               /\ flow \in [Flows -> FlowRow] /\ ask \in [Askers -> AskRow]
               /\ leave \in [Spaces -> LeaveRow]
               /\ used \in 0..NumHandles /\ faults \in 0..MaxFaults /\ misled \subseteq Askers
  BY DEF TypeOK, Grant, FlowRow, AskRow, LeaveRow, Askers

LEMMA Constants ==
    /\ None \notin Accounts /\ NumHandles \in Nat /\ MaxFaults \in Nat /\ MaxTokens \in Nat \ {0}
    /\ NoConnection \in Connection /\ NoFlow \in FlowRow /\ NoAsk \in AskRow /\ NoLeave \in LeaveRow
<1>1. None \notin Accounts /\ NumHandles \in Nat /\ MaxFaults \in Nat /\ MaxTokens \in Nat \ {0}
  BY ConnectionsConstants
<1>2. 0 \in 0..NumHandles /\ 0 \in 0..MaxTokens
  BY <1>1
<1>3. NoConnection \in Connection
  BY <1>2 DEF NoConnection, Connection
<1>4. NoFlow \in FlowRow
  BY <1>2, <1>3 DEF NoFlow, FlowRow
<1>5. NoAsk \in AskRow /\ NoLeave \in LeaveRow
  BY <1>2 DEF NoAsk, AskRow, NoLeave, LeaveRow
<1>6. QED
  BY <1>1, <1>3, <1>4, <1>5

\* A return keeps to what it began with.
Same(f) ==
    /\ flow'[f].space = flow[f].space /\ flow'[f].acct = flow[f].acct
    /\ flow'[f].user = flow[f].user /\ flow'[f].handle = flow[f].handle
    /\ flow'[f].prev = flow[f].prev

Returned(f) ==
    /\ used' = used + 1 /\ flow'[f].handle = used + 1
    /\ flow'[f].space \in Spaces /\ flow'[f].acct \in Accounts /\ flow'[f].user \in Users
    /\ flow'[f].prev = conn[flow'[f].space]
    /\ flow'[f].pc = "authorization" /\ flow'[f].replaced = 0

FlowStep(f) == Connects(f) \/ \E s \in Spaces, u \in Users, a \in Accounts : Return(f, s, u, a)

LEMMA FlowMoves ==
    ASSUME TypeOK, NEW f \in Flows, FlowStep(f)
    PROVE  /\ \A g \in Flows : g # f => flow'[g] = flow[g]
           /\ \/ Bringing(f)' /\ Returned(f) /\ ~Bringing(f)
              \/ Bringing(f)' /\ Bringing(f) /\ Same(f) /\ used' = used
              \/ ~Bringing(f)' /\ used' = used
<1>1. flow \in [Flows -> FlowRow]
  BY Types
<1>2. ASSUME NEW s \in Spaces, NEW u \in Users, NEW a \in Accounts, Return(f, s, u, a)
      PROVE  (\A g \in Flows : g # f => flow'[g] = flow[g]) /\ Bringing(f)' /\ Returned(f) /\ ~Bringing(f)
  <2>1. /\ flow[f].pc = "none" /\ used' = used + 1
        /\ \E r \in {flow'[f]} : flow' = [flow EXCEPT ![f] = r]
    BY <1>1, <1>2 DEF Return, At, FlowIs
  <2>2. /\ flow'[f].pc = "authorization" /\ flow'[f].space = s /\ flow'[f].user = u
        /\ flow'[f].acct = a /\ flow'[f].handle = used + 1 /\ flow'[f].prev = conn[s]
        /\ flow'[f].replaced = 0
    BY <1>1, <1>2 DEF Return, FlowIs, NoFlow
  <2>3. QED
    BY <1>1, <2>1, <2>2 DEF Bringing, Returned
<1>3. ASSUME NEW r, FlowIs(f, r), used' = used,
             \/ r.pc \notin {"authorization", "others", "asking", "store", "activate"}
             \/ /\ Bringing(f) /\ r.space = flow[f].space /\ r.acct = flow[f].acct
                /\ r.user = flow[f].user /\ r.handle = flow[f].handle /\ r.prev = flow[f].prev
      PROVE  /\ \A g \in Flows : g # f => flow'[g] = flow[g]
             /\ \/ Bringing(f)' /\ Bringing(f) /\ Same(f) /\ used' = used
                \/ ~Bringing(f)' /\ used' = used
  BY <1>1, <1>3 DEF FlowIs, Bringing, Same
<1>4. ASSUME NEW pc, To(f, pc), used' = used,
             \/ pc \notin {"authorization", "others", "asking", "store", "activate"}
             \/ Bringing(f)
      PROVE  /\ \A g \in Flows : g # f => flow'[g] = flow[g]
             /\ \/ Bringing(f)' /\ Bringing(f) /\ Same(f) /\ used' = used
                \/ ~Bringing(f)' /\ used' = used
  <2>1. flow[f] \in FlowRow
    BY <1>1
  <2>2. LET r == [flow[f] EXCEPT !.pc = pc] IN
        /\ r.pc = pc /\ r.space = flow[f].space /\ r.acct = flow[f].acct
        /\ r.user = flow[f].user /\ r.handle = flow[f].handle /\ r.prev = flow[f].prev
    BY <2>1 DEF FlowRow
  <2>3. QED
    BY <1>3, <1>4, <2>2 DEF To
<1>5. Over(f) /\ used' = used =>
        (\A g \in Flows : g # f => flow'[g] = flow[g]) /\ ~Bringing(f)'
  BY <1>1 DEF Over, FlowIs, NoFlow, Bringing
<1>6. CASE ReadAuthorization(f)
  <2>1. flow[f] \in FlowRow /\ Bringing(f) /\ used' = used
    BY <1>1, <1>6 DEF ReadAuthorization, At, Bringing, FlowSame
  <2>2. PICK pc, h, d : FlowIs(f, [flow[f] EXCEPT !.replaced = h, !.drop = d, !.pc = pc])
    BY <1>6, <2>1 DEF ReadAuthorization
  <2>3. LET r == [flow[f] EXCEPT !.replaced = h, !.drop = d, !.pc = pc] IN
        /\ r.space = flow[f].space /\ r.acct = flow[f].acct
        /\ r.user = flow[f].user /\ r.handle = flow[f].handle /\ r.prev = flow[f].prev
    BY <2>1 DEF FlowRow
  <2>4. QED
    BY <1>3, <2>1, <2>2, <2>3
<1>7. CASE ReadOthers(f) \/ Store(f)
  BY <1>4, <1>7 DEF ReadOthers, Store, At, Bringing, FlowSame
<1>8. CASE Answered(f)
  BY <1>4, <1>5, <1>8 DEF Answered, At, Bringing, FlowSame
<1>9. CASE Activate(f) \/ Verify(f)
  BY <1>4, <1>9 DEF Activate, Verify, FlowSame
<1>10. CASE Discard(f)
  BY <1>4, <1>5, <1>10 DEF Discard
<1>11. CASE LeaveAccount(f) \/ Tidy(f)
  <2>1. flow[f] \in FlowRow /\ flow[f].pc = "tidy" /\ used' = used
    BY <1>1, <1>11 DEF LeaveAccount, Tidy, At
  <2>2. CASE Over(f)
    BY <1>5, <2>1, <2>2
  <2>3. CASE \E r : FlowIs(f, r) /\ r.pc = "tidy"
    BY <1>3, <2>1, <2>3
  <2>4. [flow[f] EXCEPT !.prev = NoConnection].pc = "tidy"
    BY <2>1 DEF FlowRow
  <2>5. ASSUME NEW d PROVE [flow[f] EXCEPT !.drop = d].pc = "tidy"
    BY <2>1 DEF FlowRow
  <2>6. Over(f) \/ FlowIs(f, [flow[f] EXCEPT !.prev = NoConnection])
        \/ \E h : FlowIs(f, [flow[f] EXCEPT !.drop = @ \ {h}])
    BY <1>11 DEF LeaveAccount, Tidy
  <2>7. QED
    BY <2>2, <2>3, <2>4, <2>5, <2>6
<1>12. QED
  BY <1>2, <1>6, <1>7, <1>8, <1>9, <1>10, <1>11 DEF FlowStep, Connects

LEMMA FlowsStep ==
    ASSUME [Next]_vars
    PROVE  \/ flow' = flow /\ used' = used
           \/ \E f \in Flows : FlowStep(f)
<1>1. CASE \E s \in Spaces : Leaves(s)
  BY <1>1 DEF Leaves, RevokeConnection, ReadUnused, RevokeGrant, DeleteSpace, Interrupted
<1>2. CASE \E p \in Askers : Resolves(p)
  BY <1>2 DEF Resolves, ReadCredential, Request, SaysNothing, Write, Settle, VaultSame
<1>3. CASE (\E k \in Calls : Calling(k)) \/ \E h \in Handles : Ends(h)
  BY <1>3 DEF Calling, Ends, VaultSame
<1>4. CASE UNCHANGED vars
  BY <1>4 DEF vars
<1>5. QED
  BY <1>1, <1>2, <1>3, <1>4 DEF Next, FlowStep, Askers

\* A credential that was named is no return's to bring, now or later.
LEMMA KnownStays ==
    ASSUME TypeOK, [Next]_vars
    PROVE  Known \subseteq Known'
<1> SUFFICES ASSUME NEW h \in Known PROVE h \in Known'
  OBVIOUS
<1>1. used \in Nat /\ used' \in {used, used + 1} /\ h \in 1..used
  BY Types, FlowsStep, FlowMoves, Constants DEF Returned, Known
<1>2. h \in 1..used' /\ h # used + 1
  BY <1>1
<1>3. ASSUME NEW g \in Flows, Bringing(g)' PROVE flow'[g].handle # h
  <2>1. CASE flow'[g] = flow[g]
    BY <1>3, <2>1 DEF Known, Bringing
  <2>2. CASE flow'[g] # flow[g]
    BY <1>2, <1>3, <2>2, FlowsStep, FlowMoves DEF Known, Same, Returned
  <2>3. QED
    BY <2>1, <2>2
<1>4. QED
  BY <1>2, <1>3 DEF Known

\* What becomes of the connections and the authorizations: written by one
\* activation, or less.
LessIsNamed ==
    /\ \A s \in Spaces : \/ conn'[s] = conn[s]
                         \/ ~conn'[s].active /\ conn'[s].gen \in {0, conn[s].gen}
    /\ \A a \in Accounts : auth'[a] \in {0, auth[a]}
    /\ \A s \in Spaces : conn'[s].active => auth'[conn[s].acct] = auth[conn[s].acct]

Connected(f) ==
    /\ Activate(f) /\ AsRead(f)
    /\ conn' = [conn EXCEPT ![flow[f].space] = Activated(f)]
    /\ auth' = [auth EXCEPT ![flow[f].acct] = flow[f].handle]

LEMMA ConnMoves ==
    ASSUME TypeOK, FreshGrants, NamesAreKnown, [Next]_vars
    PROVE  LessIsNamed \/ \E f \in Flows : Connected(f)
<1>1. /\ conn \in [Spaces -> Connection] /\ auth \in [Accounts -> 0..NumHandles]
      /\ flow \in [Flows -> FlowRow] /\ leave \in [Spaces -> LeaveRow]
      /\ \A s \in Spaces : conn[s] \in Connection /\ (conn[s].active => conn[s].acct \in Accounts)
  BY Types DEF FreshGrants
<1>2. UNCHANGED <<conn, auth>> => LessIsNamed
  BY <1>1 DEF LessIsNamed
<1>3. ASSUME NEW f \in Flows, Activate(f) PROVE LessIsNamed \/ Connected(f)
  BY <1>2, <1>3 DEF Activate, Connected
<1>4. ASSUME NEW f \in Flows, LeaveAccount(f) PROVE LessIsNamed
  <2>1. conn' = conn /\ auth' = DeleteUnusedAuthorization(flow[f].prev.acct, conn)
    BY <1>4 DEF LeaveAccount
  <2>2. \A a \in Accounts : auth'[a] \in {0, auth[a]}
    BY <1>1, <2>1 DEF DeleteUnusedAuthorization
  <2>3. \A s \in Spaces : conn[s].active => auth'[conn[s].acct] = auth[conn[s].acct]
    BY <1>1, <2>1 DEF DeleteUnusedAuthorization
  <2>4. QED
    BY <2>1, <2>2, <2>3 DEF LessIsNamed
<1>5. ASSUME NEW f \in Flows, FlowStep(f), ~Activate(f), ~LeaveAccount(f) PROVE LessIsNamed
  BY <1>2, <1>5 DEF FlowStep, Connects, Return, ReadAuthorization, ReadOthers, Answered, Store,
     Verify, Discard, Tidy, FlowSame
<1>6. ASSUME NEW s \in Spaces, RevokeConnection(s) PROVE LessIsNamed
  <2>1. conn' = [conn EXCEPT ![s].active = FALSE] /\ auth' = auth
    BY <1>6 DEF RevokeConnection
  <2>2. \A t \in Spaces : t # s => conn'[t] = conn[t]
    BY <1>1, <2>1
  <2>3. ~conn'[s].active /\ conn'[s].gen = conn[s].gen
    BY <1>1, <2>1 DEF Connection
  <2>4. QED
    BY <1>1, <2>1, <2>2, <2>3 DEF LessIsNamed
<1>7. ASSUME NEW s \in Spaces, DeleteSpace(s) PROVE LessIsNamed
  <2>1. conn' = [conn EXCEPT ![s] = NoConnection]
        /\ auth' = DeleteUnusedAuthorization(leave[s].acct, conn')
    BY <1>7 DEF DeleteSpace
  <2>2. \A t \in Spaces : t # s => conn'[t] = conn[t]
    BY <1>1, <2>1
  <2>3. ~conn'[s].active /\ conn'[s].gen = 0
    BY <1>1, <2>1 DEF NoConnection
  <2>4. \A a \in Accounts : auth'[a] \in {0, auth[a]}
    BY <1>1, <2>1 DEF DeleteUnusedAuthorization
  <2>5. \A t \in Spaces : conn'[t].active => auth'[conn[t].acct] = auth[conn[t].acct]
    BY <1>1, <2>1, <2>2, <2>3 DEF DeleteUnusedAuthorization
  <2>6. QED
    BY <2>2, <2>3, <2>4, <2>5 DEF LessIsNamed
<1>8. ASSUME NEW s \in Spaces, ReadUnused(s) \/ RevokeGrant(s) \/ Interrupted(s) PROVE LessIsNamed
  BY <1>2, <1>8 DEF ReadUnused, RevokeGrant, Interrupted
<1>9. CASE \E p \in Askers : Resolves(p)
  BY <1>2, <1>9 DEF Resolves, ReadCredential, Request, SaysNothing, Write, Settle, VaultSame
<1>10. CASE (\E k \in Calls : Calling(k)) \/ \E h \in Handles : Ends(h)
  BY <1>2, <1>10 DEF Calling, Ends, VaultSame
<1>11. CASE UNCHANGED vars
  BY <1>2, <1>11 DEF vars
<1>12. QED
  BY <1>3, <1>4, <1>5, <1>6, <1>7, <1>8, <1>9, <1>10, <1>11 DEF Next, FlowStep, Leaves, Askers

-----------------------------------------------------------------------------
(* Who uses which grant.                                                      *)

LEMMA FreshStep ==
    ASSUME TypeOK, FreshGrants, NamesAreKnown, [Next]_vars
    PROVE  FreshGrants'
<1>1. /\ conn \in [Spaces -> Connection] /\ flow \in [Flows -> FlowRow]
      /\ used \in Nat /\ used' \in {used, used + 1}
      /\ \A s \in Spaces : conn[s].gen \in Nat
  BY Types, FlowsStep, FlowMoves, Constants DEF Returned, Connection
<1>2. ASSUME NEW s \in Spaces
      PROVE  conn'[s].gen <= used' /\ (conn'[s].active => conn'[s].acct \in Accounts)
  <2>1. conn[s].gen \in 0..used /\ (conn[s].active => conn[s].acct \in Accounts)
    BY <1>1 DEF FreshGrants
  <2>2. CASE LessIsNamed
    BY <1>1, <2>1, <2>2 DEF LessIsNamed
  <2>3. ASSUME NEW f \in Flows, Connected(f) 
        PROVE  conn'[s].gen <= used' /\ (conn'[s].active => conn'[s].acct \in Accounts)
    <3>1. Bringing(f)
      BY <2>3 DEF Connected, Activate, At, Bringing
    <3>2. /\ flow[f].prev.gen \in Nat /\ flow[f].handle \in 1..used
          /\ flow[f].prev.gen < flow[f].handle /\ flow[f].acct \in Accounts
      BY <1>1, <3>1 DEF FreshGrants, FlowRow, Connection
    <3>3. Activated(f).gen \in Nat /\ Activated(f).gen <= used /\ Activated(f).acct \in Accounts
      BY <1>1, <3>2 DEF Activated
    <3>4. conn'[s] = conn[s] \/ conn'[s] = Activated(f)
      BY <1>1, <2>3 DEF Connected
    <3>5. ASSUME NEW n \in Nat, n <= used PROVE n <= used'
      BY <1>1, <3>5
    <3>6. CASE conn'[s] = conn[s]
      BY <1>1, <2>1, <3>5, <3>6
    <3>7. CASE conn'[s] = Activated(f)
      BY <3>3, <3>5, <3>7
    <3>8. QED
      BY <3>4, <3>6, <3>7
  <2>4. QED
    BY <2>2, <2>3, ConnMoves
<1>3. ASSUME NEW f \in Flows, Bringing(f)'
      PROVE  \/ Returned(f) /\ ~Bringing(f)
             \/ Bringing(f) /\ Same(f)
  <2>1. CASE flow'[f] = flow[f]
    BY <1>3, <2>1 DEF Bringing, Same
  <2>2. CASE flow'[f] # flow[f]
    BY <1>3, <2>2, FlowsStep, FlowMoves
  <2>3. QED
    BY <2>1, <2>2
<1>4. ASSUME NEW f \in Flows, Bringing(f)'
      PROVE  /\ flow'[f].space \in Spaces /\ flow'[f].acct \in Accounts /\ flow'[f].user \in Users
             /\ flow'[f].handle \in 1..used' /\ flow'[f].prev.gen < flow'[f].handle
  <2>1. CASE Returned(f)
    <3>1. flow'[f].prev.gen \in 0..used
      BY <1>1, <2>1 DEF Returned, FreshGrants
    <3>2. QED
      BY <1>1, <2>1, <3>1 DEF Returned
  <2>2. CASE Bringing(f) /\ Same(f)
    BY <1>1, <2>2 DEF FreshGrants, Same
  <2>3. QED
    BY <1>3, <1>4, <2>1, <2>2
<1>5. ASSUME NEW f \in Flows, NEW g \in Flows, Bringing(f)', Bringing(g)',
             flow'[f].handle = flow'[g].handle
      PROVE  f = g
  <2>1. ASSUME NEW h \in Flows, Bringing(h), Same(h) PROVE flow'[h].handle \in 1..used
    BY <2>1 DEF FreshGrants, Same
  <2>2. CASE Bringing(f) /\ Same(f) /\ Bringing(g) /\ Same(g)
    BY <1>5, <2>2 DEF FreshGrants, Same
  <2>3. CASE Returned(f) /\ Returned(g) /\ ~Bringing(f) /\ ~Bringing(g)
    <3>1. flow'[f] # flow[f] /\ flow'[g] # flow[g]
      BY <1>5, <2>3 DEF Bringing
    <3>2. QED
      BY <3>1, FlowsStep, FlowMoves
  <2>4. CASE Returned(f) /\ Bringing(g) /\ Same(g)
    <3>1. flow'[g].handle \in 1..used /\ flow'[g].handle = used + 1
      BY <1>5, <2>1, <2>4 DEF Returned
    <3>2. QED
      BY <1>1, <3>1
  <2>5. CASE Returned(g) /\ Bringing(f) /\ Same(f)
    <3>1. flow'[f].handle \in 1..used /\ flow'[f].handle = used + 1
      BY <1>5, <2>1, <2>5 DEF Returned
    <3>2. QED
      BY <1>1, <3>1
  <2>6. QED
    BY <1>3, <1>5, <2>2, <2>3, <2>4, <2>5
<1>6. QED
  BY <1>2, <1>4, <1>5 DEF FreshGrants

\* What an activated grant, or one that is there already, is known by afterwards.
LEMMA ConnectedIsKnown ==
    ASSUME TypeOK, FreshGrants, [Next]_vars, NEW f \in Flows, Connected(f)
    PROVE  /\ Bringing(f) /\ flow[f].handle # 0 /\ flow[f].acct \in Accounts
           /\ flow[f].space \in Spaces /\ flow[f].handle \in Known'
<1>1. Bringing(f) /\ flow[f].handle \in 1..used /\ flow[f].acct \in Accounts
      /\ flow[f].space \in Spaces /\ used' = used
  BY DEF Connected, Activate, At, Bringing, FreshGrants
<1>2. flow \in [Flows -> FlowRow]
  BY Types
<1>3. flow'[f].pc \in {"tidy", "changed", "verify"} /\ \A g \in Flows : g # f => flow'[g] = flow[g]
  BY <1>2 DEF Connected, Activate, To, FlowIs, FlowRow
<1>4. ASSUME NEW g \in Flows, Bringing(g)' PROVE flow'[g].handle # flow[f].handle
  <2>1. g # f /\ flow'[g] = flow[g]
    BY <1>3, <1>4 DEF Bringing
  <2>2. Bringing(g)
    BY <1>4, <2>1 DEF Bringing
  <2>3. QED
    BY <1>1, <2>1, <2>2 DEF FreshGrants
<1>5. QED
  BY <1>1, <1>4 DEF Known

\* Which credentials are newly named: by a deletion,
LEMMA LeaveMoves ==
    ASSUME TypeOK, [Next]_vars, NEW s \in Spaces
    PROVE  \/ leave'[s] = leave[s]
           \/ leave'[s].pc \in {"none", "gone"} /\ leave'[s].handle = 0
           \/ leave'[s].pc = "unused" /\ leave'[s].handle = 0 /\ leave'[s].acct \in Accounts
           \/ ReadUnused(s)
           \/ /\ leave[s].pc = "revoke" /\ leave'[s].pc = "delete"
              /\ leave'[s].handle = leave[s].handle /\ leave'[s].acct = leave[s].acct
<1>1. leave \in [Spaces -> LeaveRow] /\ conn \in [Spaces -> Connection]
  BY Types
<1>2. ASSUME NEW t \in Spaces, RevokeConnection(t)
      PROVE  /\ \A u \in Spaces : u # t => leave'[u] = leave[u]
             /\ leave'[t].pc = "unused" /\ leave'[t].handle = 0 /\ leave'[t].acct \in Accounts
  BY <1>1, <1>2 DEF RevokeConnection, LeaveIs, Connection
<1>3. ASSUME NEW t \in Spaces, ReadUnused(t) PROVE \A u \in Spaces : u # t => leave'[u] = leave[u]
  BY <1>1, <1>3 DEF ReadUnused, LeaveIs
<1>4. ASSUME NEW t \in Spaces, RevokeGrant(t)
      PROVE  /\ \A u \in Spaces : u # t => leave'[u] = leave[u]
             /\ leave[t].pc = "revoke" /\ leave'[t].pc = "delete"
             /\ leave'[t].handle = leave[t].handle /\ leave'[t].acct = leave[t].acct
  BY <1>1, <1>4 DEF RevokeGrant, LeaveIs, LeaveRow
<1>5. ASSUME NEW t \in Spaces, DeleteSpace(t) \/ Interrupted(t)
      PROVE  /\ \A u \in Spaces : u # t => leave'[u] = leave[u]
             /\ leave'[t].pc \in {"none", "gone"} /\ leave'[t].handle = 0
  BY <1>1, <1>5 DEF DeleteSpace, Interrupted, LeaveIs, NoLeave
<1>6. CASE \E t \in Spaces : Leaves(t)
  BY <1>2, <1>3, <1>4, <1>5, <1>6 DEF Leaves
<1>7. ASSUME ~ \E t \in Spaces : Leaves(t) PROVE leave' = leave
  <2>1. CASE \E f \in Flows : FlowStep(f)
    BY <2>1 DEF FlowStep, Connects, Return, ReadAuthorization, ReadOthers, Answered, Store,
       Activate, Verify, Discard, LeaveAccount, Tidy, FlowSame
  <2>2. CASE \E p \in Askers : Resolves(p)
    BY <2>2 DEF Resolves, ReadCredential, Request, SaysNothing, Write, Settle, VaultSame
  <2>3. CASE (\E k \in Calls : Calling(k)) \/ \E h \in Handles : Ends(h)
    BY <2>3 DEF Calling, Ends, VaultSame
  <2>4. CASE UNCHANGED vars
    BY <2>4 DEF vars
  <2>5. QED
    BY <1>7, <2>1, <2>2, <2>3, <2>4 DEF Next, FlowStep, Askers
<1>8. QED
  BY <1>6, <1>7

\* by a return,
LEMMA ReplacedMoves ==
    ASSUME TypeOK, [Next]_vars, NEW f \in Flows
    PROVE  \/ flow'[f] = flow[f]
           \/ flow'[f].replaced \in {0, flow[f].replaced} /\ flow'[f].pc # "others"
           \/ ReadAuthorization(f)
<1>1. flow \in [Flows -> FlowRow]
  BY Types
<1>2. ASSUME NEW pc, pc # "others", To(f, pc)
      PROVE  flow'[f].replaced = flow[f].replaced /\ flow'[f].pc # "others"
  <2>1. LET r == [flow[f] EXCEPT !.pc = pc] IN r.pc = pc /\ r.replaced = flow[f].replaced
    BY <1>1 DEF FlowRow
  <2>2. QED
    BY <1>1, <1>2, <2>1 DEF To, FlowIs
<1>3. Over(f) => flow'[f].replaced = 0 /\ flow'[f].pc # "others"
  BY <1>1 DEF Over, FlowIs, NoFlow
<1>4. ASSUME NEW s \in Spaces, NEW u \in Users, NEW a \in Accounts, Return(f, s, u, a)
      PROVE  flow'[f].replaced = 0 /\ flow'[f].pc # "others"
  BY <1>1, <1>4 DEF Return, FlowIs, NoFlow
<1>5. CASE ReadOthers(f) \/ Answered(f) \/ Store(f) \/ Activate(f) \/ Verify(f) \/ Discard(f)
  <2>1. CASE ReadOthers(f)
    BY <1>2, <2>1 DEF ReadOthers
  <2>2. CASE Answered(f)
    BY <1>2, <1>3, <2>2 DEF Answered
  <2>3. CASE Store(f)
    BY <1>2, <2>3 DEF Store
  <2>4. CASE Activate(f)
    BY <1>2, <2>4 DEF Activate
  <2>5. CASE Verify(f)
    BY <1>2, <2>5 DEF Verify
  <2>6. CASE Discard(f)
    BY <1>2, <1>3, <2>6 DEF Discard
  <2>7. QED
    BY <1>5, <2>1, <2>2, <2>3, <2>4, <2>5, <2>6
<1>6. CASE LeaveAccount(f) \/ Tidy(f)
  <2>1. flow[f] \in FlowRow /\ flow[f].pc = "tidy"
    BY <1>1, <1>6 DEF LeaveAccount, Tidy, At
  <2>2. LET r == [flow[f] EXCEPT !.prev = NoConnection] IN
        r.pc = "tidy" /\ r.replaced = flow[f].replaced
    BY <2>1 DEF FlowRow
  <2>3. ASSUME NEW d PROVE LET r == [flow[f] EXCEPT !.drop = d] IN
        r.pc = "tidy" /\ r.replaced = flow[f].replaced
    BY <2>1 DEF FlowRow
  <2>4. CASE FlowIs(f, [flow[f] EXCEPT !.prev = NoConnection])
    BY <1>1, <2>2, <2>4 DEF FlowIs
  <2>5. ASSUME NEW h, FlowIs(f, [flow[f] EXCEPT !.drop = @ \ {h}])
        PROVE  flow'[f].replaced = flow[f].replaced /\ flow'[f].pc # "others"
    BY <1>1, <2>3, <2>5 DEF FlowIs
  <2>6. QED
    BY <1>3, <1>6, <2>4, <2>5 DEF LeaveAccount, Tidy
<1>7. QED
  BY <1>4, <1>5, <1>6, FlowsStep, FlowMoves DEF FlowStep, Connects

\* by a use of the vault.
Begins(p, h) == ask'[p] = [pc |-> "read", handle |-> h, seen |-> 0]

LEMMA AskMoves ==
    ASSUME TypeOK, [Next]_vars, NEW p \in Askers
    PROVE  \/ ask'[p] = ask[p]
           \/ /\ ask'[p].pc \in {"none", "works"} /\ ask'[p].handle = 0
              /\ ask'[p].pc = "works" => ask[p].pc # "none"
           \/ Resolves(p) /\ ask'[p].handle = ask[p].handle /\ ask[p].pc \notin {"none", "works"}
           \/ p \in Calls /\ \E a \in Accounts : auth[a] # 0 /\ Begins(p, auth[a])
           \/ p \in Flows /\ ReadOthers(p) /\ flow[p].pc = "others" /\ Begins(p, flow[p].replaced)
<1>1. ask \in [Askers -> AskRow] /\ \A q \in Askers : ask[q] \in AskRow
  BY Types
<1>2. \A q \in Askers : \A r : Asks(q, r) => (p # q => ask'[p] = ask[p]) /\ ask'[q] = r
  BY <1>1 DEF Asks
<1>3. ASSUME NEW q \in Askers, NEW works \in BOOLEAN, Answers(q, works)
      PROVE  /\ p # q => ask'[p] = ask[p]
             /\ \/ ask'[q].pc \in {"none", "works"} /\ ask'[q].handle = 0
                \/ ask'[q].handle = ask[q].handle
  <2>1. [ask[q] EXCEPT !.pc = "ended", !.seen = 0].handle = ask[q].handle
    BY <1>1 DEF AskRow
  <2>2. NoAsk.pc = "none" /\ NoAsk.handle = 0 /\ [NoAsk EXCEPT !.pc = "works"].pc = "works"
        /\ [NoAsk EXCEPT !.pc = "works"].handle = 0
    BY DEF NoAsk
  <2>3. \/ Asks(q, [ask[q] EXCEPT !.pc = "ended", !.seen = 0])
        \/ Asks(q, NoAsk) \/ Asks(q, [NoAsk EXCEPT !.pc = "works"])
    BY <1>3 DEF Answers
  <2>4. QED
    BY <1>2, <2>1, <2>2, <2>3
<1>4. ASSUME NEW q \in Askers, Resolves(q)
      PROVE  /\ p # q => ask'[p] = ask[p]
             /\ \/ ask'[q].pc \in {"none", "works"} /\ ask'[q].handle = 0
                \/ ask'[q].handle = ask[q].handle
             /\ ask[q].pc \notin {"none", "works"}
  <2>1. ask[q].pc \notin {"none", "works"}
    BY <1>4 DEF Resolves, ReadCredential, Request, SaysNothing, Write, Settle
  <2>2. ASSUME NEW pc, Asks(q, [ask[q] EXCEPT !.pc = pc])
        PROVE  (p # q => ask'[p] = ask[p]) /\ ask'[q].handle = ask[q].handle
    BY <1>1, <1>2, <2>2 DEF AskRow
  <2>3. ASSUME NEW pc, NEW n, Asks(q, [ask[q] EXCEPT !.pc = pc, !.seen = n])
        PROVE  (p # q => ask'[p] = ask[p]) /\ ask'[q].handle = ask[q].handle
    <3>1. [ask[q] EXCEPT !.pc = pc, !.seen = n].handle = ask[q].handle
      BY <1>1 DEF AskRow
    <3>2. QED
      BY <1>2, <2>3, <3>1
  <2>4. CASE ReadCredential(q)
    BY <1>3, <2>1, <2>3, <2>4 DEF ReadCredential
  <2>5. CASE Request(q)
    BY <1>3, <2>1, <2>2, <2>5 DEF Request
  <2>6. CASE SaysNothing(q) \/ Write(q)
    BY <1>3, <2>1, <2>6 DEF SaysNothing, Write
  <2>7. CASE Settle(q)
    <3>1. Rotated(ask[q]) \in BOOLEAN
      BY DEF Rotated
    <3>2. QED
      BY <1>3, <2>1, <2>7, <3>1 DEF Settle
  <2>8. QED
    BY <1>4, <2>4, <2>5, <2>6, <2>7 DEF Resolves
<1>5. ASSUME NEW k \in Calls, Calling(k)
      PROVE  /\ p # k => ask'[p] = ask[p]
             /\ \E a \in Accounts : auth[a] # 0 /\ Begins(k, auth[a])
  BY <1>2, <1>5 DEF Calling, Askers, Begins
<1>6. ASSUME NEW f \in Flows, ReadOthers(f)
      PROVE  /\ p # f => ask'[p] = ask[p]
             /\ \/ ask'[f] = ask[f]
                \/ flow[f].pc = "others" /\ Begins(f, flow[f].replaced)
  BY <1>2, <1>6 DEF ReadOthers, At, Askers, Begins
<1>7. ASSUME NEW f \in Flows, Answered(f)
      PROVE  (p # f => ask'[p] = ask[p]) /\ ask'[f].pc = "none" /\ ask'[f].handle = 0
  BY <1>2, <1>7 DEF Answered, NoAsk, Askers
<1>8. ASSUME NEW f \in Flows, FlowStep(f), ~ReadOthers(f), ~Answered(f) PROVE ask' = ask
  BY <1>8 DEF FlowStep, Connects, Return, ReadAuthorization, Store, Activate, Verify, Discard,
     LeaveAccount, Tidy
<1>9. CASE \E t \in Spaces : Leaves(t)
  BY <1>9 DEF Leaves, RevokeConnection, ReadUnused, RevokeGrant, DeleteSpace, Interrupted
<1>10. CASE (\E h \in Handles : Ends(h)) \/ UNCHANGED vars
  BY <1>10 DEF Ends, vars
<1>11. ASSUME NEW q \in Askers, Resolves(q)
       PROVE  \/ ask'[p] = ask[p]
              \/ /\ ask'[p].pc \in {"none", "works"} /\ ask'[p].handle = 0
                 /\ ask[p].pc # "none"
              \/ Resolves(p) /\ ask'[p].handle = ask[p].handle /\ ask[p].pc \notin {"none", "works"}
  BY <1>4, <1>11
<1>12. CASE \E k \in Calls : Calling(k)
  BY <1>5, <1>12
<1>13. CASE \E f \in Flows : FlowStep(f)
  BY <1>6, <1>7, <1>8, <1>13 DEF Askers
<1>14. QED
  BY <1>9, <1>10, <1>11, <1>12, <1>13 DEF Next, FlowStep, Askers

LEMMA NamesStep ==
    ASSUME TypeOK, FreshGrants, NamesAreKnown, [Next]_vars
    PROVE  NamesAreKnown'
<1>1. /\ auth \in [Accounts -> 0..NumHandles] /\ leave \in [Spaces -> LeaveRow]
      /\ flow \in [Flows -> FlowRow] /\ Known \subseteq Known'
  BY Types, KnownStays
<1>2. \A a \in Accounts : /\ auth'[a] # 0 => auth'[a] \in Known'
                          /\ \A b \in Accounts : auth'[a] # 0 /\ auth'[a] = auth'[b] => a = b
  <2>1. CASE LessIsNamed
    BY <1>1, <2>1 DEF LessIsNamed, NamesAreKnown
  <2>2. ASSUME NEW f \in Flows, Connected(f)
        PROVE  \A a \in Accounts : /\ auth'[a] # 0 => auth'[a] \in Known'
                                   /\ \A b \in Accounts : auth'[a] # 0 /\ auth'[a] = auth'[b] => a = b
    <3>1. /\ Bringing(f) /\ flow[f].acct \in Accounts /\ flow[f].handle \in Known'
          /\ auth' = [auth EXCEPT ![flow[f].acct] = flow[f].handle]
      BY <2>2, ConnectedIsKnown DEF Connected
    <3>2. \A a \in Accounts : auth[a] # 0 => auth[a] # flow[f].handle
      BY <3>1 DEF NamesAreKnown, Known
    <3>3. QED
      BY <1>1, <3>1, <3>2 DEF NamesAreKnown
  <2>3. QED
    BY <2>1, <2>2, ConnMoves
<1>3. ASSUME NEW s \in Spaces
      PROVE  /\ leave'[s].handle # 0 => leave'[s].handle \in Known'
             /\ leave'[s].pc = "revoke" => leave'[s].handle # 0
             /\ leave'[s].pc \in {"unused", "revoke", "delete"} => leave'[s].acct \in Accounts
  <2>1. CASE ReadUnused(s)
    <3>1. leave[s].pc = "unused" /\ leave[s].acct \in Accounts /\ leave[s] \in LeaveRow
      BY <1>1, <2>1 DEF ReadUnused, NamesAreKnown
    <3>2. PICK h \in {0, auth[leave[s].acct]} :
              leave'[s] = [leave[s] EXCEPT !.handle = h, !.pc = IF h = 0 THEN "delete" ELSE "revoke"]
      BY <1>1, <2>1 DEF ReadUnused, LeaveIs, UnusedAuthorization
    <3>3. leave'[s].handle = h /\ leave'[s].acct = leave[s].acct /\ (h = 0 => leave'[s].pc = "delete")
      BY <3>1, <3>2 DEF LeaveRow
    <3>4. QED
      BY <1>1, <3>1, <3>2, <3>3 DEF NamesAreKnown
  <2>2. CASE ~ReadUnused(s)
    BY <1>1, <2>2, LeaveMoves DEF NamesAreKnown
  <2>3. QED
    BY <2>1, <2>2
<1>4. ASSUME NEW f \in Flows
      PROVE  /\ flow'[f].replaced # 0 => flow'[f].replaced \in Known'
             /\ flow'[f].pc = "others" => flow'[f].replaced # 0
  <2>1. CASE ReadAuthorization(f)
    <3>1. flow[f].acct \in Accounts /\ flow[f] \in FlowRow
      BY <1>1, <2>1 DEF ReadAuthorization, At, Bringing, FreshGrants
    <3>2. PICK pc, d : /\ flow'[f] = [flow[f] EXCEPT !.replaced = auth[flow[f].acct], !.drop = d, !.pc = pc]
                       /\ auth[flow[f].acct] = 0 => pc = "store"
      BY <1>1, <2>1 DEF ReadAuthorization, FlowIs
    <3>3. flow'[f].replaced = auth[flow[f].acct] /\ flow'[f].pc = pc
      BY <3>1, <3>2 DEF FlowRow
    <3>4. QED
      BY <1>1, <3>1, <3>2, <3>3 DEF NamesAreKnown
  <2>2. CASE ~ReadAuthorization(f)
    BY <1>1, <2>2, ReplacedMoves DEF NamesAreKnown
  <2>3. QED
    BY <2>1, <2>2
<1>5. ASSUME NEW p \in Askers
      PROVE  /\ ask'[p].handle # 0 => ask'[p].handle \in Known'
             /\ ask'[p].pc \notin {"none", "works"} => ask'[p].handle # 0
  <2>1. /\ ask[p].handle # 0 => ask[p].handle \in Known'
        /\ ask[p].pc \notin {"none", "works"} => ask[p].handle # 0
    BY <1>1 DEF NamesAreKnown, Askers
  <2>2. \A h : Begins(p, h) => ask'[p].handle = h
    BY DEF Begins
  <2>3. CASE p \in Flows /\ flow[p].pc = "others" /\ Begins(p, flow[p].replaced)
    BY <1>1, <2>2, <2>3 DEF NamesAreKnown
  <2>4. CASE \E a \in Accounts : auth[a] # 0 /\ Begins(p, auth[a])
    BY <1>1, <2>2, <2>4 DEF NamesAreKnown
  <2>5. QED
    BY <2>1, <2>3, <2>4, AskMoves
<1>6. QED
  BY <1>2, <1>3, <1>4, <1>5 DEF NamesAreKnown, Askers

\* What becomes of a grant at Cloudflare.
Rotates(p) ==
    LET q == ask[p] IN
    /\ Request(p) /\ Accepts(q) /\ q.seen < MaxTokens
    /\ grant' = [grant EXCEPT ![q.handle].token = q.seen + 1]
    /\ UNCHANGED vault /\ VaultSame

LEMMA GrantMoves ==
    ASSUME TypeOK, NamesAreKnown, [Next]_vars
    PROVE  \/ \E p \in Askers : Rotates(p)
           \/ /\ \A h \in Handles : grant'[h].token = grant[h].token
              /\ \A h \in Handles : grant[h].state # "alive" => grant'[h].state # "alive"
              /\ \A h \in Handles : grant'[h].state = "revoked" =>
                    \/ grant[h].state = "revoked"
                    \/ /\ UNCHANGED <<conn, auth>>
                       /\ \E s \in Spaces : leave[s].pc = "revoke" /\ leave[s].handle = h
<1>1. grant \in [Handles -> Grant] /\ leave \in [Spaces -> LeaveRow]
  BY Types
<1>2. ASSUME NEW k \in Handles, NEW state, state # "alive",
             grant' = [grant EXCEPT ![k].state = state],
             \/ state # "revoked"
             \/ /\ UNCHANGED <<conn, auth>>
                /\ \E s \in Spaces : leave[s].pc = "revoke" /\ leave[s].handle = k
      PROVE  /\ \A h \in Handles : grant'[h].token = grant[h].token
             /\ \A h \in Handles : grant[h].state # "alive" => grant'[h].state # "alive"
             /\ \A h \in Handles : grant'[h].state = "revoked" =>
                   \/ grant[h].state = "revoked"
                   \/ /\ UNCHANGED <<conn, auth>>
                      /\ \E s \in Spaces : leave[s].pc = "revoke" /\ leave[s].handle = h
  <2>1. \A h \in Handles : h # k => grant'[h] = grant[h]
    BY <1>1, <1>2
  <2>2. grant'[k].token = grant[k].token /\ grant'[k].state = state
    BY <1>1, <1>2 DEF Grant
  <2>3. QED
    BY <1>2, <2>1, <2>2
<1>3. CASE UNCHANGED grant
  BY <1>3
<1>4. CASE \E k \in Handles : Ends(k)
  BY <1>2, <1>4 DEF Ends
<1>5. ASSUME NEW s \in Spaces, RevokeGrant(s), ~UNCHANGED grant
      PROVE  /\ UNCHANGED <<conn, auth>> /\ leave[s].pc = "revoke" /\ leave[s].handle \in Handles
             /\ grant' = [grant EXCEPT ![leave[s].handle].state = "revoked"]
  <2>1. leave[s].handle # 0 /\ leave[s].handle \in 0..NumHandles
    BY <1>1, <1>5 DEF RevokeGrant, NamesAreKnown, LeaveRow
  <2>2. leave[s].handle \in Handles
    BY <2>1, Constants DEF Handles
  <2>3. QED
    BY <1>5, <2>2 DEF RevokeGrant
<1>6. CASE \E s \in Spaces : RevokeGrant(s)
  BY <1>2, <1>3, <1>5, <1>6
<1>7. ASSUME NEW p \in Askers, Request(p) PROVE Rotates(p) \/ UNCHANGED grant
  BY <1>7 DEF Request, Rotates
<1>8. ASSUME ~ \E k \in Handles : Ends(k), ~ \E s \in Spaces : RevokeGrant(s),
             ~ \E p \in Askers : Request(p)
      PROVE  UNCHANGED grant
  <2>1. CASE \E f \in Flows : FlowStep(f)
    BY <2>1 DEF FlowStep, Connects, Return, ReadAuthorization, ReadOthers, Answered, Store,
       Activate, Verify, Discard, LeaveAccount, Tidy, FlowSame
  <2>2. CASE \E p \in Askers : ReadCredential(p) \/ SaysNothing(p) \/ Write(p) \/ Settle(p)
    BY <2>2 DEF ReadCredential, SaysNothing, Write, Settle, VaultSame
  <2>3. CASE \E s \in Spaces : RevokeConnection(s) \/ ReadUnused(s) \/ DeleteSpace(s) \/ Interrupted(s)
    BY <2>3 DEF RevokeConnection, ReadUnused, DeleteSpace, Interrupted
  <2>4. CASE (\E k \in Calls : Calling(k)) \/ UNCHANGED vars
    BY <2>4 DEF Calling, vars
  <2>5. QED
    BY <1>8, <2>1, <2>2, <2>3, <2>4 DEF Next, FlowStep, Askers, Resolves, Leaves
<1>9. QED
  BY <1>3, <1>4, <1>6, <1>7, <1>8

LEMMA RotatesKeeps ==
    ASSUME TypeOK, NEW p \in Askers, Rotates(p)
    PROVE  \A h \in Handles : /\ grant'[h].state = grant[h].state
                              /\ h # ask[p].handle => grant'[h] = grant[h]
                              /\ h = ask[p].handle => grant'[h].token = ask[p].seen + 1
<1>1. grant \in [Handles -> Grant]
  BY Types
<1>2. QED
  BY <1>1 DEF Rotates, Grant

LEMMA UseStep ==
    ASSUME TypeOK, UseInv, [Next]_vars
    PROVE  UseInv'
<1>1. FreshGrants /\ NamesAreKnown /\ RevokedAreKnown /\ UnusedStaysUnused
      /\ ActiveSpacesKeepTheirGrant
  BY DEF UseInv
<1>2. FreshGrants' /\ NamesAreKnown' /\ Known \subseteq Known'
  BY <1>1, FreshStep, NamesStep, KnownStays
<1>3. /\ conn \in [Spaces -> Connection] /\ auth \in [Accounts -> 0..NumHandles]
      /\ leave \in [Spaces -> LeaveRow]
      /\ \A s \in Spaces : conn[s].active => conn[s].acct \in Accounts
      /\ \A a \in Accounts : auth[a] # 0 => auth[a] \in Handles
  BY <1>1, Types, Constants DEF FreshGrants, Handles
<1>4. ASSUME NEW h \in Handles, grant'[h].state = "revoked"
      PROVE  \/ grant[h].state = "revoked"
             \/ /\ UNCHANGED <<conn, auth>>
                /\ \E s \in Spaces : leave[s].pc = "revoke" /\ leave[s].handle = h
  BY <1>1, <1>4, GrantMoves, RotatesKeeps
<1>5. RevokedAreKnown'
  BY <1>1, <1>2, <1>4 DEF RevokedAreKnown, NamesAreKnown
\* The connection that an activation writes names the grant it brought.
<1>6. ASSUME NEW t \in Spaces, conn'[t].active
      PROVE  \/ /\ conn[t].active /\ conn'[t] = conn[t]
                /\ auth'[conn[t].acct] = auth[conn[t].acct]
             \/ \E f \in Flows : Connected(f) /\ auth'[conn'[t].acct] = flow[f].handle
  <2>1. CASE LessIsNamed
    BY <1>6, <2>1 DEF LessIsNamed
  <2>2. ASSUME NEW f \in Flows, Connected(f)
        PROVE  \/ /\ conn[t].active /\ conn'[t] = conn[t]
                  /\ auth'[conn[t].acct] = auth[conn[t].acct]
               \/ auth'[conn'[t].acct] = flow[f].handle
    <3>1. flow[f].space \in Spaces /\ flow[f].acct \in Accounts
          /\ auth'[flow[f].acct] = flow[f].handle /\ Activated(f).acct = flow[f].acct
      BY <1>1, <1>3, <2>2, ConnectedIsKnown DEF Connected, Activated
    <3>2. CASE t = flow[f].space
      BY <1>3, <2>2, <3>1, <3>2 DEF Connected
    <3>3. CASE t # flow[f].space
      BY <1>3, <1>6, <2>2, <3>1, <3>3 DEF Connected
    <3>4. QED
      BY <3>2, <3>3
  <2>3. QED
    BY <1>1, <2>1, <2>2, ConnMoves
<1>7. ASSUME NEW s \in Spaces, NEW t \in Spaces, leave'[s].handle # 0, conn'[t].active
      PROVE  auth'[conn'[t].acct] # leave'[s].handle
  <2>1. ASSUME NEW f \in Flows, Connected(f) PROVE leave'[s].handle # flow[f].handle
    <3>1. leave' = leave /\ Bringing(f)
      BY <1>1, <2>1, ConnectedIsKnown DEF Connected, Activate
    <3>2. leave[s].handle \in Known
      BY <1>1, <1>7, <3>1 DEF NamesAreKnown
    <3>3. QED
      BY <3>1, <3>2 DEF Known
  <2>2. CASE /\ conn[t].active /\ conn'[t] = conn[t]
             /\ auth'[conn[t].acct] = auth[conn[t].acct]
    <3>1. CASE leave'[s].handle = leave[s].handle
      BY <1>1, <1>7, <2>2, <3>1 DEF UnusedStaysUnused
    <3>2. CASE ReadUnused(s)
      <4>1. leave[s].pc = "unused" /\ leave[s].acct \in Accounts /\ leave[s] \in LeaveRow
        BY <1>1, <1>3, <3>2 DEF ReadUnused, NamesAreKnown
      <4>2. leave'[s].handle = UnusedAuthorization(leave[s].acct)
        BY <1>3, <3>2, <4>1 DEF ReadUnused, LeaveIs, LeaveRow
      <4>3. ActiveIn(leave[s].acct) = {} /\ leave'[s].handle = auth[leave[s].acct]
        BY <1>7, <4>2 DEF UnusedAuthorization
      <4>4. conn[t].acct # leave[s].acct
        BY <2>2, <4>3 DEF ActiveIn
      <4>5. QED
        BY <1>1, <1>3, <1>7, <2>2, <4>1, <4>3, <4>4 DEF NamesAreKnown
    <3>3. QED
      BY <1>7, <3>1, <3>2, LeaveMoves
  <2>3. QED
    BY <1>6, <1>7, <2>1, <2>2
<1>8. ASSUME NEW t \in Spaces, conn'[t].active
      PROVE  auth'[conn'[t].acct] # 0 /\ grant'[auth'[conn'[t].acct]].state # "revoked"
  <2>1. CASE /\ conn[t].active /\ conn'[t] = conn[t]
             /\ auth'[conn[t].acct] = auth[conn[t].acct]
    <3>1. auth[conn[t].acct] \in Handles /\ grant[auth[conn[t].acct]].state # "revoked"
      BY <1>1, <1>3, <2>1 DEF ActiveSpacesKeepTheirGrant
    <3>2. ASSUME NEW s \in Spaces, leave[s].pc = "revoke" PROVE leave[s].handle # auth[conn[t].acct]
      BY <1>1, <2>1, <3>2 DEF UnusedStaysUnused, NamesAreKnown
    <3>3. QED
      BY <1>1, <1>4, <2>1, <3>1, <3>2 DEF ActiveSpacesKeepTheirGrant
  <2>2. ASSUME NEW f \in Flows, Connected(f)
        PROVE  flow[f].handle # 0 /\ grant'[flow[f].handle].state # "revoked"
    <3>1. Bringing(f) /\ flow[f].handle # 0 /\ grant' = grant
      BY <1>1, <2>2, ConnectedIsKnown DEF Connected, Activate
    <3>2. flow[f].handle \notin Known /\ flow[f].handle \in Handles
      BY <1>1, <3>1, Types, Constants DEF Known, Handles, FlowRow
    <3>3. QED
      BY <1>1, <3>1, <3>2 DEF RevokedAreKnown
  <2>3. QED
    BY <1>6, <1>8, <2>1, <2>2
<1>9. QED
  BY <1>2, <1>5, <1>7, <1>8 DEF UseInv, UnusedStaysUnused, ActiveSpacesKeepTheirGrant

-----------------------------------------------------------------------------
(* The vault.                                                                 *)

\* What is stored becomes less, or a return stores its grant, or a rotation is.
LEMMA VaultMoves ==
    ASSUME TypeOK, [Next]_vars
    PROVE  \/ \A h \in Handles : vault'[h] \in {0, vault[h]}
           \/ \E f \in Flows : Store(f)
           \/ \E p \in Askers : Write(p)
<1>1. vault \in [Handles -> 0..MaxTokens]
  BY Types
<1>2. UNCHANGED vault => \A h \in Handles : vault'[h] \in {0, vault[h]}
  OBVIOUS
<1>3. ASSUME NEW h, NEW au, vault' = DeleteUnusedCredential(h, au)
      PROVE  \A g \in Handles : vault'[g] \in {0, vault[g]}
  BY <1>1, <1>3 DEF DeleteUnusedCredential
<1>4. CASE \E s \in Spaces : Leaves(s)
  BY <1>2, <1>3, <1>4 DEF Leaves, RevokeConnection, ReadUnused, RevokeGrant, DeleteSpace, Interrupted
<1>5. CASE \E f \in Flows : Discard(f) \/ Tidy(f)
  BY <1>2, <1>3, <1>5 DEF Discard, Tidy
<1>6. ASSUME NEW f \in Flows, FlowStep(f), ~Discard(f), ~Tidy(f), ~Store(f) PROVE UNCHANGED vault
  BY <1>6 DEF FlowStep, Connects, Return, ReadAuthorization, ReadOthers, Answered, Activate,
     Verify, LeaveAccount, FlowSame
<1>7. CASE \E p \in Askers : ReadCredential(p) \/ Request(p) \/ SaysNothing(p) \/ Settle(p)
  BY <1>2, <1>7 DEF ReadCredential, Request, SaysNothing, Settle
<1>8. CASE (\E k \in Calls : Calling(k)) \/ (\E h \in Handles : Ends(h)) \/ UNCHANGED vars
  BY <1>2, <1>8 DEF Calling, Ends, vars
<1>9. QED
  BY <1>2, <1>4, <1>5, <1>6, <1>7, <1>8 DEF Next, FlowStep, Askers, Resolves

\* A use of the vault, one step on.
LEMMA AnswersMoves ==
    ASSUME TypeOK, NEW q \in Askers, NEW works \in BOOLEAN, Answers(q, works)
    PROVE  /\ \A p \in Askers : p # q => ask'[p] = ask[p]
           /\ ask'[q].pc \in {"none", "works", "ended"}
           /\ ask'[q].pc = "ended" => ~works /\ ask'[q].handle = ask[q].handle
           /\ ask'[q].pc \in {"none", "works"} => ask'[q].handle = 0
           /\ ask'[q] \in AskRow
<1>1. ask \in [Askers -> AskRow] /\ ask[q] \in AskRow
  BY Types
<1>2. 0 \in 0..MaxTokens
  BY Constants
<1>3. ASSUME NEW r, Asks(q, r) PROVE (\A p \in Askers : p # q => ask'[p] = ask[p]) /\ ask'[q] = r
  BY <1>1, <1>3 DEF Asks
<1>4. CASE ~works
  <2>1. LET r == [ask[q] EXCEPT !.pc = "ended", !.seen = 0] IN
        r.pc = "ended" /\ r.handle = ask[q].handle /\ r \in AskRow
    BY <1>1, <1>2 DEF AskRow
  <2>2. Asks(q, [ask[q] EXCEPT !.pc = "ended", !.seen = 0])
    BY <1>4 DEF Answers
  <2>3. QED
    BY <1>3, <1>4, <2>1, <2>2
<1>5. CASE works
  <2>1. LET r == [NoAsk EXCEPT !.pc = "works"] IN r.pc = "works" /\ r.handle = 0 /\ r \in AskRow
    BY Constants DEF AskRow, NoAsk
  <2>2. NoAsk.pc = "none" /\ NoAsk.handle = 0 /\ NoAsk \in AskRow
    BY Constants DEF NoAsk
  <2>3. Asks(q, NoAsk) \/ Asks(q, [NoAsk EXCEPT !.pc = "works"])
    BY <1>5 DEF Answers
  <2>4. QED
    BY <1>3, <2>1, <2>2, <2>3
<1>6. QED
  BY <1>4, <1>5

\* The uses of the vault that no step but their own moves.
Waits(p) == ask[p].pc \in {"request", "write", "settle"}

AsksOn(q, pc, seen) ==
    /\ \A p \in Askers : p # q => ask'[p] = ask[p]
    /\ ask'[q].pc = pc /\ ask'[q].seen = seen /\ ask'[q].handle = ask[q].handle
    /\ ask'[q] \in AskRow

LEMMA AsksMoves ==
    ASSUME TypeOK, NEW q \in Askers, NEW pc \in {"request", "write", "settle"}
    PROVE  /\ \A n \in 0..MaxTokens :
                Asks(q, [ask[q] EXCEPT !.pc = pc, !.seen = n]) => AsksOn(q, pc, n)
           /\ Asks(q, [ask[q] EXCEPT !.pc = pc]) => AsksOn(q, pc, ask[q].seen)
<1>1. ask \in [Askers -> AskRow] /\ ask[q] \in AskRow
  BY Types
<1>2. \A n \in 0..MaxTokens : LET r == [ask[q] EXCEPT !.pc = pc, !.seen = n] IN
      r.pc = pc /\ r.seen = n /\ r.handle = ask[q].handle /\ r \in AskRow
  BY <1>1 DEF AskRow
<1>3. LET r == [ask[q] EXCEPT !.pc = pc] IN
      r.pc = pc /\ r.seen = ask[q].seen /\ r.handle = ask[q].handle /\ r \in AskRow
  BY <1>1 DEF AskRow
<1>4. \A r : Asks(q, r) => (\A p \in Askers : p # q => ask'[p] = ask[p]) /\ ask'[q] = r
  BY <1>1 DEF Asks
<1>5. ASSUME NEW n \in 0..MaxTokens, Asks(q, [ask[q] EXCEPT !.pc = pc, !.seen = n])
      PROVE  AsksOn(q, pc, n)
  <2>1. ask'[q] = [ask[q] EXCEPT !.pc = pc, !.seen = n]
    BY <1>4, <1>5, Zenon
  <2>2. QED
    BY <1>2, <1>4, <1>5, <2>1 DEF AsksOn
<1>6. ASSUME Asks(q, [ask[q] EXCEPT !.pc = pc]) PROVE AsksOn(q, pc, ask[q].seen)
  <2>1. ask'[q] = [ask[q] EXCEPT !.pc = pc]
    BY <1>4, <1>6, Zenon
  <2>2. QED
    BY <1>3, <1>4, <1>6, <2>1 DEF AsksOn
<1>7. QED
  BY <1>5, <1>6

\* The two ways a step of q leaves the others' uses, and the numbers they rest on.
LEMMA RefreshStep ==
    ASSUME TypeOK, UseInv, RefreshInv, [Next]_vars
    PROVE  RefreshInv'
<1>1. /\ vault \in [Handles -> 0..MaxTokens] /\ grant \in [Handles -> Grant]
      /\ ask \in [Askers -> AskRow] /\ MaxTokens \in Nat
      /\ \A h \in Handles : vault[h] \in Nat /\ grant[h].token \in Nat /\ grant[h].token >= 1
  BY Types, Constants DEF Grant
<1>2. \A p \in Askers : ask[p].pc \notin {"none", "works"} =>
         ask[p].handle \in Known /\ ask[p].handle \in Handles
  BY Types, Constants DEF UseInv, NamesAreKnown, Askers, Handles, AskRow
<1>3. \A p \in Askers : ask[p].seen \in Nat
  BY <1>1 DEF AskRow
\* Nothing but a step of its own makes a use of the vault wait with what it saw.
<1>4. ASSUME \A p \in Askers : Waits(p)' => ask'[p] = ask[p],
             \A h \in Handles : vault'[h] <= grant'[h].token,
             \A p \in Askers : Waits(p) =>
                LET h == ask[p].handle IN
                \/ vault'[h] = 0
                \/ /\ vault'[h] = vault[h] /\ grant'[h].token = grant[h].token
                   /\ grant[h].state # "alive" => grant'[h].state # "alive"
      PROVE  RefreshInv'
  BY <1>1, <1>2, <1>3, <1>4 DEF RefreshInv, Seen, Waits, Askers
<1>5. ASSUME NEW q \in Askers, NEW pc \in {"request", "settle"}, NEW n \in Nat \ {0},
             AsksOn(q, pc, n), UNCHANGED <<vault, grant>>, ask[q].pc \notin {"none", "works"},
             LET h == ask[q].handle IN
             \/ vault[h] = 0
             \/ n <= vault[h] /\ (pc = "settle" => grant[h].state # "alive" \/ n < grant[h].token)
      PROVE  RefreshInv'
  <2>1. ASSUME NEW p \in Askers, Waits(p)'
        PROVE  ask'[p].seen # 0 /\ (vault'[ask'[p].handle] = 0 \/ Seen(p)')
    <3>1. CASE p = q
      BY <1>2, <1>5, <3>1 DEF AsksOn, Seen
    <3>2. CASE p # q
      BY <1>5, <2>1, <3>2 DEF AsksOn, Seen, RefreshInv, Waits, Askers
    <3>3. QED
      BY <3>1, <3>2
  <2>2. \A p \in Askers : ask'[p].pc = "write" => ask'[p] = ask[p]
    BY <1>5 DEF AsksOn
  <2>3. QED
    BY <1>5, <2>1, <2>2 DEF RefreshInv, Waits, Askers
<1>6. ASSUME ~ \E q \in Askers : Resolves(q), ~ \E f \in Flows : Store(f) PROVE RefreshInv'
  <2>1. ASSUME NEW p \in Askers, Waits(p)' PROVE ask'[p] = ask[p]
    <3>1. \A h : Begins(p, h) => ask'[p].pc = "read"
      BY DEF Begins
    <3>2. QED
      BY <1>6, <2>1, <3>1, AskMoves DEF Waits
  <2>2. \A h \in Handles : vault'[h] \in {0, vault[h]}
    BY <1>6, VaultMoves DEF Resolves
  <2>3. \A h \in Handles : /\ grant'[h].token = grant[h].token
                           /\ grant[h].state # "alive" => grant'[h].state # "alive"
    BY <1>6, GrantMoves DEF UseInv, Resolves, Rotates
  <2>4. \A h \in Handles : vault[h] <= grant[h].token
    BY DEF RefreshInv
  <2>5. \A h \in Handles : vault'[h] <= grant'[h].token
    BY <1>1, <2>2, <2>3, <2>4
  <2>6. \A p \in Askers : Waits(p) => ask[p].handle \in Handles
    BY <1>2 DEF Waits
  <2>7. QED
    BY <1>4, <2>1, <2>2, <2>3, <2>5, <2>6
<1>7. ASSUME NEW f \in Flows, Store(f) PROVE RefreshInv'
  <2>1. /\ flow[f].handle \notin Known /\ UNCHANGED <<ask, grant>>
        /\ vault' = [vault EXCEPT ![flow[f].handle] = 1]
    BY <1>7 DEF Store, At, Bringing, Known
  <2>2. \A p \in Askers : Waits(p) => ask[p].handle \in Handles /\ ask[p].handle # flow[f].handle
    BY <1>2, <2>1 DEF Waits
  <2>3. \A h \in Handles : vault'[h] <= grant'[h].token
    BY <1>1, <2>1 DEF RefreshInv
  <2>4. QED
    BY <1>1, <1>4, <2>1, <2>2, <2>3
<1>8. ASSUME NEW q \in Askers, NEW works \in BOOLEAN, Answers(q, works), UNCHANGED <<vault, grant>>
      PROVE  RefreshInv'
  <2>1. \A p \in Askers : Waits(p)' => ask'[p] = ask[p]
    BY <1>8, AnswersMoves DEF Waits
  <2>2. \A p \in Askers : Waits(p) => ask[p].handle \in Handles
    BY <1>2 DEF Waits
  <2>3. QED
    BY <1>4, <1>8, <2>1, <2>2 DEF RefreshInv
<1>9. ASSUME NEW q \in Askers, ReadCredential(q) PROVE RefreshInv'
  <2>1. ask[q].pc = "read" /\ UNCHANGED <<vault, grant>> /\ ask[q].handle \in Handles
    BY <1>2, <1>9 DEF ReadCredential
  <2>2. CASE Answers(q, TRUE) \/ Answers(q, FALSE)
    BY <1>8, <2>1, <2>2
  <2>3. CASE ~(Answers(q, TRUE) \/ Answers(q, FALSE))
    <3>1. /\ vault[ask[q].handle] # 0 /\ vault[ask[q].handle] \in 0..MaxTokens
          /\ Asks(q, [ask[q] EXCEPT !.pc = "request", !.seen = vault[ask[q].handle]])
      BY <1>1, <1>9, <2>1, <2>3 DEF ReadCredential
    <3>2. AsksOn(q, "request", vault[ask[q].handle])
      BY <3>1, AsksMoves
    <3>3. vault[ask[q].handle] \in Nat \ {0} /\ vault[ask[q].handle] <= vault[ask[q].handle]
      BY <1>1, <2>1, <3>1
    <3>4. QED
      BY <1>5, <2>1, <3>2, <3>3
  <2>4. QED
    BY <2>2, <2>3
<1>10. ASSUME NEW q \in Askers, Request(q), ~Rotates(q) PROVE RefreshInv'
  <2>1. /\ ask[q].pc = "request" /\ UNCHANGED <<vault, grant>> /\ ~Accepts(ask[q])
        /\ ask[q].handle \in Handles
        /\ Answers(q, TRUE) \/ Asks(q, [ask[q] EXCEPT !.pc = "settle"])
    BY <1>2, <1>10 DEF Request, Rotates
  <2>2. CASE Answers(q, TRUE)
    BY <1>8, <2>1, <2>2
  <2>3. CASE Asks(q, [ask[q] EXCEPT !.pc = "settle"])
    <3>1. AsksOn(q, "settle", ask[q].seen)
      BY <1>1, <2>3, AsksMoves, Constants
    <3>2. ask[q].seen \in Nat \ {0} /\ (vault[ask[q].handle] = 0 \/ Seen(q))
      BY <1>3, <2>1 DEF RefreshInv, Askers
    <3>3. vault[ask[q].handle] # 0 => /\ ask[q].seen <= vault[ask[q].handle]
                                      /\ \/ grant[ask[q].handle].state # "alive"
                                         \/ ask[q].seen < grant[ask[q].handle].token
      BY <1>1, <2>1, <3>2 DEF Seen, Accepts, RefreshInv
    <3>4. QED
      BY <1>5, <2>1, <3>1, <3>2, <3>3
  <2>4. QED
    BY <2>1, <2>2, <2>3
<1>11. ASSUME NEW q \in Askers, Rotates(q) PROVE RefreshInv'
  <2> DEFINE h == ask[q].handle
  <2>1. /\ ask[q].pc = "request" /\ UNCHANGED vault /\ h \in Handles
        /\ grant[h].token = ask[q].seen /\ grant[h].state = "alive"
        /\ Asks(q, [ask[q] EXCEPT !.pc = "write"]) \/ Answers(q, TRUE)
    BY <1>2, <1>11 DEF Request, Rotates, Accepts
  <2>2. vault[h] # 0 => vault[h] = ask[q].seen
    <3>1. vault[h] # 0 => ask[q].seen <= vault[h]
      BY <2>1 DEF RefreshInv, Seen, Askers
    <3>2. vault[h] <= grant[h].token /\ vault[h] \in Nat /\ ask[q].seen \in Nat
      BY <1>1, <1>3, <2>1 DEF RefreshInv
    <3>3. QED
      BY <2>1, <3>1, <3>2
  <2>3. \A g \in Handles : /\ grant'[g].state = grant[g].state
                           /\ g # h => grant'[g] = grant[g]
                           /\ g = h => grant'[g].token = ask[q].seen + 1
    BY <1>11, RotatesKeeps
  <2>4. \A g \in Handles : vault'[g] <= grant'[g].token
    BY <1>1, <1>3, <2>1, <2>3 DEF RefreshInv
  <2>5. ASSUME NEW p \in Askers, p # q, ask[p].pc = "write", ask[p].handle = h PROVE vault[h] = 0
    BY <1>1, <1>3, <2>1, <2>2, <2>5 DEF RefreshInv, Seen, Askers
  <2>6. \A p \in Askers : p # q => ask'[p] = ask[p]
    BY <2>1, AsksMoves, AnswersMoves, Constants DEF AsksOn
  <2>7. \/ ask'[q].pc \in {"none", "works", "ended"}
        \/ ask'[q].pc = "write" /\ ask'[q].handle = h /\ ask'[q].seen = ask[q].seen
    BY <2>1, AsksMoves, AnswersMoves, Constants DEF AsksOn
  <2>8. ASSUME NEW p \in Askers, Waits(p)'
        PROVE  ask'[p].seen # 0 /\ (vault'[ask'[p].handle] = 0 \/ Seen(p)')
    <3>1. CASE p = q
      <4>1. ask'[q].pc = "write" /\ ask'[q].handle = h /\ ask'[q].seen = ask[q].seen
        BY <2>7, <2>8, <3>1 DEF Waits
      <4>2. ask[q].seen # 0
        BY <2>1 DEF RefreshInv, Askers
      <4>3. QED
        BY <1>3, <2>1, <2>2, <2>3, <3>1, <4>1, <4>2 DEF Seen
    <3>2. CASE p # q
      <4>1. ask'[p] = ask[p] /\ Waits(p) /\ ask[p].handle \in Handles
        BY <1>2, <2>6, <2>8, <3>2 DEF Waits
      <4>2. ask[p].seen # 0 /\ (vault[ask[p].handle] = 0 \/ Seen(p))
        BY <4>1 DEF RefreshInv, Waits, Askers
      <4>3. CASE ask[p].handle # h
        BY <2>1, <2>3, <4>1, <4>2, <4>3 DEF Seen
      <4>4. CASE ask[p].handle = h
        BY <1>1, <1>3, <2>1, <2>2, <2>3, <2>5, <3>2, <4>1, <4>2, <4>4 DEF Seen, Waits
      <4>5. QED
        BY <4>3, <4>4
    <3>3. QED
      BY <3>1, <3>2
  <2>9. ASSUME NEW p \in Askers, NEW r \in Askers, ask'[p].pc = "write", ask'[r].pc = "write",
               ask'[p].handle = ask'[r].handle
        PROVE  p = r \/ vault'[ask'[p].handle] = 0
    BY <2>1, <2>5, <2>6, <2>7, <2>9 DEF RefreshInv, Askers
  <2>10. QED
    BY <2>4, <2>8, <2>9 DEF RefreshInv, Waits, Askers
<1>12. ASSUME NEW q \in Askers, Write(q) PROVE RefreshInv'
  <2> DEFINE h == ask[q].handle
  <2>1. /\ ask[q].pc = "write" /\ h \in Handles /\ Answers(q, TRUE) /\ UNCHANGED grant
        /\ \/ UNCHANGED vault
           \/ vault[h] = ask[q].seen /\ vault' = [vault EXCEPT ![h] = ask[q].seen + 1]
    BY <1>2, <1>12 DEF Write
  <2>2. CASE UNCHANGED vault
    BY <1>8, <2>1, <2>2
  <2>3. CASE vault[h] = ask[q].seen /\ vault' = [vault EXCEPT ![h] = ask[q].seen + 1]
    <3>1. vault[h] # 0 /\ Seen(q)
      BY <1>3, <2>1, <2>3 DEF RefreshInv, Askers
    <3>2. /\ \A g \in Handles : g # h => vault'[g] = vault[g]
          /\ vault'[h] = vault[h] + 1 /\ grant[h].token = vault[h] + 1
      BY <1>1, <2>1, <2>3, <3>1 DEF Seen
    <3>3. \A g \in Handles : vault'[g] <= grant'[g].token
      BY <1>1, <2>1, <3>2 DEF RefreshInv
    <3>4. ASSUME NEW p \in Askers, Waits(p)'
          PROVE  ask'[p].seen # 0 /\ (vault'[ask'[p].handle] = 0 \/ Seen(p)')
      <4>1. p # q /\ ask'[p] = ask[p] /\ Waits(p) /\ ask[p].handle \in Handles
        BY <1>2, <2>1, <3>4, AnswersMoves DEF Waits
      <4>2. ask[p].seen # 0 /\ (vault[ask[p].handle] = 0 \/ Seen(p))
        BY <4>1 DEF RefreshInv, Waits, Askers
      <4>3. CASE ask[p].handle # h
        BY <2>1, <3>2, <4>1, <4>2, <4>3 DEF Seen
      <4>4. CASE ask[p].handle = h
        <5>1. ask[p].pc # "write"
          BY <2>1, <3>1, <4>1, <4>4 DEF RefreshInv, Askers
        <5>2. QED
          BY <1>1, <1>3, <2>1, <3>1, <3>2, <4>1, <4>2, <4>4, <5>1 DEF Seen
      <4>5. QED
        BY <4>3, <4>4
    <3>5. \A p \in Askers : ask'[p].pc = "write" => ask'[p] = ask[p] /\ p # q
      BY <2>1, AnswersMoves
    <3>6. ASSUME NEW p \in Askers, NEW r \in Askers, ask'[p].pc = "write", ask'[r].pc = "write",
                 ask'[p].handle = ask'[r].handle
          PROVE  p = r \/ vault'[ask'[p].handle] = 0
      <4>1. CASE ask[p].handle # h
        BY <1>2, <3>2, <3>5, <3>6, <4>1 DEF RefreshInv, Askers
      <4>2. CASE ask[p].handle = h
        BY <2>1, <3>1, <3>5, <3>6, <4>2 DEF RefreshInv, Askers
      <4>3. QED
        BY <4>1, <4>2
    <3>7. QED
      BY <3>3, <3>4, <3>6 DEF RefreshInv, Waits, Askers
  <2>4. QED
    BY <2>1, <2>2, <2>3
<1>13. ASSUME NEW q \in Askers, SaysNothing(q) \/ Settle(q) PROVE RefreshInv'
  <2>1. Rotated(ask[q]) \in BOOLEAN
    BY DEF Rotated
  <2>2. QED
    BY <1>8, <1>13, <2>1 DEF SaysNothing, Settle
<1>14. QED
  BY <1>6, <1>7, <1>9, <1>10, <1>11, <1>12, <1>13 DEF Resolves

-----------------------------------------------------------------------------
(* Type correctness.                                                          *)

LEMMA StatementTypes ==
    ASSUME TypeOK
    PROVE  /\ \A h, au : DeleteUnusedCredential(h, au) \in [Handles -> 0..MaxTokens]
           /\ \A a, cs : DeleteUnusedAuthorization(a, cs) \in [Accounts -> 0..NumHandles]
           /\ \A f \in Flows, r \in FlowRow : FlowIs(f, r) => flow' \in [Flows -> FlowRow]
           /\ \A f \in Flows : Over(f) => flow' \in [Flows -> FlowRow]
           /\ \A p \in Askers, r \in AskRow : Asks(p, r) => ask' \in [Askers -> AskRow]
           /\ \A s \in Spaces, l \in LeaveRow : LeaveIs(s, l) => leave' \in [Spaces -> LeaveRow]
           /\ Fault => faults' \in 0..MaxFaults
           /\ UNCHANGED faults => faults' \in 0..MaxFaults
<1>1. /\ auth \in [Accounts -> 0..NumHandles] /\ vault \in [Handles -> 0..MaxTokens]
      /\ flow \in [Flows -> FlowRow] /\ ask \in [Askers -> AskRow]
      /\ leave \in [Spaces -> LeaveRow] /\ faults \in 0..MaxFaults
      /\ 0 \in 0..NumHandles /\ 0 \in 0..MaxTokens /\ NoFlow \in FlowRow /\ MaxFaults \in Nat
  BY Types, Constants
<1>2. \A h, au : DeleteUnusedCredential(h, au) \in [Handles -> 0..MaxTokens]
  BY <1>1 DEF DeleteUnusedCredential
<1>3. \A a, cs : DeleteUnusedAuthorization(a, cs) \in [Accounts -> 0..NumHandles]
  BY <1>1 DEF DeleteUnusedAuthorization
<1>4. Fault => faults' \in 0..MaxFaults
  BY <1>1 DEF Fault
<1>5. \A f \in Flows, r \in FlowRow : FlowIs(f, r) => flow' \in [Flows -> FlowRow]
  BY <1>1 DEF FlowIs
<1>6. \A p \in Askers, r \in AskRow : Asks(p, r) => ask' \in [Askers -> AskRow]
  BY <1>1 DEF Asks
<1>7. \A s \in Spaces, l \in LeaveRow : LeaveIs(s, l) => leave' \in [Spaces -> LeaveRow]
  BY <1>1 DEF LeaveIs
<1>8. \A f \in Flows : Over(f) => flow' \in [Flows -> FlowRow]
  BY <1>1, <1>5 DEF Over
<1>9. QED
  BY <1>1, <1>2, <1>3, <1>4, <1>5, <1>6, <1>7, <1>8

LEMMA AnswersTypes ==
    ASSUME TypeOK, NEW p \in Askers, NEW works \in BOOLEAN, Answers(p, works)
    PROVE  ask' \in [Askers -> AskRow]
<1>1. ask'[p] \in AskRow
  BY AnswersMoves
<1>2. ask \in [Askers -> AskRow] /\ \E r : ask' = [ask EXCEPT ![p] = r]
  BY Types DEF Answers, Asks
<1>3. QED
  BY <1>1, <1>2

LEMMA AsksOnTypes ==
    ASSUME TypeOK, NEW p \in Askers, NEW r, Asks(p, r), ask'[p] \in AskRow
    PROVE  ask' \in [Askers -> AskRow]
  BY Types DEF Asks

LEMMA FlowTypes ==
    ASSUME TypeOK, NEW f \in Flows
    PROVE  /\ \A pc \in {"none", "authorization", "others", "asking", "store",
                         "activate", "verify", "discard", "changed", "tidy"} :
                  To(f, pc) => flow' \in [Flows -> FlowRow]
           /\ \A d \in SUBSET Handles :
                  FlowIs(f, [flow[f] EXCEPT !.drop = d]) => flow' \in [Flows -> FlowRow]
           /\ FlowIs(f, [flow[f] EXCEPT !.prev = NoConnection]) => flow' \in [Flows -> FlowRow]
<1>1. flow[f] \in FlowRow /\ NoConnection \in Connection
  BY Types, Constants
<1>2. \A pc \in {"none", "authorization", "others", "asking", "store",
                 "activate", "verify", "discard", "changed", "tidy"} :
         [flow[f] EXCEPT !.pc = pc] \in FlowRow
  BY <1>1 DEF FlowRow
<1>3. \A d \in SUBSET Handles : [flow[f] EXCEPT !.drop = d] \in FlowRow
  BY <1>1 DEF FlowRow
<1>4. [flow[f] EXCEPT !.prev = NoConnection] \in FlowRow
  BY <1>1 DEF FlowRow
<1>5. QED
  BY <1>2, <1>3, <1>4, StatementTypes DEF To

TypesNext ==
    /\ conn' \in [Spaces -> Connection] /\ auth' \in [Accounts -> 0..NumHandles]
    /\ vault' \in [Handles -> 0..MaxTokens] /\ grant' \in [Handles -> Grant]
    /\ flow' \in [Flows -> FlowRow] /\ ask' \in [Askers -> AskRow]
    /\ leave' \in [Spaces -> LeaveRow]
    /\ used' \in 0..NumHandles /\ faults' \in 0..MaxFaults /\ misled' \subseteq Askers

\* The steps of a return.
LEMMA FlowTypeStep ==
    ASSUME TypeOK, UseInv, NEW f \in Flows, FlowStep(f)
    PROVE  TypesNext
<1>1. /\ conn \in [Spaces -> Connection] /\ auth \in [Accounts -> 0..NumHandles]
      /\ vault \in [Handles -> 0..MaxTokens] /\ grant \in [Handles -> Grant]
      /\ flow \in [Flows -> FlowRow] /\ ask \in [Askers -> AskRow]
      /\ leave \in [Spaces -> LeaveRow]
      /\ used \in 0..NumHandles /\ faults \in 0..MaxFaults /\ flow[f] \in FlowRow
      /\ misled \subseteq Askers
  BY Types
<1>2. NumHandles \in Nat /\ 1 \in 0..MaxTokens /\ 0 \in 0..NumHandles /\ NoAsk \in AskRow
  BY Constants
<1>3. ASSUME NEW s \in Spaces, NEW u \in Users, NEW a \in Accounts, Return(f, s, u, a)
      PROVE  TypesNext
  <2>1. used' = used + 1 /\ used' \in 0..NumHandles
    BY <1>1, <1>2, <1>3 DEF Return
  <2>2. conn[s].acct = None \/ auth[conn[s].acct] = 0 \/ auth[conn[s].acct] \in Handles
    BY <1>1, <1>2 DEF Connection, Handles
  <2>3. (IF conn[s].acct = None \/ auth[conn[s].acct] = 0 THEN {} ELSE {auth[conn[s].acct]})
        \in SUBSET Handles
    BY <2>2
  <2>4. [NoFlow EXCEPT !.pc = "authorization", !.space = s, !.user = u, !.acct = a,
                      !.handle = used + 1, !.prev = conn[s],
                      !.drop = IF conn[s].acct = None \/ auth[conn[s].acct] = 0 THEN {}
                               ELSE {auth[conn[s].acct]}] \in FlowRow
    BY <1>1, <1>2, <2>1, <2>3, Constants DEF NoFlow, FlowRow
  <2>5. flow' \in [Flows -> FlowRow]
    BY <1>3, <2>4, StatementTypes DEF Return
  <2>6. QED
    BY <1>1, <1>3, <2>1, <2>5 DEF Return, TypesNext
<1>4. CASE ReadAuthorization(f)
  <2>1. flow[f].acct \in Accounts /\ auth[flow[f].acct] \in 0..NumHandles
    BY <1>1, <1>4 DEF ReadAuthorization, At, UseInv, FreshGrants, Bringing
  <2>2. {auth[flow[f].acct]} \ {0} \subseteq Handles
    BY <1>2, <2>1 DEF Handles
  <2>3. ASSUME NEW pc \in {"store", "others"}, NEW h \in 0..NumHandles, NEW d \in SUBSET Handles
        PROVE  [flow[f] EXCEPT !.replaced = h, !.drop = @ \cup d, !.pc = pc] \in FlowRow
    BY <1>1 DEF FlowRow
  <2>4. flow' \in [Flows -> FlowRow]
    BY <1>4, <2>1, <2>2, <2>3, StatementTypes DEF ReadAuthorization
  <2>5. QED
    BY <1>1, <1>4, <2>4 DEF ReadAuthorization, FlowSame, TypesNext
<1>5. CASE ReadOthers(f)
  <2>1. flow' \in [Flows -> FlowRow]
    BY <1>5, FlowTypes DEF ReadOthers
  <2>2. [pc |-> "read", handle |-> flow[f].replaced, seen |-> 0] \in AskRow
    BY <1>1, Constants DEF AskRow, FlowRow
  <2>3. ask' \in [Askers -> AskRow]
    BY <1>1, <1>5, <2>2, StatementTypes DEF ReadOthers, Askers
  <2>4. QED
    BY <1>1, <1>5, <2>1, <2>3 DEF ReadOthers, FlowSame, TypesNext
<1>6. CASE Answered(f)
  <2>1. flow' \in [Flows -> FlowRow]
    BY <1>6, FlowTypes, StatementTypes DEF Answered
  <2>2. ask' \in [Askers -> AskRow]
    BY <1>2, <1>6, StatementTypes DEF Answered, Askers
  <2>3. QED
    BY <1>1, <1>6, <2>1, <2>2 DEF Answered, FlowSame, TypesNext
<1>7. CASE Store(f)
  <2>1. flow' \in [Flows -> FlowRow]
    BY <1>7, FlowTypes DEF Store
  <2>2. QED
    BY <1>1, <1>2, <1>7, <2>1 DEF Store, TypesNext
<1>8. CASE Activate(f)
  <2>1. flow' \in [Flows -> FlowRow]
    BY <1>8, FlowTypes DEF Activate
  <2>2. /\ flow[f].prev.gen < flow[f].handle /\ flow[f].acct \in Accounts
        /\ flow[f].prev.gen \in Nat /\ flow[f].handle \in 0..NumHandles
    BY <1>1, <1>2, <1>8 DEF Activate, At, UseInv, FreshGrants, Bringing, FlowRow, Connection
  <2>3. flow[f].prev.gen + 1 \in 0..NumHandles
    BY <1>2, <2>2
  <2>4. Activated(f) \in Connection
    BY <2>2, <2>3 DEF Activated, Connection
  <2>5. conn' \in [Spaces -> Connection]
    BY <1>1, <1>8, <2>4 DEF Activate
  <2>6. auth' \in [Accounts -> 0..NumHandles]
    BY <1>1, <1>8, <2>2 DEF Activate
  <2>7. faults' \in 0..MaxFaults
    BY <1>8, StatementTypes DEF Activate
  <2>8. QED
    BY <1>1, <1>8, <2>1, <2>5, <2>6, <2>7 DEF Activate, TypesNext
<1>9. CASE Verify(f)
  <2>1. flow' \in [Flows -> FlowRow]
    BY <1>9, FlowTypes DEF Verify
  <2>2. QED
    BY <1>1, <1>9, <2>1 DEF Verify, FlowSame, TypesNext
<1>10. CASE Discard(f)
  <2>1. flow' \in [Flows -> FlowRow]
    BY <1>10, FlowTypes, StatementTypes DEF Discard
  <2>2. vault' \in [Handles -> 0..MaxTokens]
    BY <1>10, StatementTypes DEF Discard
  <2>3. QED
    BY <1>1, <1>10, <2>1, <2>2 DEF Discard, TypesNext
<1>11. CASE LeaveAccount(f)
  <2>1. flow' \in [Flows -> FlowRow]
    BY <1>11, FlowTypes DEF LeaveAccount
  <2>2. auth' \in [Accounts -> 0..NumHandles]
    BY <1>11, StatementTypes DEF LeaveAccount
  <2>3. QED
    BY <1>1, <1>11, <2>1, <2>2 DEF LeaveAccount, TypesNext
<1>12. CASE Tidy(f)
  <2>1. ASSUME NEW h, FlowIs(f, [flow[f] EXCEPT !.drop = @ \ {h}])
        PROVE  flow' \in [Flows -> FlowRow]
    <3>1. flow[f].drop \ {h} \in SUBSET Handles
      BY <1>1 DEF FlowRow
    <3>2. QED
      BY <2>1, <3>1, FlowTypes
  <2>2. flow' \in [Flows -> FlowRow]
    BY <1>12, <2>1, StatementTypes DEF Tidy
  <2>3. vault' \in [Handles -> 0..MaxTokens]
    <3>1. UNCHANGED vault \/ \E h : vault' = DeleteUnusedCredential(h, auth)
      BY <1>12 DEF Tidy
    <3>2. QED
      BY <1>1, <3>1, StatementTypes
  <2>4. QED
    BY <1>1, <1>12, <2>2, <2>3 DEF Tidy, TypesNext
<1>13. QED
  BY <1>3, <1>4, <1>5, <1>6, <1>7, <1>8, <1>9, <1>10, <1>11, <1>12 DEF FlowStep, Connects

LEMMA TypeStep ==
    ASSUME TypeOK, UseInv, RefreshInv, [Next]_vars
    PROVE  TypeOK'
<1> SUFFICES TypesNext
  BY DEF TypesNext, TypeOK, Grant, FlowRow, AskRow, LeaveRow, Askers
<1>1. /\ conn \in [Spaces -> Connection] /\ auth \in [Accounts -> 0..NumHandles]
      /\ vault \in [Handles -> 0..MaxTokens] /\ grant \in [Handles -> Grant]
      /\ flow \in [Flows -> FlowRow] /\ ask \in [Askers -> AskRow]
      /\ leave \in [Spaces -> LeaveRow]
      /\ used \in 0..NumHandles /\ faults \in 0..MaxFaults /\ misled \subseteq Askers
  BY Types
<1>2. NumHandles \in Nat /\ 0 \in 0..NumHandles /\ MaxTokens \in Nat
      /\ NoConnection \in Connection /\ NoLeave \in LeaveRow
  BY Constants
<1>0. \A p \in Askers :
         /\ ask[p] \in AskRow /\ ask[p].seen \in 0..MaxTokens
         /\ ask[p].pc \notin {"none", "works"} => ask[p].handle \in Handles
  BY <1>1, <1>2 DEF UseInv, NamesAreKnown, Askers, Handles, AskRow
<1>3. ASSUME NEW s \in Spaces, RevokeConnection(s) PROVE TypesNext
  <2>1. conn' \in [Spaces -> Connection]
    BY <1>1, <1>3 DEF RevokeConnection, Connection
  <2>2. [pc |-> "unused", acct |-> conn[s].acct, handle |-> 0] \in LeaveRow
    BY <1>1, <1>2 DEF LeaveRow, Connection
  <2>3. leave' \in [Spaces -> LeaveRow]
    BY <1>3, <2>2, StatementTypes DEF RevokeConnection
  <2>4. QED
    BY <1>1, <1>3, <2>1, <2>3 DEF RevokeConnection, TypesNext
<1>4. ASSUME NEW s \in Spaces, ReadUnused(s) PROVE TypesNext
  <2>1. leave[s] \in LeaveRow /\ leave[s].acct \in Accounts
    BY <1>1, <1>4 DEF ReadUnused, UseInv, NamesAreKnown
  <2>2. UnusedAuthorization(leave[s].acct) \in 0..NumHandles
    BY <1>1, <1>2, <2>1 DEF UnusedAuthorization
  <2>3. ASSUME NEW h \in 0..NumHandles, NEW pc \in {"delete", "revoke"}
        PROVE  [leave[s] EXCEPT !.handle = h, !.pc = pc] \in LeaveRow
    BY <2>1 DEF LeaveRow
  <2>4. leave' \in [Spaces -> LeaveRow]
    BY <1>4, <2>2, <2>3, StatementTypes DEF ReadUnused
  <2>5. QED
    BY <1>1, <1>4, <2>4 DEF ReadUnused, TypesNext
<1>5. ASSUME NEW s \in Spaces, RevokeGrant(s) PROVE TypesNext
  <2>1. [leave[s] EXCEPT !.pc = "delete"] \in LeaveRow
    BY <1>1 DEF LeaveRow
  <2>2. leave' \in [Spaces -> LeaveRow]
    BY <1>5, <2>1, StatementTypes DEF RevokeGrant
  <2>3. grant' \in [Handles -> Grant]
    BY <1>1, <1>5 DEF RevokeGrant, Grant
  <2>4. QED
    BY <1>1, <1>5, <2>2, <2>3 DEF RevokeGrant, TypesNext
<1>6. ASSUME NEW s \in Spaces, DeleteSpace(s) PROVE TypesNext
  <2>1. [NoLeave EXCEPT !.pc = "gone"] \in LeaveRow
    BY <1>2 DEF LeaveRow
  <2>2. leave' \in [Spaces -> LeaveRow]
    BY <1>6, <2>1, StatementTypes DEF DeleteSpace
  <2>3. conn' \in [Spaces -> Connection]
    BY <1>1, <1>2, <1>6 DEF DeleteSpace
  <2>4. auth' \in [Accounts -> 0..NumHandles] /\ vault' \in [Handles -> 0..MaxTokens]
    BY <1>1, <1>6, StatementTypes DEF DeleteSpace
  <2>5. QED
    BY <1>1, <1>6, <2>2, <2>3, <2>4 DEF DeleteSpace, TypesNext
<1>7. ASSUME NEW s \in Spaces, Interrupted(s) PROVE TypesNext
  BY <1>1, <1>2, <1>7, StatementTypes DEF Interrupted, TypesNext
<1>8. ASSUME NEW p \in Askers, NEW works \in BOOLEAN, Answers(p, works) PROVE ask' \in [Askers -> AskRow]
  BY <1>8, AnswersTypes
<1>9. ASSUME NEW p \in Askers, ReadCredential(p) PROVE TypesNext
  <2>1. ask[p].pc = "read" /\ ask[p].handle \in Handles
    BY <1>0, <1>9 DEF ReadCredential
  <2>2. \/ Answers(p, TRUE) \/ Answers(p, FALSE)
        \/ Asks(p, [ask[p] EXCEPT !.pc = "request", !.seen = vault[ask[p].handle]])
    BY <1>9 DEF ReadCredential
  <2>3. [ask[p] EXCEPT !.pc = "request", !.seen = vault[ask[p].handle]] \in AskRow
    BY <1>1, <2>1 DEF AskRow
  <2>4. ask' \in [Askers -> AskRow]
    BY <1>8, <2>2, <2>3, StatementTypes
  <2>5. QED
    BY <1>1, <1>9, <2>4 DEF ReadCredential, VaultSame, TypesNext
<1>10. ASSUME NEW p \in Askers, Request(p) PROVE TypesNext
  <2>1. ask[p].seen + 1 \in 1..MaxTokens \/ ~(ask[p].seen < MaxTokens)
    BY <1>0, <1>2
  <2>2. grant' \in [Handles -> Grant]
    <3>1. \/ UNCHANGED grant
          \/ /\ ask[p].seen < MaxTokens
             /\ grant' = [grant EXCEPT ![ask[p].handle].token = ask[p].seen + 1]
      BY <1>10 DEF Request
    <3>2. ASSUME NEW n \in 1..MaxTokens, NEW h
          PROVE  [grant EXCEPT ![h].token = n] \in [Handles -> Grant]
      BY <1>1 DEF Grant
    <3>3. QED
      BY <1>1, <2>1, <3>1, <3>2
  <2>3. \A pc \in {"write", "settle"} : [ask[p] EXCEPT !.pc = pc] \in AskRow
    BY <1>1 DEF AskRow
  <2>4. ask' \in [Askers -> AskRow]
    BY <1>8, <1>10, <2>3, StatementTypes DEF Request
  <2>5. faults' \in 0..MaxFaults
    BY <1>10, StatementTypes DEF Request
  <2>6. QED
    BY <1>1, <1>10, <2>2, <2>4, <2>5 DEF Request, VaultSame, TypesNext
<1>11. ASSUME NEW p \in Askers, Write(p) PROVE TypesNext
  <2>1. ask[p].pc = "write" /\ ask[p].handle \in Handles /\ ask[p].seen \in Nat
    BY <1>0, <1>2, <1>11 DEF Write
  <2>2. vault[ask[p].handle] = ask[p].seen => ask[p].seen + 1 \in 0..MaxTokens
    <3>1. grant[ask[p].handle].token \in 1..MaxTokens
      BY <1>1, <2>1 DEF Grant
    <3>2. vault[ask[p].handle] = ask[p].seen => grant[ask[p].handle].token = ask[p].seen + 1
      BY <2>1 DEF RefreshInv, Seen, Askers
    <3>3. QED
      BY <1>2, <2>1, <3>1, <3>2
  <2>3. vault' \in [Handles -> 0..MaxTokens]
    BY <1>1, <1>11, <2>2 DEF Write
  <2>4. ask' \in [Askers -> AskRow] /\ faults' \in 0..MaxFaults
    BY <1>8, <1>11, StatementTypes DEF Write
  <2>5. QED
    BY <1>1, <1>11, <2>3, <2>4 DEF Write, VaultSame, TypesNext
<1>12. ASSUME NEW p \in Askers, SaysNothing(p) \/ Settle(p) PROVE TypesNext
  <2>1. Rotated(ask[p]) \in BOOLEAN
    BY DEF Rotated
  <2>2. ask' \in [Askers -> AskRow]
    BY <1>8, <1>12, <2>1 DEF SaysNothing, Settle
  <2>3. faults' \in 0..MaxFaults /\ misled' \subseteq Askers
    BY <1>1, <1>12, StatementTypes DEF SaysNothing, Settle
  <2>4. QED
    BY <1>1, <1>12, <2>2, <2>3 DEF SaysNothing, Settle, VaultSame, TypesNext
<1>13. ASSUME NEW k \in Calls, Calling(k) PROVE TypesNext
  <2>1. \A a \in Accounts : [pc |-> "read", handle |-> auth[a], seen |-> 0] \in AskRow
    BY <1>1, <1>2 DEF AskRow
  <2>2. ask' \in [Askers -> AskRow]
    BY <1>13, <2>1, StatementTypes DEF Calling, Askers
  <2>3. QED
    BY <1>1, <1>13, <2>2 DEF Calling, VaultSame, TypesNext
<1>14. ASSUME NEW h \in Handles, Ends(h) PROVE TypesNext
  BY <1>1, <1>14 DEF Ends, Grant, VaultSame, TypesNext
<1>15. CASE UNCHANGED vars
  BY <1>1, <1>15 DEF vars, TypesNext
<1>16. QED
  BY <1>3, <1>4, <1>5, <1>6, <1>7, <1>9, <1>10, <1>11, <1>12, <1>13, <1>14, <1>15, FlowTypeStep
     DEF Next, FlowStep, Leaves, Resolves, Askers

-----------------------------------------------------------------------------
(* A credential that is dead, and who hears of it.                            *)

\* A use of the vault writes or ends only by a step of its own.
LEMMA UsesMove ==
    ASSUME TypeOK, UseInv, [Next]_vars, NEW p \in Askers, ask'[p] # ask[p]
    PROVE  /\ ask'[p].pc = "write" => Rotates(p) /\ ask'[p].handle = ask[p].handle
           /\ ask'[p].pc = "ended" =>
                 /\ ask'[p].handle = ask[p].handle /\ ask[p].pc \in {"read", "settle"}
                 /\ ask[p].pc = "read" => vault[ask[p].handle] = 0
                 /\ ask[p].pc = "settle" =>
                        \/ ~Rotated(ask[p]) /\ ~Rotating(ask[p].handle)
                        \/ p \in misled'
<1>1. \A h : Begins(p, h) => ask'[p].pc = "read"
  BY DEF Begins
<1>2. CASE ~Resolves(p)
  BY <1>1, <1>2, AskMoves
<1>3. ASSUME NEW works \in BOOLEAN, Answers(p, works)
      PROVE  /\ ask'[p].pc # "write"
             /\ ask'[p].pc = "ended" => ~works /\ ask'[p].handle = ask[p].handle
  BY <1>3, AnswersMoves
<1>4. ASSUME NEW pc \in {"request", "settle"}, NEW r, r.pc = pc, Asks(p, r)
      PROVE  ask'[p].pc \notin {"write", "ended"}
  BY <1>4, Types DEF Asks
<1>5. ask[p] \in AskRow
  BY Types
<1>6. CASE ReadCredential(p)
  <2>1. \A pc, n : [ask[p] EXCEPT !.pc = pc, !.seen = n].pc = pc
    BY <1>5 DEF AskRow
  <2>2. ask[p].pc = "read"
    BY <1>6 DEF ReadCredential
  <2>3. CASE vault[ask[p].handle] = 0
    BY <1>3, <1>6, <2>2, <2>3 DEF ReadCredential
  <2>4. CASE vault[ask[p].handle] # 0
    <3>1. \/ Answers(p, TRUE)
          \/ Asks(p, [ask[p] EXCEPT !.pc = "request", !.seen = vault[ask[p].handle]])
      BY <1>6, <2>4 DEF ReadCredential
    <3>2. QED
      BY <1>3, <1>4, <2>1, <3>1
  <2>5. QED
    BY <2>3, <2>4
<1>7. CASE Request(p)
  <2>1. [ask[p] EXCEPT !.pc = "settle"].pc = "settle"
    BY <1>5 DEF AskRow
  <2>2. CASE Rotates(p)
    <3>1. Answers(p, TRUE) \/ Asks(p, [ask[p] EXCEPT !.pc = "write"])
      BY <2>2 DEF Request, Rotates
    <3>2. QED
      BY <1>3, <2>2, <3>1, AsksMoves, Constants DEF AsksOn
  <2>3. CASE ~Rotates(p)
    <3>1. Answers(p, TRUE) \/ Asks(p, [ask[p] EXCEPT !.pc = "settle"])
      BY <1>7, <2>3 DEF Request, Rotates
    <3>2. QED
      BY <1>3, <1>4, <2>1, <3>1
  <2>4. QED
    BY <2>2, <2>3
<1>8. CASE SaysNothing(p) \/ Write(p)
  BY <1>3, <1>8 DEF SaysNothing, Write
<1>9. CASE Settle(p)
  <2>1. Rotated(ask[p]) \in BOOLEAN
    BY DEF Rotated
  <2>2. QED
    BY <1>3, <1>9, <2>1 DEF Settle
<1>10. QED
  BY <1>2, <1>6, <1>7, <1>8, <1>9 DEF Resolves

\* Once a credential is dead it stays so: nothing rotates it, and nothing stores it anew.
LEMMA DeadStays ==
    ASSUME TypeOK, UseInv, RefreshInv, [Next]_vars, NEW h \in Handles, h \in Known, Dead(h)
    PROVE  Dead(h)'
<1>1. /\ vault \in [Handles -> 0..MaxTokens] /\ grant \in [Handles -> Grant]
      /\ ask \in [Askers -> AskRow] /\ DOMAIN ask = Askers /\ DOMAIN ask' = Askers
  BY TypeStep, Types DEF TypeOK, Askers
<1>2. ASSUME vault[h] = 0 PROVE vault'[h] = 0
  <2>1. ASSUME NEW f \in Flows, Store(f) PROVE vault'[h] = 0
    BY <1>1, <1>2, <2>1 DEF Store, At, Bringing, Known
  <2>2. ASSUME NEW p \in Askers, Write(p) PROVE vault'[h] = 0
    <3>1. ask[p].seen # 0
      BY <2>2 DEF Write, RefreshInv, Askers
    <3>2. QED
      BY <1>1, <1>2, <2>2, <3>1 DEF Write
  <2>3. QED
    BY <1>2, <2>1, <2>2, VaultMoves
<1>3. grant[h].state # "alive" => grant'[h].state # "alive"
  BY GrantMoves, RotatesKeeps DEF UseInv
<1>4. ASSUME vault[h] # 0, grant[h].token # vault[h], ~Rotating(h) PROVE Dead(h)'
  <2>1. \A p \in Askers : ask[p].pc = "write" => ask[p].handle # h
    BY <1>1, <1>4 DEF Rotating
  <2>2. ASSUME NEW p \in Askers, Rotates(p) PROVE ask[p].handle # h
    <3>1. ask[p].pc = "request" /\ Accepts(ask[p])
      BY <2>2 DEF Rotates, Request
    <3>2. SUFFICES ASSUME ask[p].handle = h PROVE FALSE
      OBVIOUS
    <3>3. ask[p].seen <= vault[h] /\ ask[p].seen \in Nat
      BY <1>1, <1>4, <3>1, <3>2 DEF RefreshInv, Seen, Askers, AskRow
    <3>4. vault[h] <= grant[h].token /\ grant[h].token = ask[p].seen
      BY <3>1, <3>2 DEF RefreshInv, Accepts
    <3>5. vault[h] \in Nat
      BY <1>1
    <3>6. QED
      BY <1>4, <3>3, <3>4, <3>5
  <2>3. grant'[h].token = grant[h].token
    BY <2>2, GrantMoves, RotatesKeeps DEF UseInv
  <2>4. vault'[h] \in {0, vault[h]}
    <3>1. ASSUME NEW f \in Flows, Store(f) PROVE vault'[h] = vault[h]
      BY <1>1, <3>1 DEF Store, At, Bringing, Known
    <3>2. ASSUME NEW p \in Askers, Write(p) PROVE vault'[h] = vault[h]
      BY <1>1, <2>1, <3>2 DEF Write
    <3>3. QED
      BY <3>1, <3>2, VaultMoves
  <2>5. ~Rotating(h)'
    <3>1. ASSUME NEW p \in Askers, ask'[p].pc = "write" PROVE ask'[p].handle # h
      BY <2>1, <2>2, <3>1, UsesMove
    <3>2. QED
      BY <1>1, <3>1 DEF Rotating
  <2>6. QED
    BY <1>4, <2>3, <2>4, <2>5 DEF Dead
<1>5. QED
  BY <1>2, <1>3, <1>4 DEF Dead

\* A return asks only while it waits for the answer.
FlowsAsk == \A f \in Flows : ask[f].pc # "none" => flow[f].pc = "asking"

LEMMA FlowsAskStep ==
    ASSUME TypeOK, FlowsAsk, [Next]_vars
    PROVE  FlowsAsk'
<1> SUFFICES ASSUME NEW f \in Flows, ask'[f].pc # "none" PROVE flow'[f].pc = "asking"
  BY DEF FlowsAsk
<1>1. /\ flow \in [Flows -> FlowRow] /\ flow[f] \in FlowRow /\ ask \in [Askers -> AskRow]
      /\ f \in Askers /\ f \notin Calls
  BY Types, ConnectionsConstants DEF Askers
<1>2. CASE ReadOthers(f)
  <2>1. flow[f].pc # "asking" /\ ask[f].pc = "none"
    BY <1>2 DEF ReadOthers, At, FlowsAsk
  <2>2. To(f, "asking")
    BY <1>2, <2>1 DEF ReadOthers
  <2>3. [flow[f] EXCEPT !.pc = "asking"].pc = "asking"
    BY <1>1 DEF FlowRow
  <2>4. QED
    BY <1>1, <2>2, <2>3 DEF To, FlowIs
<1>3. CASE ~ReadOthers(f)
  <2>1. ask[f].pc # "none"
    BY <1>1, <1>3, AskMoves
  <2>2. flow[f].pc = "asking"
    BY <2>1 DEF FlowsAsk
  <2>3. ~Answered(f)
    BY <1>1 DEF Answered, Asks, NoAsk
  <2>4. ~FlowStep(f)
    BY <1>3, <2>2, <2>3 DEF FlowStep, Connects, Return, ReadAuthorization, Store, Activate, Verify,
       Discard, LeaveAccount, Tidy, At
  <2>5. flow'[f] = flow[f]
    BY <2>4, FlowsStep, FlowMoves
  <2>6. QED
    BY <2>2, <2>5
<1>4. QED
  BY <1>2, <1>3

\* Who was misled stays so until it begins anew.
LEMMA MisledStays ==
    ASSUME TypeOK, FlowsAsk, [Next]_vars, NEW p \in misled, p \notin misled'
    PROVE  /\ p \in Calls => ask'[p].pc = "read"
           /\ p \in Flows => flow[p].pc = "none" /\ ask[p].pc = "none" /\ ask' = ask
<1>1. ASSUME NEW k \in Calls, Calling(k) PROVE p = k /\ ask'[p].pc = "read"
  <2>1. p = k
    BY <1>1 DEF Calling
  <2>2. ask \in [Askers -> AskRow] /\ k \in Askers
    BY Types DEF Askers
  <2>3. QED
    BY <1>1, <2>1, <2>2 DEF Calling, Asks
<1>2. ASSUME NEW f \in Flows, NEW s \in Spaces, NEW u \in Users, NEW a \in Accounts,
             Return(f, s, u, a)
      PROVE  p = f /\ flow[p].pc = "none" /\ ask[p].pc = "none" /\ ask' = ask
  BY <1>2 DEF Return, At, FlowsAsk
<1>3. ~ \E s \in Spaces : Leaves(s)
  BY DEF Leaves, RevokeConnection, ReadUnused, RevokeGrant, DeleteSpace, Interrupted
<1>4. ~ \E q \in Askers : Resolves(q)
  BY DEF Resolves, ReadCredential, Request, SaysNothing, Write, Settle
<1>5. ~ \E f \in Flows : Connects(f)
  BY DEF Connects, ReadAuthorization, ReadOthers, Answered, Store, Activate, Verify, Discard,
     LeaveAccount, Tidy, FlowSame
<1>6. (~ \E h \in Handles : Ends(h)) /\ ~UNCHANGED vars
  BY DEF Ends, vars
<1>7. QED
  BY <1>1, <1>2, <1>3, <1>4, <1>5, <1>6, ConnectionsConstants DEF Next, Askers

LEMMA EndedStep ==
    ASSUME TypeOK, UseInv, RefreshInv, FlowsAsk, EndedIsTrue, [Next]_vars
    PROVE  EndedIsTrue'
<1> SUFFICES ASSUME NEW p \in Askers, ask'[p].pc = "ended", p \notin misled'
             PROVE  Dead(ask[p].handle)'
  BY DEF EndedIsTrue, Askers
<1>0. p \in misled => ask'[p] # ask[p]
  <2>1. SUFFICES ASSUME p \in misled, ask'[p] = ask[p] PROVE FALSE
    OBVIOUS
  <2>2. CASE p \in Calls
    BY <2>1, <2>2, MisledStays
  <2>3. CASE p \in Flows
    BY <2>1, <2>3, MisledStays
  <2>4. QED
    BY <2>2, <2>3 DEF Askers
<1>1. /\ vault \in [Handles -> 0..MaxTokens] /\ grant \in [Handles -> Grant] /\ ask[p] \in AskRow
  BY Types
<1>2. \E h \in Handles : h = ask[p].handle /\ h = ask'[p].handle /\ h \in Known /\ Dead(h)
  <2>1. ask[p].pc \notin {"none", "works"} /\ ask'[p].handle = ask[p].handle
    BY UsesMove
  <2>2. ask[p].handle \in Handles /\ ask[p].handle \in Known
    BY <2>1, <1>1, Constants DEF UseInv, NamesAreKnown, Askers, AskRow, Handles
  <2>3. CASE ask'[p] = ask[p]
    BY <1>0, <2>2, <2>3 DEF EndedIsTrue, Askers
  <2>4. CASE ask[p].pc = "read" /\ vault[ask[p].handle] = 0
    BY <2>1, <2>2, <2>4 DEF Dead
  <2>5. CASE ask[p].pc = "settle" /\ ~Rotated(ask[p]) /\ ~Rotating(ask[p].handle)
    <3>1. vault[ask[p].handle] # 0 => /\ vault[ask[p].handle] = ask[p].seen
                                      /\ \/ grant[ask[p].handle].state # "alive"
                                         \/ ask[p].seen < grant[ask[p].handle].token
      BY <2>5 DEF Rotated, RefreshInv, Seen, Askers
    <3>2. ask[p].seen \in Nat /\ grant[ask[p].handle].token \in Nat
      BY <1>1, <2>2 DEF AskRow, Grant
    <3>3. Dead(ask[p].handle)
      BY <2>5, <3>1, <3>2 DEF Dead
    <3>4. QED
      BY <2>1, <2>2, <3>3
  <2>6. QED
    BY <2>3, <2>4, <2>5, UsesMove
<1>3. \E h \in Handles : h = ask'[p].handle /\ Dead(h)'
  BY <1>2, DeadStays
<1>4. QED
  BY <1>3 DEF Dead, Rotating

-----------------------------------------------------------------------------
(* Taking over an account.                                                    *)

\* What was found of an account, while its authorization is the one replaced.
LEMMA TakeOverStays ==
    ASSUME TypeOK, UseInv, RefreshInv, FlowsAsk, [Next]_vars, NEW f \in Flows, MayTakeOver(f),
           Bringing(f),
           Same(f), flow'[f].replaced = flow[f].replaced, flow[f].replaced # 0,
           auth'[flow[f].acct] = flow[f].replaced
    PROVE  MayTakeOver(f)'
<1> DEFINE s == flow[f].space
           a == flow[f].acct
           u == flow[f].user
<1>1. /\ conn \in [Spaces -> Connection] /\ auth \in [Accounts -> 0..NumHandles]
      /\ flow \in [Flows -> FlowRow] /\ flow[f] \in FlowRow
      /\ s \in Spaces /\ a \in Accounts
      /\ flow[f].replaced \in Known /\ flow[f].replaced \in Handles
  <2>1. flow \in [Flows -> FlowRow] /\ flow[f] \in FlowRow
    BY Types
  <2>2. flow[f].replaced \in Known /\ flow[f].replaced \in Handles
    BY <2>1, Constants DEF UseInv, NamesAreKnown, FlowRow, Handles
  <2>3. QED
    BY <2>1, <2>2, Types DEF UseInv, FreshGrants
<1>2. \A t \in Spaces : conn'[t].active /\ conn'[t].acct = a => conn[t].active /\ conn[t].acct = a
  <2>1. CASE LessIsNamed
    BY <2>1 DEF LessIsNamed
  <2>2. ASSUME NEW g \in Flows, Connected(g)
        PROVE  \A t \in Spaces : conn'[t].active /\ conn'[t].acct = a => conn[t].active /\ conn[t].acct = a
    <3>1. /\ flow[g].acct \in Accounts /\ flow[g].handle # flow[f].replaced
          /\ auth' = [auth EXCEPT ![flow[g].acct] = flow[g].handle]
          /\ conn' = [conn EXCEPT ![flow[g].space] = Activated(g)]
      BY <1>1, <2>2, ConnectedIsKnown DEF UseInv, Connected, Known
    <3>2. flow[g].acct # a
      BY <1>1, <3>1
    <3>3. Activated(g).acct # a
      BY <3>2 DEF Activated
    <3>4. QED
      BY <1>1, <3>1, <3>3
  <2>3. QED
    BY <2>1, <2>2, ConnMoves DEF UseInv
<1>3. CASE RunsEveryOtherSpace(u, s, a)
  <2>1. \A t \in Spaces : conn'[t].active /\ conn'[t].acct = a /\ t # s => u \in RunBy[t]
    BY <1>2, <1>3 DEF RunsEveryOtherSpace, ActiveIn
  <2>2. RunsEveryOtherSpace(flow[f].user, flow[f].space, flow[f].acct)'
    BY <2>1 DEF RunsEveryOtherSpace, ActiveIn, Same
  <2>3. QED
    BY <2>2 DEF MayTakeOver
<1>4. CASE Dead(flow[f].replaced)
  <2>1. \E h \in Handles : h = flow'[f].replaced /\ Dead(h)'
    BY <1>1, <1>4, DeadStays
  <2>2. Dead(flow[f].replaced)'
    BY <2>1 DEF Dead, Rotating
  <2>3. QED
    BY <2>2 DEF MayTakeOver
<1>5. CASE f \in misled
  BY <1>5, MisledStays DEF Bringing, MayTakeOver
<1>6. QED
  BY <1>3, <1>4, <1>5 DEF MayTakeOver

\* How a return comes to where it asks, stores or activates.
LEMMA ComesTo ==
    ASSUME TypeOK, [Next]_vars, NEW f \in Flows,
           flow'[f].pc \in {"asking", "store", "activate"}
    PROVE  \/ flow'[f] = flow[f]
           \/ /\ ReadAuthorization(f) /\ flow'[f].pc = "store"
              /\ flow'[f].replaced # 0 => flow'[f].prev.acct = flow'[f].acct
           \/ /\ flow'[f].replaced = flow[f].replaced /\ Same(f) /\ Bringing(f)
              /\ \/ ReadOthers(f)
                 \/ Answered(f) /\ ask[f].pc = "ended" /\ flow'[f].pc = "store"
                 \/ Store(f) /\ flow'[f].pc = "activate"
<1>1. flow \in [Flows -> FlowRow] /\ flow[f] \in FlowRow
  BY Types
<1>2. ASSUME NEW pc, To(f, pc)
      PROVE  flow'[f].pc = pc /\ flow'[f].replaced = flow[f].replaced /\ Same(f)
  <2>1. LET r == [flow[f] EXCEPT !.pc = pc] IN
        /\ r.pc = pc /\ r.replaced = flow[f].replaced /\ r.space = flow[f].space
        /\ r.acct = flow[f].acct /\ r.user = flow[f].user /\ r.handle = flow[f].handle
        /\ r.prev = flow[f].prev
    BY <1>1 DEF FlowRow
  <2>2. flow'[f] = [flow[f] EXCEPT !.pc = pc]
    BY <1>1, <1>2 DEF To, FlowIs
  <2>3. QED
    BY <2>1, <2>2 DEF Same
<1>3. Over(f) => flow'[f].pc = "none"
  BY <1>1 DEF Over, FlowIs, NoFlow
<1>4. CASE flow'[f] = flow[f]
  BY <1>4
<1>5. ASSUME NEW s \in Spaces, NEW u \in Users, NEW a \in Accounts, Return(f, s, u, a) PROVE FALSE
  BY <1>1, <1>5 DEF Return, FlowIs, NoFlow
<1>6. CASE ReadAuthorization(f)
  <2>1. PICK d, pc : /\ flow'[f] = [flow[f] EXCEPT !.replaced = auth[flow[f].acct], !.drop = d, !.pc = pc]
                     /\ pc = IF auth[flow[f].acct] = 0 \/ flow[f].prev.acct = flow[f].acct
                             THEN "store" ELSE "others"
    BY <1>1, <1>6 DEF ReadAuthorization, FlowIs
  <2>2. /\ flow'[f].pc = pc /\ flow'[f].replaced = auth[flow[f].acct]
        /\ flow'[f].prev = flow[f].prev /\ flow'[f].acct = flow[f].acct
    BY <1>1, <2>1 DEF FlowRow
  <2>3. QED
    BY <1>6, <2>1, <2>2
<1>7. CASE ReadOthers(f)
  BY <1>2, <1>7 DEF ReadOthers, At, Bringing
<1>8. CASE Answered(f)
  BY <1>2, <1>3, <1>8 DEF Answered, At, Bringing
<1>9. CASE Store(f)
  BY <1>2, <1>9 DEF Store, At, Bringing
<1>10. CASE Activate(f) \/ Verify(f)
  BY <1>2, <1>10 DEF Activate, Verify
<1>11. CASE Discard(f)
  BY <1>2, <1>3, <1>11 DEF Discard
<1>12. CASE LeaveAccount(f) \/ Tidy(f)
  <2>1. flow[f].pc = "tidy"
    BY <1>12 DEF LeaveAccount, Tidy, At
  <2>2. \A d : [flow[f] EXCEPT !.drop = d].pc = "tidy"
    BY <1>1, <2>1 DEF FlowRow
  <2>3. [flow[f] EXCEPT !.prev = NoConnection].pc = "tidy"
    BY <1>1, <2>1 DEF FlowRow
  <2>4. \A r : FlowIs(f, r) => flow'[f] = r
    BY <1>1 DEF FlowIs
  <2>5. flow'[f].pc = "tidy" \/ Over(f)
    BY <1>12, <2>2, <2>3, <2>4 DEF LeaveAccount, Tidy
  <2>6. QED
    BY <1>3, <2>5
<1>13. QED
  BY <1>4, <1>5, <1>6, <1>7, <1>8, <1>9, <1>10, <1>11, <1>12, FlowsStep, FlowMoves
     DEF FlowStep, Connects

LEMMA TakeOverStep ==
    ASSUME TypeOK, UseInv, RefreshInv, FlowsAsk, EndedIsTrue, TakeOverInv, [Next]_vars
    PROVE  TakeOverInv'
<1>1. /\ auth \in [Accounts -> 0..NumHandles] /\ flow \in [Flows -> FlowRow]
      /\ \A f \in Flows : flow[f] \in FlowRow /\ (Bringing(f) => flow[f].acct \in Accounts)
  BY Types DEF UseInv, FreshGrants
<1>2. ASSUME NEW f \in Flows, flow'[f].pc \in {"store", "activate"}, flow'[f].replaced # 0,
             flow'[f].prev.acct # flow'[f].acct, auth'[flow'[f].acct] = flow'[f].replaced
      PROVE  MayTakeOver(f)'
  <2>1. \/ flow'[f] = flow[f]
        \/ /\ flow'[f].replaced = flow[f].replaced /\ Same(f) /\ Bringing(f)
           /\ \/ ReadOthers(f)
              \/ Answered(f) /\ ask[f].pc = "ended" /\ flow'[f].pc = "store"
              \/ Store(f) /\ flow'[f].pc = "activate"
    BY <1>2, ComesTo
  <2>2. Same(f) /\ flow'[f].replaced = flow[f].replaced /\ Bringing(f)
    BY <1>2, <2>1 DEF Same, Bringing
  <2>3. /\ flow[f].replaced # 0 /\ auth'[flow[f].acct] = flow[f].replaced
        /\ flow[f].prev.acct # flow[f].acct
    BY <1>2, <2>2 DEF Same
  <2>4. auth[flow[f].acct] = flow[f].replaced
    <3>1. CASE LessIsNamed
      BY <1>1, <2>2, <2>3, <3>1 DEF LessIsNamed
    <3>2. ASSUME NEW g \in Flows, Connected(g) PROVE auth[flow[f].acct] = flow[f].replaced
      <4>1. /\ flow[f].replaced \in Known /\ Bringing(g)
            /\ auth' = [auth EXCEPT ![flow[g].acct] = flow[g].handle]
        BY <2>3, <3>2, ConnectedIsKnown DEF UseInv, NamesAreKnown, Connected
      <4>2. QED
        BY <1>1, <2>2, <2>3, <4>1 DEF Known
    <3>3. QED
      BY <3>1, <3>2, ConnMoves DEF UseInv
  <2>5. MayTakeOver(f)
    <3>1. CASE flow'[f] = flow[f] \/ Store(f)
      BY <1>2, <2>3, <2>4, <3>1 DEF TakeOverInv, Store, At
    <3>2. CASE ReadOthers(f)
      <4>1. [flow[f] EXCEPT !.pc = "asking"].pc = "asking"
        BY <1>1 DEF FlowRow
      <4>2. ~To(f, "asking")
        BY <1>1, <1>2, <4>1 DEF To, FlowIs
      <4>3. QED
        BY <3>2, <4>2 DEF ReadOthers, MayTakeOver
    <3>3. CASE Answered(f) /\ ask[f].pc = "ended"
      <4>1. ask[f].handle = flow[f].replaced
        BY <3>3 DEF Answered, At, TakeOverInv
      <4>2. QED
        BY <3>3, <4>1 DEF EndedIsTrue, MayTakeOver
    <3>4. QED
      BY <2>1, <3>1, <3>2, <3>3
  <2>6. QED
    BY <2>2, <2>3, <2>5, TakeOverStays
<1>3. ASSUME NEW f \in Flows, flow'[f].pc = "asking", ask'[f].pc \notin {"none", "works"}
      PROVE  ask'[f].handle = flow'[f].replaced
  <2>1. \/ flow'[f] = flow[f]
        \/ flow'[f].replaced = flow[f].replaced /\ ReadOthers(f)
    BY <1>3, ComesTo
  <2>2. \A h : Begins(f, h) => ask'[f].handle = h
    BY DEF Begins
  <2>3. CASE ReadOthers(f)
    <3>1. ask \in [Askers -> AskRow] /\ f \in Askers
      BY Types DEF Askers
    <3>2. [flow[f] EXCEPT !.pc = "store"].pc = "store"
      BY <1>1 DEF FlowRow
    <3>3. ~To(f, "store")
      BY <1>1, <1>3, <3>2 DEF To, FlowIs
    <3>4. Asks(f, [pc |-> "read", handle |-> flow[f].replaced, seen |-> 0])
      BY <2>3, <3>3 DEF ReadOthers
    <3>5. Begins(f, flow[f].replaced)
      BY <3>1, <3>4 DEF Asks, Begins
    <3>6. flow'[f].replaced = flow[f].replaced
      BY <1>1, <2>3, <2>1
    <3>7. QED
      BY <2>2, <3>5, <3>6
  <2>4. CASE flow'[f] = flow[f]
    <3>1. ask[f].pc \notin {"none", "works"} => ask[f].handle = flow[f].replaced
      BY <1>3, <2>4 DEF TakeOverInv
    <3>2. f \notin Calls /\ f \in Askers
      BY ConnectionsConstants DEF Askers
    <3>3. QED
      BY <1>3, <2>2, <2>4, <3>1, <3>2, AskMoves
  <2>5. QED
    BY <2>1, <2>3, <2>4
<1>4. QED
  BY <1>2, <1>3 DEF TakeOverInv

-----------------------------------------------------------------------------
(* The theorems.                                                              *)

ConnectionsInv == TypeOK /\ UseInv /\ RefreshInv /\ FlowsAsk /\ EndedIsTrue /\ TakeOverInv

LEMMA ConnectionsInit == Init => ConnectionsInv
<1> SUFFICES ASSUME Init PROVE ConnectionsInv
  OBVIOUS
<1>1. /\ NumHandles \in Nat /\ MaxTokens \in Nat \ {0} /\ MaxFaults \in Nat /\ 0 \in 0..NumHandles
      /\ 1 \in 1..MaxTokens /\ 0 \in 0..MaxTokens
  BY Constants
<1>2. TypeOK
  <2>1. [token |-> 1, state |-> "alive"] \in Grant
    BY <1>1 DEF Grant
  <2>2. QED
    BY <1>1, <2>1, Constants, Types DEF Init, Askers
<1>3. /\ \A s \in Spaces : conn[s] = NoConnection /\ leave[s] = NoLeave
      /\ \A a \in Accounts : auth[a] = 0
      /\ \A h \in Handles : vault[h] = 0 /\ grant[h] = [token |-> 1, state |-> "alive"]
      /\ \A f \in Flows : flow[f] = NoFlow
      /\ \A p \in Askers : ask[p] = NoAsk
      /\ used = 0
  BY DEF Init, Askers
<1>4. \A f \in Flows : ~Bringing(f) /\ flow[f].pc = "none" /\ flow[f].replaced = 0
  BY <1>3 DEF Bringing, NoFlow
<1>5. UseInv
  BY <1>3, <1>4 DEF UseInv, FreshGrants, NamesAreKnown, RevokedAreKnown, UnusedStaysUnused,
     ActiveSpacesKeepTheirGrant, NoConnection, NoLeave, NoAsk, Askers
<1>6. RefreshInv /\ EndedIsTrue /\ FlowsAsk
  BY <1>3 DEF RefreshInv, EndedIsTrue, FlowsAsk, NoAsk, Askers
<1>7. TakeOverInv
  BY <1>4 DEF TakeOverInv
<1>8. QED
  BY <1>2, <1>5, <1>6, <1>7 DEF ConnectionsInv

LEMMA ConnectionsStep == ConnectionsInv /\ [Next]_vars => ConnectionsInv'
  BY TypeStep, UseStep, RefreshStep, FlowsAskStep, EndedStep, TakeOverStep DEF ConnectionsInv

LEMMA ConnectionsHolds == Spec => []ConnectionsInv
  BY ConnectionsInit, ConnectionsStep, PTL DEF Spec

(* The types hold. A space's generation advances once for each grant that is  *)
(* brought, and no rotation is stored that Cloudflare did not give.           *)
THEOREM TypeCorrect == Spec => []TypeOK
<1>1. ConnectionsInv => TypeOK
  BY DEF ConnectionsInv
<1>2. QED
  BY <1>1, ConnectionsHolds, PTL

(* A space that may build has an authorization that CloudChef did not revoke, *)
(* whatever spaces connect, move, are deleted or are interrupted in that.     *)
THEOREM GrantsAreKept == Spec => []ActiveSpacesKeepTheirGrant
<1>1. ConnectionsInv => ActiveSpacesKeepTheirGrant
  BY DEF ConnectionsInv, UseInv
<1>2. QED
  BY <1>1, ConnectionsHolds, PTL

(* Only a dead credential is called ended, however many uses of the vault     *)
(* race for its one token, and whichever answers or writes are lost, by       *)
(* whoever's settling read was answered after all rotations on their way.     *)
THEOREM OnlyTheDeadEnded == Spec => []EndedIsTrue
<1>1. ConnectionsInv => EndedIsTrue
  BY DEF ConnectionsInv
<1>2. QED
  BY <1>1, ConnectionsHolds, PTL

(* Nobody is brought into an account over others who build there with an      *)
(* authorization that works, whatever happened since that was checked, unless *)
(* the settling read of that return failed or came too early.                 *)
THEOREM AccountsAreNotTaken == Spec => NobodyTakesAnAccountOver
<1>1. ASSUME ConnectionsInv, [Next]_vars, NEW f \in Flows, At(f, "activate"), ~At(f, "activate")',
             conn'[flow[f].space] # conn[flow[f].space], flow[f].prev.acct # flow[f].acct
      PROVE  \/ RunsEveryOtherSpace(flow[f].user, flow[f].space, flow[f].acct)
             \/ Dead(auth[flow[f].acct]) \/ f \in misled
  <2>1. TypeOK /\ UseInv /\ TakeOverInv
    BY <1>1 DEF ConnectionsInv
  <2>2. FlowStep(f) /\ flow[f].pc = "activate"
    <3>1. flow'[f] # flow[f]
      BY <1>1 DEF At
    <3>2. QED
      BY <1>1, <2>1, <3>1, FlowsStep, FlowMoves DEF At
  <2>3. Activate(f)
    BY <2>2 DEF FlowStep, Connects, Return, ReadAuthorization, ReadOthers, Answered, Store,
       Verify, Discard, LeaveAccount, Tidy, At
  <2>4. AsRead(f)
    BY <1>1, <2>3 DEF Activate
  <2>5. CASE auth[flow[f].acct] = 0
    <3>1. ActiveIn(flow[f].acct) = {}
      BY <2>1, <2>5 DEF UseInv, ActiveSpacesKeepTheirGrant, ActiveIn
    <3>2. QED
      BY <3>1 DEF RunsEveryOtherSpace
  <2>6. CASE auth[flow[f].acct] # 0
    <3>1. auth[flow[f].acct] = flow[f].replaced
      BY <2>4, <2>6 DEF AsRead
    <3>2. MayTakeOver(f)
      BY <1>1, <2>1, <2>2, <2>6, <3>1 DEF TakeOverInv
    <3>3. QED
      BY <3>1, <3>2 DEF MayTakeOver
  <2>7. QED
    BY <2>5, <2>6
<1>2. ConnectionsInv /\ [Next]_vars =>
      [\A f \in Flows : LET s == flow[f].space  a == flow[f].acct IN
           /\ At(f, "activate") /\ ~At(f, "activate")'
           /\ conn'[s] # conn[s] /\ flow[f].prev.acct # a
           => RunsEveryOtherSpace(flow[f].user, s, a) \/ Dead(auth[a]) \/ f \in misled]_vars
  BY <1>1
<1>3. QED
  BY <1>2, ConnectionsHolds, PTL DEF NobodyTakesAnAccountOver, Spec
=============================================================================
