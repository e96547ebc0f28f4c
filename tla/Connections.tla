----------------------------- MODULE Connections -----------------------------
(* Who builds in which Cloudflare account, and with which authorization.      *)
(* Every space, a person's own or a team's, has a connection to one account;  *)
(* an account has one authorization, which all its spaces use and which names *)
(* a credential in the vault; the vault's copy of a grant is refreshed with   *)
(* Cloudflare, which rotates the token each time.                             *)
(*                                                                            *)
(* Sources: cloudflare-connection-repository.ts (connections and              *)
(* authorizations), cloudflare-credential-vault.ts (the vault),               *)
(* cloudflare-integration.ts (returning from Cloudflare) and                  *)
(* account-deletion.ts (deleting a team, erasing a person).                   *)
(*                                                                            *)
(* A step is one statement or one request to Cloudflare. Memberships do not   *)
(* change; scopes are complete. A refused refresh waits two seconds           *)
(* (CONCURRENT_REFRESH_SETTLE_MS) before it reads again: it may still read    *)
(* too early, and the reading may fail. misled remembers whom that misled.    *)
EXTENDS Naturals, FiniteSets

CONSTANTS
    Spaces,        \* people's own and teams'
    Users,
    RunBy,         \* the users who run each space: its person, or its admins
    Accounts,
    Flows,         \* returns from Cloudflare being handled
    Calls,         \* requests that resolve a token
    NumHandles,    \* bound: grants brought in all
    MaxTokens,     \* bound: rotations of a grant
    MaxFaults,     \* bound: answers lost and reads failed
    None

Handles == 1..NumHandles

ASSUME ConnectionsConstants ==
    /\ RunBy \in [Spaces -> SUBSET Users] /\ None \notin Accounts
    /\ {NumHandles, MaxFaults} \subseteq Nat /\ MaxTokens \in Nat \ {0}
    /\ Flows \cap Calls = {}

VARIABLES
    conn,    \* cloudflare_connections
    auth,    \* cloudflare_authorizations: the credential it names, 0 for none
    vault,   \* cloudflare_credentials: the rotation stored, 0 for no row
    grant,   \* Cloudflare's side of each grant
    flow,    \* each return from Cloudflare
    ask,     \* each use of the vault: by a call, or by a flow that checks
    leave,   \* each space's deletion: "gone" once it is over
    used,    \* handles brought so far
    misled,  \* history: who called a grant ended on a read that failed or came too early
    faults

vars == <<conn, auth, vault, grant, flow, ask, leave, used, misled, faults>>

NoConnection == [gen |-> 0, acct |-> None, active |-> FALSE]
NoFlow == [pc |-> "none", space |-> None, acct |-> None, user |-> None, handle |-> 0,
           prev |-> NoConnection, replaced |-> 0, drop |-> {}]
NoAsk == [pc |-> "none", handle |-> 0, seen |-> 0]
NoLeave == [pc |-> "none", acct |-> None, handle |-> 0]

Connection == [gen : 0..NumHandles, acct : Accounts \cup {None}, active : BOOLEAN]

TypeOK ==
    /\ conn \in [Spaces -> Connection]
    /\ auth \in [Accounts -> 0..NumHandles]
    /\ vault \in [Handles -> 0..MaxTokens]
    /\ grant \in [Handles -> [token : 1..MaxTokens, state : {"alive", "ended", "revoked"}]]
    /\ flow \in [Flows -> [pc : {"none", "authorization", "others", "asking", "store",
                                 "activate", "verify", "discard", "changed", "tidy"},
                           space : Spaces \cup {None}, acct : Accounts \cup {None},
                           user : Users \cup {None}, handle : 0..NumHandles,
                           prev : Connection, replaced : 0..NumHandles, drop : SUBSET Handles]]
    /\ ask \in [Flows \cup Calls -> [pc : {"none", "read", "request", "write", "settle",
                                           "works", "ended"},
                                     handle : 0..NumHandles, seen : 0..MaxTokens]]
    /\ leave \in [Spaces -> [pc : {"none", "unused", "revoke", "delete", "gone"},
                             acct : Accounts \cup {None}, handle : 0..NumHandles]]
    /\ used \in 0..NumHandles /\ faults \in 0..MaxFaults
    /\ misled \subseteq Flows \cup Calls

Init ==
    /\ conn = [s \in Spaces |-> NoConnection]
    /\ auth = [a \in Accounts |-> 0]
    /\ vault = [h \in Handles |-> 0]
    /\ grant = [h \in Handles |-> [token |-> 1, state |-> "alive"]]
    /\ flow = [f \in Flows |-> NoFlow]
    /\ ask = [p \in Flows \cup Calls |-> NoAsk]
    /\ leave = [s \in Spaces |-> NoLeave]
    /\ used = 0 /\ faults = 0 /\ misled = {}

Fault == faults < MaxFaults /\ faults' = faults + 1

-----------------------------------------------------------------------------
(* The statements.                                                            *)

ActiveIn(a) == {s \in Spaces : conn[s].active /\ conn[s].acct = a}

RunsEveryOtherSpace(u, s, a) == \A t \in ActiveIn(a) \ {s} : u \in RunBy[t]

\* Faulty form: an account's authorization is unused once this space left.
AnyAuthorization(a) == auth[a]

UnusedAuthorization(a) == IF ActiveIn(a) = {} THEN auth[a] ELSE 0

DeleteUnusedAuthorization(a, cs) ==
    IF \E s \in Spaces : cs[s].acct = a THEN auth ELSE [auth EXCEPT ![a] = 0]

DeleteUnusedCredential(h, au) ==
    [g \in Handles |-> IF g = h /\ \A a \in Accounts : au[a] # h THEN 0 ELSE vault[g]]

(* activateCloudflareConnection's batch: all of it or nothing. A deleted      *)
(* person or team is no key its row may name.                                 *)
\* Faulty form: what the account's authorization was when read is not compared.
SpaceAsRead(f) ==
    conn[flow[f].space].gen = flow[f].prev.gen /\ leave[flow[f].space].pc # "gone"

AsRead(f) ==
    /\ conn[flow[f].space].gen = flow[f].prev.gen /\ leave[flow[f].space].pc # "gone"
    /\ auth[flow[f].acct] \in {0, flow[f].replaced}

\* Faulty form: the account's statement advances the generation as well.
ActivatedTwice(f) ==
    [gen |-> flow[f].prev.gen + 2, acct |-> flow[f].acct, active |-> TRUE]

Activated(f) ==
    [gen |-> flow[f].prev.gen + 1, acct |-> flow[f].acct, active |-> TRUE]

-----------------------------------------------------------------------------
(* The vault. Process p is a call, or a flow that asks whether a credential   *)
(* still authorizes.                                                          *)

Asks(p, a) == ask' = [ask EXCEPT ![p] = a]

\* A call goes on with a token, or without one; a flow keeps what it heard.
Answers(p, works) ==
    Asks(p, IF ~works THEN [ask[p] EXCEPT !.pc = "ended", !.seen = 0]
            ELSE IF p \in Calls THEN NoAsk ELSE [NoAsk EXCEPT !.pc = "works"])

VaultSame == UNCHANGED <<conn, auth, flow, leave, used>>

Calling(k) ==
    /\ ask[k].pc \in {"none", "ended"}
    /\ \E a \in Accounts : auth[a] # 0
                           /\ Asks(k, [pc |-> "read", handle |-> auth[a], seen |-> 0])
    /\ misled' = misled \ {k}
    /\ UNCHANGED <<vault, grant, faults>> /\ VaultSame

\* The row is gone, its access token is good, or Cloudflare is asked: to refresh it,
\* or by stillAuthorizes whether it accepts a current access token.
ReadCredential(p) ==
    LET q == ask[p] IN
    /\ q.pc = "read"
    /\ IF vault[q.handle] = 0 THEN Answers(p, FALSE)
       ELSE \/ Asks(p, [q EXCEPT !.pc = "request", !.seen = vault[q.handle]])
            \/ Answers(p, TRUE)
    /\ UNCHANGED <<vault, grant, misled, faults>> /\ VaultSame

Rotated(q) == vault[q.handle] \notin {0, q.seen}

Accepts(q) == grant[q.handle].state = "alive" /\ grant[q.handle].token = q.seen

\* The request, and the first read of one that was refused, which may fail. A token
\* that another's rotation replaced is refused. MaxTokens bounds what Cloudflare grants.
Request(p) ==
    LET q == ask[p] IN
    /\ q.pc = "request"
    /\ \/ /\ Accepts(q) /\ q.seen < MaxTokens
          /\ grant' = [grant EXCEPT ![q.handle].token = q.seen + 1]
          /\ \/ Asks(p, [q EXCEPT !.pc = "write"]) /\ UNCHANGED faults
             \/ Fault /\ Answers(p, TRUE)   \* its answer is lost
       \/ /\ ~Accepts(q) /\ UNCHANGED grant
          /\ \/ Rotated(q) /\ Answers(p, TRUE) /\ UNCHANGED faults
             \/ ~Rotated(q) /\ Asks(p, [q EXCEPT !.pc = "settle"]) /\ UNCHANGED faults
             \/ Fault /\ Asks(p, [q EXCEPT !.pc = "settle"])
    /\ UNCHANGED <<vault, misled>> /\ VaultSame

\* Cloudflare accepts an access token, or is unreachable or failing, which says
\* nothing of the grant: it works.
SaysNothing(p) ==
    /\ ask[p].pc = "request"
    /\ Answers(p, TRUE)
    /\ UNCHANGED <<vault, grant, misled, faults>> /\ VaultSame

Write(p) ==
    LET q == ask[p] IN
    /\ q.pc = "write"
    /\ \/ /\ vault' = IF vault[q.handle] = q.seen
                      THEN [vault EXCEPT ![q.handle] = q.seen + 1] ELSE vault
          /\ UNCHANGED faults
       \/ Fault /\ UNCHANGED vault
    /\ Answers(p, TRUE)
    /\ UNCHANGED <<grant, misled>> /\ VaultSame

\* Another refresh has sent its token and not stored the new one yet.
Rotating(h) == \E p \in DOMAIN ask : ask[p].pc = "write" /\ ask[p].handle = h

\* Faulty form: a refused refresh takes the grant for ended without reading again.
Refused(p) ==
    /\ ask[p].pc = "settle"
    /\ Answers(p, FALSE)
    /\ misled' = IF Rotating(ask[p].handle) THEN misled \cup {p} ELSE misled
    /\ UNCHANGED <<vault, grant, faults>> /\ VaultSame

\* After the wait the row is read again: a grant nobody rotated has ended. A read
\* that fails counts as one nobody rotated, and so does one whose rotation is still
\* being written.
Settle(p) ==
    LET h == ask[p].handle IN
    /\ ask[p].pc = "settle"
    /\ \/ /\ Answers(p, Rotated(ask[p])) /\ UNCHANGED faults
          /\ misled' = IF Rotating(h) /\ ~Rotated(ask[p]) THEN misled \cup {p} ELSE misled
       \/ Answers(p, FALSE) /\ Fault /\ misled' = misled \cup {p}
    /\ UNCHANGED <<vault, grant>> /\ VaultSame

\* The person ends it at Cloudflare, while an account uses it.
Ends(h) ==
    /\ grant[h].state = "alive" /\ \E a \in Accounts : auth[a] = h
    /\ grant' = [grant EXCEPT ![h].state = "ended"]
    /\ UNCHANGED <<vault, ask, misled, faults>> /\ VaultSame

-----------------------------------------------------------------------------
(* Returning from Cloudflare with a new grant.                                *)

FlowIs(f, r) == flow' = [flow EXCEPT ![f] = r]

At(f, pc) == flow[f].pc = pc
To(f, pc) == FlowIs(f, [flow[f] EXCEPT !.pc = pc])
Over(f) == FlowIs(f, NoFlow)

Return(f, s, u, a) ==
    /\ At(f, "none") /\ used < NumHandles /\ u \in RunBy[s] /\ leave[s].pc # "gone"
    /\ used' = used + 1
    /\ FlowIs(f, [NoFlow EXCEPT !.pc = "authorization", !.space = s, !.user = u, !.acct = a,
                      !.handle = used + 1, !.prev = conn[s],
                      !.drop = IF conn[s].acct = None \/ auth[conn[s].acct] = 0 THEN {}
                               ELSE {auth[conn[s].acct]}])
    /\ misled' = misled \ {f}
    /\ UNCHANGED <<conn, auth, vault, grant, ask, leave, faults>>

FlowSame == UNCHANGED <<conn, auth, vault, grant, leave, used, misled, faults>>

\* authorizationToReplace, from read to read.
ReadAuthorization(f) ==
    /\ At(f, "authorization")
    /\ LET h == auth[flow[f].acct]
       IN  FlowIs(f, [flow[f] EXCEPT !.replaced = h, !.drop = @ \cup ({h} \ {0}),
                          !.pc = IF h = 0 \/ flow[f].prev.acct = flow[f].acct
                                 THEN "store" ELSE "others"])
    /\ UNCHANGED ask /\ FlowSame

ReadOthers(f) ==
    /\ At(f, "others")
    /\ IF RunsEveryOtherSpace(flow[f].user, flow[f].space, flow[f].acct)
       THEN To(f, "store") /\ UNCHANGED ask
       ELSE /\ To(f, "asking")
            /\ Asks(f, [pc |-> "read", handle |-> flow[f].replaced, seen |-> 0])
    /\ FlowSame

\* One that still works is not taken over: account_in_use.
Answered(f) ==
    /\ At(f, "asking") /\ ask[f].pc \in {"works", "ended"}
    /\ IF ask[f].pc = "ended" THEN To(f, "store") ELSE Over(f)
    /\ Asks(f, NoAsk) /\ FlowSame

Store(f) ==
    /\ At(f, "store") /\ To(f, "activate")
    /\ vault' = [vault EXCEPT ![flow[f].handle] = 1]
    /\ UNCHANGED <<conn, auth, grant, ask, leave, used, misled, faults>>

\* Its answer may be lost, the batch written or not.
Activate(f) ==
    LET written == AsRead(f) IN
    /\ At(f, "activate")
    /\ conn' = IF written THEN [conn EXCEPT ![flow[f].space] = Activated(f)] ELSE conn
    /\ auth' = IF written THEN [auth EXCEPT ![flow[f].acct] = flow[f].handle] ELSE auth
    /\ \/ To(f, IF written THEN "tidy" ELSE "changed") /\ UNCHANGED faults
       \/ To(f, "verify") /\ Fault
    /\ UNCHANGED <<vault, grant, ask, leave, used, misled>>

\* The check of what was written may fail as well.
Verify(f) ==
    /\ At(f, "verify")
    /\ \/ /\ conn[flow[f].space] = Activated(f) /\ auth[flow[f].acct] = flow[f].handle
          /\ To(f, "tidy")
       \/ To(f, "discard")
    /\ UNCHANGED ask /\ FlowSame

\* Where another return connected the space as this one would, it goes on.
Discard(f) ==
    /\ At(f, "discard") \/ At(f, "changed")
    /\ vault' = DeleteUnusedCredential(flow[f].handle, auth)
    /\ \/ Over(f)
       \/ At(f, "changed") /\ conn[flow[f].space] = Activated(f) /\ To(f, "tidy")
    /\ UNCHANGED <<conn, auth, grant, ask, leave, used, misled, faults>>

Moved(f) == flow[f].prev.acct \notin {None, flow[f].acct}

\* The authorization of the account it left, then each credential replaced.
LeaveAccount(f) ==
    /\ At(f, "tidy") /\ Moved(f)
    /\ auth' = DeleteUnusedAuthorization(flow[f].prev.acct, conn)
    /\ FlowIs(f, [flow[f] EXCEPT !.prev = NoConnection])
    /\ UNCHANGED <<conn, vault, grant, ask, leave, used, misled, faults>>

Tidy(f) ==
    LET replaced == flow[f].drop \ {flow[f].handle} IN
    /\ At(f, "tidy") /\ ~Moved(f)
    /\ \/ replaced = {} /\ Over(f) /\ UNCHANGED vault
       \/ \E h \in replaced : /\ vault' = DeleteUnusedCredential(h, auth)
                             /\ FlowIs(f, [flow[f] EXCEPT !.drop = @ \ {h}])
    /\ UNCHANGED <<conn, auth, grant, ask, leave, used, misled, faults>>

-----------------------------------------------------------------------------
(* A team deleted, or a person erased.                                        *)

LeaveIs(s, l) == leave' = [leave EXCEPT ![s] = l]

RevokeConnection(s) ==
    /\ leave[s].pc = "none" /\ conn[s].acct # None
    /\ conn' = [conn EXCEPT ![s].active = FALSE]
    /\ LeaveIs(s, [pc |-> "unused", acct |-> conn[s].acct, handle |-> 0])
    /\ UNCHANGED <<auth, vault, grant, flow, ask, used, misled, faults>>

ReadUnused(s) ==
    /\ leave[s].pc = "unused"
    /\ LET h == UnusedAuthorization(leave[s].acct)
       IN  LeaveIs(s, [leave[s] EXCEPT !.handle = h, !.pc = IF h = 0 THEN "delete" ELSE "revoke"])
    /\ UNCHANGED <<conn, auth, vault, grant, flow, ask, used, misled, faults>>

\* Where the row is gone, or Cloudflare declines, the grant stays.
RevokeGrant(s) ==
    /\ leave[s].pc = "revoke"
    /\ LeaveIs(s, [leave[s] EXCEPT !.pc = "delete"])
    /\ \/ UNCHANGED grant
       \/ /\ vault[leave[s].handle] # 0
          /\ grant' = [grant EXCEPT ![leave[s].handle].state = "revoked"]
    /\ UNCHANGED <<conn, auth, vault, flow, ask, used, misled, faults>>

DeleteSpace(s) ==
    /\ leave[s].pc = "delete"
    /\ conn' = [conn EXCEPT ![s] = NoConnection]
    /\ auth' = DeleteUnusedAuthorization(leave[s].acct, conn')
    /\ vault' = IF leave[s].handle = 0 THEN vault
                ELSE DeleteUnusedCredential(leave[s].handle, auth')
    /\ LeaveIs(s, [NoLeave EXCEPT !.pc = "gone"])
    /\ UNCHANGED <<grant, flow, ask, used, misled, faults>>

\* The Worker stops in between; asked again, the deletion begins again.
Interrupted(s) ==
    /\ leave[s].pc \in {"unused", "revoke", "delete"}
    /\ LeaveIs(s, NoLeave) /\ Fault
    /\ UNCHANGED <<conn, auth, vault, grant, flow, ask, used, misled>>

-----------------------------------------------------------------------------
Resolves(p) == ReadCredential(p) \/ Request(p) \/ SaysNothing(p) \/ Write(p) \/ Settle(p)

Connects(f) == \/ ReadAuthorization(f) \/ ReadOthers(f) \/ Answered(f) \/ Store(f)
               \/ Activate(f) \/ Verify(f) \/ Discard(f)
               \/ LeaveAccount(f) \/ Tidy(f)

Leaves(s) == \/ RevokeConnection(s) \/ ReadUnused(s) \/ RevokeGrant(s) \/ DeleteSpace(s)
             \/ Interrupted(s)

Next ==
    \/ \E f \in Flows, s \in Spaces, u \in Users, a \in Accounts : Return(f, s, u, a)
    \/ \E f \in Flows : Connects(f)
    \/ \E s \in Spaces : Leaves(s)
    \/ \E k \in Calls : Calling(k)
    \/ \E p \in Flows \cup Calls : Resolves(p)
    \/ \E h \in Handles : Ends(h)

Spec == Init /\ [][Next]_vars

-----------------------------------------------------------------------------
(* Properties.                                                                *)

(* A space that may build has an authorization to build with, and CloudChef   *)
(* did not revoke it: a space that leaves the account takes nothing from the  *)
(* others there. (unusedCloudflareAuthorization, deleteOrganization,          *)
(* deleteUnusedCloudflareAuthorization.)                                      *)
ActiveSpacesKeepTheirGrant ==
    \A s \in Spaces : conn[s].active =>
        auth[conn[s].acct] # 0 /\ grant[auth[conn[s].acct]].state # "revoked"

\* Nothing Cloudflare still accepts is stored, nor will be.
Dead(h) ==
    \/ vault[h] = 0 \/ grant[h].state # "alive"
    \/ grant[h].token # vault[h] /\ ~Rotating(h)

(* A credential is taken for ended, which lets others replace it and asks its *)
(* people to connect again, only when it is, however refreshes of its one     *)
(* token race and whichever of their answers are lost: unless the very read   *)
(* that was to settle it failed, or another's rotation took longer than the   *)
(* wait. (refreshOAuthCredential, stillAuthorizes.)                           *)
EndedIsTrue ==
    \A p \in Flows \cup Calls :
        ask[p].pc = "ended" => Dead(ask[p].handle) \/ p \in misled

(* Nobody brings a space into an account where somebody else builds with an   *)
(* authorization that works: those spaces' people, not they, decide. What was *)
(* checked before still holds when the connection is written, whoever         *)
(* connected, left or reconnected meanwhile. Only a return whose settling     *)
(* read failed or came too early can be wrong. (authorizationToReplace,       *)
(* activateCloudflareConnection.)                                             *)
NobodyTakesAnAccountOver ==
    [][\A f \in Flows : LET s == flow[f].space  a == flow[f].acct IN
           /\ At(f, "activate") /\ ~At(f, "activate")'
           /\ conn'[s] # conn[s] /\ flow[f].prev.acct # a
           => RunsEveryOtherSpace(flow[f].user, s, a) \/ Dead(auth[a]) \/ f \in misled]_vars
=============================================================================
