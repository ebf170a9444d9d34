--------------------------- MODULE Accounts_proofs ---------------------------
(***************************************************************************)
(* Proofs about Accounts, for every set of accounts, links, tokens, entries*)
(* and slots and every scenario.                                           *)
(*                                                                         *)
(* The inductive invariant has one part per resource: links, sessions, the *)
(* claim of the queue, guests in the queue, the slug, recovery letters.    *)
(* Each part says what a request at a position of the table Steps may      *)
(* still do to its resource, and each is kept by the steps of all requests *)
(* that are not about it.                                                  *)
(***************************************************************************)
EXTENDS Accounts, FiniteSetTheorems, SequenceTheorems, TLAPS

Command(r) == Steps[r.op][r.pc]

\* A request whose position is one of its operation, and which knows what it
\* needs there.
Proper(r) == r \in Request /\ r.pc \in DOMAIN Steps[r.op]
Known(r) ==
    /\ r.op \in {"askLink", "verify"} => r.link \in Links
    /\ r.op \in {"deleteMe", "claim", "slug"} => r.host \in Hosts
    /\ r.op = "verify" /\ r.pc \in 5..6 => r.host \in Hosts
    /\ r.op = "social" /\ r.pc = 4 => r.host \in Hosts
    /\ r.op \in {"update", "recover"} => r.entry \in Entries
    /\ r.op = "join" /\ (r.pc = 5 \/ r.pc >= 7) => r.entry \in Entries

RequestTypes == req \in [Slots -> Request] /\ \A s \in Slots : Proper(req[s]) /\ Known(req[s])

\* The types of everything else.
MailTypes == letters \in Seq(Letter) /\ outbox \in Seq(DOMAIN letters) /\ Len(outbox) <= MailCap
StoreTypes ==
    /\ host \in [Hosts -> Host]
    /\ owner \in Hosts \cup {NoHost, Deleted}
    /\ entry \in [Entries -> Entry]
    /\ marked \subseteq Entries /\ sess \subseteq Entries /\ unmailed \subseteq Entries
    /\ link \in [Links -> {"none", "live", "spent"}]
    /\ refresh \in [Tokens -> Hosts \cup {NoHost}]
    /\ anonKey \in BOOLEAN
    /\ lock \in [Contacts -> Slots \cup {NoSlot}]
    /\ recov \in [Entries -> Nat]
    /\ cookie \in Tokens \cup {NoToken} /\ access \in Hosts \cup {NoHost}
    /\ scenario \in Scenarios /\ turns \in 0..MaxTurns
    /\ root \in [Tokens -> Tokens \cup {NoToken}]
    /\ uses \in [Links -> Nat]
    /\ out \subseteq Tokens
    /\ loose \subseteq Tokens \cup Links \cup Entries \cup Hosts \cup {"queue"}

\* A link that has been accepted and is live is about to be deleted; one that is
\* about to be stored is new, and no other request is about to store it.
Asks(r) == r.op = "askLink" /\ r.pc <= 2
Accepted(r) == r.op = "verify" /\ r.pc = 2
LinksSpent ==
    /\ LinkUsedOnce
    /\ \A l \in Links : link[l] = "none" => uses[l] = 0
    /\ \A l \in Links \ loose : link[l] = "live" /\ uses[l] > 0 =>
           \E s \in Slots : Accepted(req[s]) /\ req[s].link = l
    /\ \A s \in Slots : Accepted(req[s]) => link[req[s].link] # "none"
    /\ \A s \in Slots : Asks(req[s]) => link[req[s].link] = "none"
    /\ \A s, t \in Slots : Asks(req[s]) /\ Asks(req[t]) /\ req[s].link = req[t].link => s = t

\* Every token that is stored, sent or in the browser belongs to a session, and
\* the first token of a session belongs to it.
SessionsRooted ==
    /\ \A t \in Tokens : refresh[t] # NoHost => root[t] # NoToken
    /\ \A t \in Tokens : root[t] # NoToken => root[root[t]] = root[t]
    /\ \A t \in out : root[t] = t
    /\ cookie # NoToken => root[cookie] # NoToken
    /\ \A s \in Slots : req[s].token # NoToken => root[req[s].token] # NoToken
    /\ \A s \in Slots : req[s].op \in {"refresh", "logout"} => req[s].token # NoToken
    /\ \A s \in Slots : Command(req[s]) = "answer" /\ req[s].op # "deleteMe" => req[s].token # NoToken

\* A refresh that has read the token and has not issued the next one; one that
\* is to be answered; a request with a token that only it has.
Rotating(r) == r.op = "refresh" /\ r.pc \in 2..3
Refreshing(r) == r.op = "refresh" /\ r.pc \in 2..4
Answering(r) == Command(r) = "answer" /\ r.op \in {"verify", "social", "refresh"}
SigningOut(r) == r.op = "logout" /\ r.pc = 1

TokensPrivate ==
    \A s \in Slots : Answering(req[s]) =>
        cookie # req[s].token /\ \A t \in Slots \ {s} : req[t].token # req[s].token

LiveIn(r) == {t \in Session(r) : refresh[t] # NoHost}
Rotates(s, r) == Rotating(req[s]) /\ root[req[s].token] = r
Renews(s, r) == Refreshing(req[s]) /\ root[req[s].token] = r
Answers(s, r) == Answering(req[s]) /\ root[req[s].token] = r
SignsOut(s, r) == SigningOut(req[s]) /\ root[req[s].token] = r
Browses(r) == cookie # NoToken /\ root[cookie] = r
Renewed(r) == \E s \in Slots : Renews(s, r)

\* In each session that no race has touched: one live token; one request that
\* rotates it, and none is live from the DEL to the next one; nothing is left of a
\* session that was signed out; a token not yet answered is the only one; and the
\* browser, and a request that signs out, have the live token or the next is under
\* way.
OneToken(r) ==
    /\ \A t, u \in LiveIn(r) : t = u
    /\ \A s \in Slots : Rotates(s, r) =>
           LiveIn(r) \subseteq IF req[s].pc = 2 THEN {req[s].token} ELSE {}
    /\ \A s, t \in Slots : Rotates(s, r) /\ Rotates(t, r) => s = t
    /\ r \in out => LiveIn(r) = {} /\ \A s \in Slots : ~Rotates(s, r)
    /\ \A s \in Slots : Answers(s, r) =>
           LiveIn(r) \subseteq {req[s].token} /\ \A t \in Slots : ~Rotates(t, r)
    /\ \A s \in Slots : SignsOut(s, r) => LiveIn(r) \subseteq {req[s].token} \/ Renewed(r)
    /\ Browses(r) => LiveIn(r) \subseteq {cookie} \/ Renewed(r)
SessionsRotate == \A r \in Tokens \ loose : OneToken(r)

\* The claim of the queue: who is about to delete the account has deleted its
\* queues, and who is about to store the anonymous token has seen it anonymous.
Forgets(r) == r.op = "claim" /\ r.pc = 5
DropsHost(r) == r.op = "deleteMe" /\ r.pc = 4
ReSyncs(r) == r.op = "anon" /\ r.pc = 3
QueueOwned ==
    "queue" \notin loose =>
        /\ owner \in Hosts => Stored(owner) /\ (anonKey => \E s \in Slots : Forgets(req[s]))
        /\ \A s \in Slots : DropsHost(req[s]) => owner # req[s].host
        /\ \A s \in Slots : ReSyncs(req[s]) /\ ~req[s].loose => owner \notin Hosts

\* Guests: a join owns its lock, and what it has checked is still so.
Joining(r) == r.op = "join" /\ r.pc \in 2..6 /\ ~r.loose /\ LockKey(r) \in Contacts
Passed(r, k) == /\ r.op = "join" /\ ~r.loose /\ k \in r.contacts
                /\ \/ k = "email" /\ r.pc \in 3..4
                   \/ k = "phone" /\ r.pc = 4
Holds(e, k) == InQueue(e) /\ e \notin loose /\ k \in entry[e].contacts
GuestsApart ==
    /\ \A s \in Slots : Joining(req[s]) => lock[LockKey(req[s])] = s
    /\ \A s \in Slots, k \in Contacts : Passed(req[s], k) => \A e \in Entries : ~Holds(e, k)
    /\ \A k \in Contacts : \A e, f \in Entries : Holds(e, k) /\ Holds(f, k) => e = f

\* The slug: who is about to set it has seen nobody else with it.
SetsSlug(r) == r.op = "slug" /\ r.pc = 2
HasSlug(h) == Stored(h) /\ h \notin loose /\ host[h].slug
SlugApart ==
    /\ \A s \in Slots : SetsSlug(req[s]) /\ req[s].host \notin loose =>
           \A h \in Hosts : HasSlug(h) => h = req[s].host
    /\ \A g, h \in Hosts : HasSlug(g) /\ HasSlug(h) => g = h

\* Recovery letters: an entry is marked before its letter, by one request.
Mails(r) == Command(r) \in {"token", "mailToken", "unmark"}
IsRecovery(i, e) == i \in DOMAIN letters /\ letters[i].kind = "recovery" /\ letters[i].of = e
RecoveryMarked ==
    /\ \A s \in Slots : Mails(req[s]) => req[s].entry \in marked
    /\ \A s, t \in Slots : Mails(req[s]) /\ Mails(req[t]) /\ req[s].entry = req[t].entry => s = t
    /\ \A e \in Entries, i \in Nat : IsRecovery(i, e) =>
           e \in marked /\ \A s \in Slots : Mails(req[s]) => req[s].entry # e
    /\ \A e \in Entries, i, j \in Nat : IsRecovery(i, e) /\ IsRecovery(j, e) => i = j
    /\ \A e \in marked : \/ \E i \in Nat : IsRecovery(i, e)
                         \/ e \in unmailed
                         \/ \E s \in Slots : Mails(req[s]) /\ req[s].entry = e

\* The inductive invariant: the types, and the parts, which need no others than
\* the types.
Typed == RequestTypes /\ MailTypes /\ StoreTypes /\ SessionsRooted
IInv == /\ Typed
        /\ LinksSpent /\ TokensPrivate /\ SessionsRotate
        /\ QueueOwned /\ GuestsApart /\ SlugApart /\ RecoveryMarked
-----------------------------------------------------------------------------
(* The table of steps *)

\* The length of each operation.
LEMMA Lengths ==
    /\ DOMAIN Steps["askLink"] = 1..3 /\ DOMAIN Steps["verify"] = 1..9
    /\ DOMAIN Steps["social"] = 1..8 /\ DOMAIN Steps["refresh"] = 1..4
    /\ DOMAIN Steps["logout"] = 1..2 /\ DOMAIN Steps["slug"] = 1..2
    /\ DOMAIN Steps["deleteMe"] = 1..6 /\ DOMAIN Steps["claim"] = 1..5
    /\ DOMAIN Steps["anon"] = 1..3 /\ DOMAIN Steps["join"] = 1..10
    /\ DOMAIN Steps["update"] = 1..6 /\ DOMAIN Steps["recover"] = 1..2
    /\ DOMAIN Steps["none"] = 1..1
  BY DEF Steps, RefreshSteps, JoinSteps

\* The positions of every operation.
LEMMA Positions ==
    ASSUME NEW op \in Requests \cup {"none"}
    PROVE  DOMAIN Steps[op] = 1..Len(Steps[op]) /\ Len(Steps[op]) \in 1..11
  BY Lengths DEF Steps, RefreshSteps, JoinSteps, Requests

\* The commands of signing in, by operation and position.
LEMMA AtSignIn ==
    ASSUME NEW r, Proper(r)
    PROVE  /\ Command(r) = "method" <=> r.op = "askLink" /\ r.pc = 1
           /\ Command(r) = "storeLink" <=> r.op = "askLink" /\ r.pc = 2
           /\ Command(r) = "mailLink" <=> r.op = "askLink" /\ r.pc = 3
           /\ Command(r) = "getLink" <=> r.op = "verify" /\ r.pc = 1
           /\ Command(r) = "delLink" <=> r.op = "verify" /\ r.pc = 2
           /\ Command(r) = "findIdent" <=> r.op = "social" /\ r.pc = 1
           /\ Command(r) = "linkIdent" <=> r.op = "social" /\ r.pc = 8
           /\ Command(r) = "findEmail" <=> \/ r.op = "verify" /\ r.pc = 3
                                           \/ r.op = "social" /\ r.pc = 2
           /\ Command(r) = "insertHost" <=> \/ r.op = "verify" /\ r.pc = 4
                                            \/ r.op = "social" /\ r.pc = 3
           /\ Command(r) = "greet" <=> \/ r.op = "verify" /\ r.pc \in 5..6
                                       \/ r.op = "social" /\ r.pc = 4
           /\ Command(r) = "refind" <=> \/ r.op = "verify" /\ r.pc = 9
                                        \/ r.op = "social" /\ r.pc = 7
  BY Lengths DEF Proper, Request, Command, Steps, RefreshSteps, JoinSteps, Requests

\* The commands of sessions.
LEMMA AtSession ==
    ASSUME NEW r, Proper(r)
    PROVE  /\ Command(r) = "getToken" <=> r.op = "refresh" /\ r.pc = 1
           /\ Command(r) = "delToken" <=> \/ r.op = "refresh" /\ r.pc = 2
                                          \/ r.op = "logout" /\ r.pc = 1
           /\ Command(r) = "issue" <=> \/ r.op = "refresh" /\ r.pc = 3
                                       \/ r.op = "verify" /\ r.pc = 7
                                       \/ r.op = "social" /\ r.pc = 5
           /\ Command(r) = "answer" <=> \/ r.op = "refresh" /\ r.pc = 4
                                        \/ r.op = "verify" /\ r.pc = 8
                                        \/ r.op = "social" /\ r.pc = 6
                                        \/ r.op = "logout" /\ r.pc = 2
                                        \/ r.op = "deleteMe" /\ r.pc = 6
  BY Lengths DEF Proper, Request, Command, Steps, RefreshSteps, JoinSteps, Requests

\* The commands of the account and the claim.
LEMMA AtAccount ==
    ASSUME NEW r, Proper(r)
    PROVE  /\ Command(r) = "slugFree" <=> r.op = "slug" /\ r.pc = 1
           /\ Command(r) = "setSlug" <=> r.op = "slug" /\ r.pc = 2
           /\ Command(r) = "readMe" <=> r.op = "deleteMe" /\ r.pc = 1
           /\ Command(r) = "farewell" <=> r.op = "deleteMe" /\ r.pc = 2
           /\ Command(r) = "dropQueues" <=> r.op = "deleteMe" /\ r.pc = 3
           /\ Command(r) = "dropHost" <=> r.op = "deleteMe" /\ r.pc = 4
           /\ Command(r) = "farewellAgain" <=> r.op = "deleteMe" /\ r.pc = 5
           /\ Command(r) = "anonOwner" <=> r.op \in {"claim", "anon"} /\ r.pc = 1
           /\ Command(r) = "claimer" <=> r.op = "claim" /\ r.pc = 2
           /\ Command(r) = "queue" <=> r.op = "claim" /\ r.pc = 3
           /\ Command(r) = "claim" <=> r.op = "claim" /\ r.pc = 4
           /\ Command(r) = "forget" <=> r.op = "claim" /\ r.pc = 5
           /\ Command(r) = "anonQueue" <=> r.op = "anon" /\ r.pc = 2
           /\ Command(r) = "resync" <=> r.op = "anon" /\ r.pc = 3
  BY Lengths DEF Proper, Request, Command, Steps, RefreshSteps, JoinSteps, Requests

\* The commands of guests.
LEMMA AtGuest ==
    ASSUME NEW r, Proper(r)
    PROVE  /\ Command(r) = "lock" <=> r.op = "join" /\ r.pc = 1
           /\ Command(r) = "dupEmail" <=> r.op = "join" /\ r.pc = 2
           /\ Command(r) = "dupPhone" <=> r.op = "join" /\ r.pc = 3
           /\ Command(r) = "insertEntry" <=> r.op = "join" /\ r.pc = 4
           /\ Command(r) = "session" <=> r.op = "join" /\ r.pc = 5
           /\ Command(r) = "unlock" <=> r.op = "join" /\ r.pc = 6
           /\ Command(r) = "known" <=> r.op = "update" /\ r.pc = 1
           /\ Command(r) = "updateEntry" <=> r.op = "update" /\ r.pc = 2
           /\ Command(r) = "mark" <=> \/ r.op = "join" /\ r.pc = 7
                                      \/ r.op = "update" /\ r.pc = 3
           /\ Command(r) = "token" <=> \/ r.op = "join" /\ r.pc = 8
                                       \/ r.op = "update" /\ r.pc = 4
           /\ Command(r) = "mailToken" <=> \/ r.op = "join" /\ r.pc = 9
                                           \/ r.op = "update" /\ r.pc = 5
           /\ Command(r) = "unmark" <=> \/ r.op = "join" /\ r.pc = 10
                                        \/ r.op = "update" /\ r.pc = 6
           /\ Command(r) = "claimToken" <=> r.op = "recover" /\ r.pc = 1
           /\ Command(r) = "rejoin" <=> r.op = "recover" /\ r.pc = 2
           /\ Command(r) = "idle" <=> r.op = "none"
  BY Lengths DEF Proper, Request, Command, Steps, RefreshSteps, JoinSteps, Requests

\* A position that is the only one of its command.
LEMMA OnlyIndex ==
    ASSUME NEW op, NEW l, NEW i \in Int,
           {j \in DOMAIN Steps[op] : Steps[op][j] = l} = {i}
    PROVE  Index(op, l) = i
  BY DEF Index, Min

\* The positions that requests jump to.
LEMMA Jumps ==
    /\ Index("verify", "issue") = 7 /\ Index("verify", "refind") = 9
    /\ Index("social", "issue") = 5 /\ Index("social", "refind") = 7
    /\ Index("social", "linkIdent") = 8
    /\ Index("join", "unlock") = 6 /\ Index("join", "unmark") = 10
    /\ Index("update", "unmark") = 6
  <1>1. Index("verify", "issue") = 7 /\ Index("verify", "refind") = 9
    <2>1. /\ {j \in DOMAIN Steps["verify"] : Steps["verify"][j] = "issue"} = {7}
          /\ {j \in DOMAIN Steps["verify"] : Steps["verify"][j] = "refind"} = {9}
      BY Lengths DEF Steps
    <2> QED
      BY <2>1, OnlyIndex
  <1>2. /\ Index("social", "issue") = 5 /\ Index("social", "refind") = 7
        /\ Index("social", "linkIdent") = 8
    <2>1. /\ {j \in DOMAIN Steps["social"] : Steps["social"][j] = "issue"} = {5}
          /\ {j \in DOMAIN Steps["social"] : Steps["social"][j] = "refind"} = {7}
          /\ {j \in DOMAIN Steps["social"] : Steps["social"][j] = "linkIdent"} = {8}
      BY Lengths DEF Steps
    <2> QED
      BY <2>1, OnlyIndex
  <1>3. Index("join", "unlock") = 6 /\ Index("join", "unmark") = 10
    <2>1. /\ {j \in DOMAIN Steps["join"] : Steps["join"][j] = "unlock"} = {6}
          /\ {j \in DOMAIN Steps["join"] : Steps["join"][j] = "unmark"} = {10}
      BY Lengths DEF Steps, JoinSteps
    <2> QED
      BY <2>1, OnlyIndex
  <1>4. Index("update", "unmark") = 6
    <2>1. {j \in DOMAIN Steps["update"] : Steps["update"][j] = "unmark"} = {6}
      BY Lengths DEF Steps
    <2> QED
      BY <2>1, OnlyIndex
  <1> QED
    BY <1>1, <1>2, <1>3, <1>4

-----------------------------------------------------------------------------
(* How requests move *)

\* r is the request o, perhaps overtaken.
Alike(o, r) ==
    /\ r \in Request /\ (o.loose => r.loose)
    /\ r.op = o.op /\ r.pc = o.pc /\ r.host = o.host /\ r.token = o.token
    /\ r.link = o.link /\ r.entry = o.entry /\ r.contacts = o.contacts

\* A step of the request o goes to the next position, or jumps.
Advances(o, i) ==
    \/ i = o.pc + 1
    \/ o.op = "verify" /\ i \in {7, 9}
    \/ o.op = "social" /\ i \in {5, 7, 8}
    \/ o.op = "join" /\ o.pc < 6 /\ i = 6
    \/ o.op = "join" /\ o.pc = 8 /\ i = 10
    \/ o.op = "update" /\ i = 6 /\ o.pc = 4

\* r comes after o: it is at its end, or goes on.
GoesOn(o, r) ==
    /\ r.op = o.op /\ Advances(o, r.pc) /\ r.link = o.link /\ r.contacts = o.contacts
    /\ o.loose => r.loose
    /\ o.op \in {"verify", "social", "refresh"} \/ r.host = o.host
    /\ Command(o) = "issue" \/ r.token = o.token
    /\ (o.op = "join" /\ o.pc < 6) \/ r.entry = o.entry
After(o, r) == Proper(r) /\ Known(r) /\ (r = Idle \/ GoesOn(o, r))

\* A free slot is at a position of the idle operation.
LEMMA IdleProper ==
    /\ Idle \in Request /\ Idle.op = "none" /\ Idle.pc = 1 /\ Idle.token = NoToken
    /\ Idle.link = NoLink /\ Idle.host = NoHost /\ Idle.entry = NoEntry
    /\ Idle.ident = NoIdent /\ Idle.contacts = {} /\ ~Idle.loose /\ ~Idle.verified
    /\ Proper(Idle) /\ Known(Idle) /\ Command(Idle) = "idle"
  <1>1. /\ Idle \in Request /\ Idle.op = "none" /\ Idle.pc = 1 /\ Idle.token = NoToken
        /\ Idle.link = NoLink /\ Idle.host = NoHost /\ Idle.entry = NoEntry
        /\ Idle.ident = NoIdent /\ Idle.contacts = {} /\ ~Idle.loose /\ ~Idle.verified
    BY DEF Idle, Request
  <1>2. Proper(Idle) /\ Command(Idle) = "idle"
    BY <1>1, Lengths DEF Proper, Command, Steps
  <1> QED
    BY <1>1, <1>2 DEF Known

\* The request in a slot is at a position of its operation.
LEMMA SlotTypes ==
    ASSUME Typed, NEW s \in Slots
    PROVE  Proper(req[s]) /\ Known(req[s]) /\ req[s] \in Request /\ Step(s) = Command(req[s])
  BY DEF Typed, RequestTypes, Proper, Step, Command

\* A position before the last is followed by one.
LEMMA NextPosition ==
    ASSUME NEW n \in 1..11, NEW i \in 1..n, i # n
    PROVE  i + 1 \in 1..n /\ i + 1 \in 1..11
  OBVIOUS

\* A request r that has the operation of o goes on, or is at its end.
LEMMA OnwardAfter ==
    ASSUME NEW o, NEW r, Proper(o), r \in Request, r.op = o.op, r.pc = o.pc,
           r.link = o.link, r.contacts = o.contacts, o.loose => r.loose,
           o.op \in {"verify", "social", "refresh"} \/ r.host = o.host,
           Command(o) = "issue" \/ r.token = o.token,
           (o.op = "join" /\ o.pc < 6) \/ r.entry = o.entry,
           Known([r EXCEPT !.pc = r.pc + 1])
    PROVE  After(o, Onward(r)) /\ (Onward(r) = Idle \/ Onward(r) = [r EXCEPT !.pc = r.pc + 1])
  <1>1. /\ r.pc \in 1..Len(Steps[r.op]) /\ Len(Steps[r.op]) \in 1..11
        /\ DOMAIN Steps[r.op] = 1..Len(Steps[r.op])
    BY Positions DEF Proper, Request
  <1>2. CASE r.pc = Len(Steps[r.op])
    BY <1>2, IdleProper DEF Onward, After
  <1>3. CASE r.pc # Len(Steps[r.op])
    <2> DEFINE n == [r EXCEPT !.pc = r.pc + 1]
    <2>1. Onward(r) = n
      BY <1>3 DEF Onward
    <2>2. r.pc + 1 \in 1..11 /\ r.pc + 1 \in DOMAIN Steps[r.op]
      BY <1>1, <1>3, NextPosition
    <2>3. /\ n \in Request /\ n.op = r.op /\ n.pc = r.pc + 1 /\ n.link = r.link
          /\ n.contacts = r.contacts /\ n.loose = r.loose /\ n.host = r.host
          /\ n.token = r.token /\ n.entry = r.entry
      BY <2>2 DEF Request
    <2> QED
      BY <2>1, <2>2, <2>3 DEF After, Proper, GoesOn, Advances
  <1> QED
    BY <1>2, <1>3

\* The slot s goes on, and no other does.
Moved(s) ==
    /\ After(req[s], req'[s])
    /\ \A t \in Slots : t # s => Alike(req[t], req'[t])
    /\ req' = [t \in Slots |-> req'[t]]

\* A request that is overtaken stays proper and knows what it knew.
LEMMA AlikeProper ==
    ASSUME NEW o, NEW r, Alike(o, r), Proper(o), Known(o)
    PROVE  Proper(r) /\ Known(r) /\ Command(r) = Command(o)
  BY DEF Alike, Proper, Known, Command

\* A move keeps the types of the requests.
LEMMA MovedTypes ==
    ASSUME Typed, NEW s \in Slots, Moved(s)
    PROVE  RequestTypes'
  <1>1. \A t \in Slots : Proper(req'[t]) /\ Known(req'[t])
    BY SlotTypes, AlikeProper DEF Moved, After
  <1> QED
    BY <1>1 DEF Moved, RequestTypes, Proper, Known

\* A slot that gets a request that comes after its own moves.
LEMMA BecomeMoves ==
    ASSUME Typed, NEW s \in Slots, NEW r, Become(s, r), After(req[s], r)
    PROVE  Moved(s) /\ req'[s] = r
  <1>1. req \in [Slots -> Request] /\ req' = [req EXCEPT ![s] = r]
    BY DEF Typed, RequestTypes, Become
  <1> QED
    BY <1>1 DEF Moved, Alike

\* A request that ends moves.
LEMMA FinishMoves ==
    ASSUME Typed, NEW s \in Slots, Finish(s)
    PROVE  Moved(s) /\ req'[s] = Idle
  BY IdleProper, BecomeMoves DEF Finish, After

\* A request that only goes to its next command moves.
LEMMA ContinueMoves ==
    ASSUME Typed, NEW s \in Slots, Continue(s),
           Step(s) \notin {"insertHost", "insertEntry", "unlock"}
    PROVE  Moved(s) /\ (req'[s] = Idle \/ req'[s] = [req[s] EXCEPT !.pc = req[s].pc + 1])
  <1> DEFINE o == req[s]
             n == [o EXCEPT !.pc = o.pc + 1]
  <1>1. Proper(o) /\ Known(o) /\ o \in Request /\ Step(s) = Command(o)
    BY SlotTypes
  <1>2. n.op = o.op /\ n.pc = o.pc + 1 /\ n.link = o.link /\ n.host = o.host /\ n.entry = o.entry
    BY <1>1 DEF Request
  <1>3. Known(n)
    BY <1>1, <1>2, AtSignIn, AtGuest DEF Known, Proper, Request
  <1>4. After(o, Onward(o)) /\ (Onward(o) = Idle \/ Onward(o) = n)
    BY <1>1, <1>3, OnwardAfter
  <1> QED
    BY <1>4, BecomeMoves DEF Continue

\* So does one that jumps.
LEMMA JumpMoves ==
    ASSUME Typed, NEW s \in Slots, NEW r \in Request, NEW i \in Nat,
           Become(s, [r EXCEPT !.pc = i]), i \in DOMAIN Steps[r.op], i \in 1..11,
           Alike(req[s], r) \/ (/\ req[s].op \in {"verify", "social"} /\ r.op = req[s].op
                                /\ r.link = req[s].link /\ r.contacts = req[s].contacts
                                /\ r.token = req[s].token /\ r.entry = req[s].entry
                                /\ req[s].loose => r.loose)
                            \/ (/\ req[s].op = "join" /\ req[s].pc < 6 /\ r.op = req[s].op
                                /\ r.link = req[s].link /\ r.contacts = req[s].contacts
                                /\ r.token = req[s].token /\ r.host = req[s].host
                                /\ req[s].loose => r.loose),
           Advances(req[s], i), Known([r EXCEPT !.pc = i])
    PROVE  Moved(s) /\ req'[s] = [r EXCEPT !.pc = i]
  <1> DEFINE n == [r EXCEPT !.pc = i]
  <1>1. /\ n \in Request /\ n.op = r.op /\ n.pc = i /\ n.link = r.link /\ n.host = r.host
        /\ n.contacts = r.contacts /\ n.loose = r.loose /\ n.token = r.token /\ n.entry = r.entry
    BY DEF Request
  <1>2. Proper(n) /\ Known(n)
    BY <1>1 DEF Proper
  <1>3. GoesOn(req[s], n)
    BY <1>1 DEF GoesOn, Alike
  <1> QED
    BY <1>2, <1>3, BecomeMoves DEF After

\* The document that a request finds is one of those it asked for.
LEMMA FoundOne ==
    ASSUME NEW H \in SUBSET Hosts
    PROVE  FoundIn(H) \in Hosts \cup {NoHost} /\ (FoundIn(H) # NoHost => FoundIn(H) \in H)
  BY DEF FoundIn

\* Signing in moves the request.
LEMMA SignInMoves ==
    ASSUME Typed, NEW s \in Slots,
           \/ CheckAuthMethod(s) \/ StoreLink(s) \/ MailLink(s) \/ GetLink(s) \/ DeleteLink(s)
           \/ FindIdent(s) \/ FindEmail(s) \/ LinkIdent(s) \/ InsertHost(s) \/ Refind(s)
           \/ Greet(s)
    PROVE  Moved(s)
  <1> DEFINE o == req[s]
  <1>0. Proper(o) /\ Known(o) /\ o \in Request /\ Step(s) = Command(o)
    BY SlotTypes
  <1>1. CASE CheckAuthMethod(s) \/ StoreLink(s) \/ MailLink(s) \/ GetLink(s) \/ DeleteLink(s)
             \/ Greet(s)
    BY <1>1, ContinueMoves, FinishMoves
       DEF CheckAuthMethod, StoreLink, MailLink, GetLink, DeleteLink, Greet, At
  <1>2. ASSUME NEW h \in Hosts, NEW l \in {"issue", "linkIdent"},
               o.op \in {"verify", "social"}, l = "linkIdent" => o.op = "social",
               Become(s, JumpedTo([o EXCEPT !.host = h], l))
        PROVE  Moved(s)
    <2> DEFINE r == [o EXCEPT !.host = h]
               i == Index(o.op, l)
    <2>1. /\ r \in Request /\ r.op = o.op /\ r.link = o.link /\ r.contacts = o.contacts
          /\ r.token = o.token /\ r.entry = o.entry /\ r.loose = o.loose
      BY <1>0 DEF Request
    <2>2. /\ i \in IF o.op = "verify" THEN {7} ELSE {5, 8}
          /\ JumpedTo(r, l) = [r EXCEPT !.pc = i]
      BY <1>2, <2>1, Jumps DEF JumpedTo
    <2>3. Known([r EXCEPT !.pc = i])
      BY <1>0, <1>2, <2>1, <2>2 DEF Known, Request
    <2>4. i \in DOMAIN Steps[r.op] /\ i \in 1..11 /\ i \in Nat /\ Advances(o, i)
      BY <1>2, <2>1, <2>2, Lengths DEF Advances
    <2> HIDE DEF r, i
    <2>5. Become(s, [r EXCEPT !.pc = i])
      BY <1>2, <2>2 DEF r
    <2> QED
      BY <1>2, <2>1, <2>3, <2>4, <2>5, JumpMoves
  <1>3. WithEmail \subseteq Hosts /\ \A i \in Idents \cup {NoIdent} : WithIdent(i) \subseteq Hosts
    BY DEF WithEmail, WithIdent, StoredHosts
  <1>4. CASE FindIdent(s)
    <2>1. o.op = "social"
      BY <1>0, <1>4, AtSignIn DEF FindIdent, At
    <2>2. FoundIn(WithIdent(o.ident)) \in Hosts \cup {NoHost}
      BY <1>0, <1>3, FoundOne DEF Request
    <2> QED
      BY <1>0, <1>2, <1>4, <2>1, <2>2, ContinueMoves DEF FindIdent, At
  <1>5. CASE FindEmail(s)
    <2>1. o.op \in {"verify", "social"}
      BY <1>0, <1>5, AtSignIn DEF FindEmail, At
    <2>2. FoundIn(IF o.verified THEN WithEmail ELSE {}) \in Hosts \cup {NoHost}
      BY <1>3, FoundOne
    <2> QED
      BY <1>0, <1>2, <1>5, <2>1, <2>2, ContinueMoves, FinishMoves DEF FindEmail, At
  <1>6. CASE Refind(s)
    <2>1. o.op \in {"verify", "social"}
      BY <1>0, <1>6, AtSignIn DEF Refind, At
    <2>2. FoundIn(IF o.op = "verify" THEN WithEmail ELSE WithIdent(o.ident))
            \in Hosts \cup {NoHost}
      BY <1>0, <1>3, FoundOne DEF Request
    <2> QED
      BY <1>0, <1>2, <1>6, <2>1, <2>2, FinishMoves DEF Refind, At
  <1>7. CASE LinkIdent(s)
    <2>1. o.op = "social" /\ o.pc = 8
      BY <1>0, <1>7, AtSignIn DEF LinkIdent, At
    <2>2. CASE Jump(s, "issue")
      <3>1. Become(s, [o EXCEPT !.pc = 5])
        BY <2>1, <2>2, Jumps DEF Jump, JumpedTo
      <3>2. Known([o EXCEPT !.pc = 5])
        BY <1>0, <2>1 DEF Known, Request
      <3>3. Alike(o, o) /\ 5 \in DOMAIN Steps[o.op] /\ Advances(o, 5)
        BY <1>0, <2>1, Lengths DEF Alike, Advances
      <3> QED
        BY <1>0, <3>1, <3>2, <3>3, JumpMoves
    <2> QED
      BY <1>7, <2>2, FinishMoves DEF LinkIdent
  <1>8. CASE InsertHost(s)
    <2>1. (o.op = "verify" /\ o.pc = 4) \/ (o.op = "social" /\ o.pc = 3)
      BY <1>0, <1>8, AtSignIn DEF InsertHost, At
    <2>2. CASE Jump(s, "refind")
      <3> DEFINE i == IF o.op = "verify" THEN 9 ELSE 7
      <3>1. Become(s, [o EXCEPT !.pc = i])
        BY <2>1, <2>2, Jumps DEF Jump, JumpedTo
      <3>2. Known([o EXCEPT !.pc = i])
        BY <1>0, <2>1 DEF Known, Request
      <3>3. Alike(o, o) /\ i \in DOMAIN Steps[o.op] /\ Advances(o, i)
        BY <1>0, <2>1, Lengths DEF Alike, Advances
      <3> QED
        BY <1>0, <3>1, <3>2, <3>3, JumpMoves
    <2>3. ASSUME NEW h \in Hosts, Become(s, Onward([o EXCEPT !.host = h]))
          PROVE  Moved(s)
      <3> DEFINE r == [o EXCEPT !.host = h]
      <3>1. /\ r \in Request /\ r.op = o.op /\ r.pc = o.pc /\ r.link = o.link /\ r.host = h
            /\ r.contacts = o.contacts /\ r.loose = o.loose /\ r.token = o.token /\ r.entry = o.entry
        BY <1>0 DEF Request
      <3>2. Known([r EXCEPT !.pc = r.pc + 1])
        BY <1>0, <2>1, <3>1 DEF Known, Request
      <3>3. After(o, Onward(r))
        BY <1>0, <2>1, <3>1, <3>2, OnwardAfter
      <3> QED
        BY <2>3, <3>3, BecomeMoves
    <2> QED
      BY <1>8, <2>2, <2>3 DEF InsertHost
  <1> QED
    BY <1>1, <1>4, <1>5, <1>6, <1>7, <1>8

\* Sessions move the request.
LEMMA SessionMoves ==
    ASSUME Typed, NEW s \in Slots,
           GetToken(s) \/ DeleteToken(s) \/ IssueToken(s) \/ Answer(s)
    PROVE  Moved(s)
  <1> DEFINE o == req[s]
  <1>0. Proper(o) /\ Known(o) /\ o \in Request /\ Step(s) = Command(o)
    BY SlotTypes
  <1>1. CASE DeleteToken(s) \/ Answer(s)
    BY <1>1, ContinueMoves, FinishMoves DEF DeleteToken, Answer, At
  <1>2. CASE GetToken(s)
    <2>1. o.op = "refresh" /\ o.pc = 1
      BY <1>0, <1>2, AtSession DEF GetToken, At
    <2>2. CASE refresh[o.token] # NoHost
      <3> DEFINE r == [o EXCEPT !.host = refresh[o.token]]
      <3>1. refresh[o.token] \in Hosts
        BY <1>0, <2>1, <2>2 DEF Typed, SessionsRooted, StoreTypes, Request
      <3>2. /\ r \in Request /\ r.op = o.op /\ r.pc = o.pc /\ r.link = o.link
            /\ r.contacts = o.contacts /\ r.loose = o.loose /\ r.token = o.token
            /\ r.entry = o.entry
        BY <1>0, <3>1 DEF Request
      <3>3. Known([r EXCEPT !.pc = r.pc + 1])
        BY <2>1, <3>2 DEF Known, Request
      <3>4. After(o, Onward(r))
        BY <1>0, <2>1, <3>2, <3>3, OnwardAfter
      <3> QED
        BY <1>2, <2>2, <3>4, BecomeMoves DEF GetToken
    <2> QED
      BY <1>2, <2>2, FinishMoves DEF GetToken
  <1>3. CASE IssueToken(s)
    <2>1. PICK t \in Tokens : Become(s, Onward([o EXCEPT !.token = t]))
      BY <1>3 DEF IssueToken
    <2> DEFINE r == [o EXCEPT !.token = t]
    <2>2. /\ r \in Request /\ r.op = o.op /\ r.pc = o.pc /\ r.link = o.link
          /\ r.contacts = o.contacts /\ r.loose = o.loose /\ r.host = o.host
          /\ r.entry = o.entry
      BY <1>0 DEF Request
    <2>3. o.op \in {"refresh", "verify", "social"} /\ Command(o) = "issue"
      BY <1>0, <1>3, AtSession DEF IssueToken, At
    <2>4. /\ o.op = "refresh" => o.pc = 3
          /\ o.op = "verify" => o.pc = 7
          /\ o.op = "social" => o.pc = 5
      BY <1>0, <2>3, AtSession
    <2>5. Known([r EXCEPT !.pc = r.pc + 1])
      BY <1>0, <2>2, <2>3, <2>4 DEF Known, Request
    <2>6. After(o, Onward(r))
      BY <1>0, <2>2, <2>3, <2>5, OnwardAfter
    <2> QED
      BY <2>1, <2>6, BecomeMoves
  <1> QED
    BY <1>1, <1>2, <1>3

\* The account and the claim move the request, and the claim marks others.
LEMMA AccountMoves ==
    ASSUME Typed, NEW s \in Slots,
           \/ SlugFree(s) \/ SetSlug(s) \/ ReadMe(s) \/ Farewell(s) \/ DropQueues(s)
           \/ DropHost(s) \/ AnonOwner(s) \/ Claimer(s) \/ GetQueue(s) \/ ClaimQueue(s)
           \/ ForgetAnonHost(s) \/ AnonQueue(s) \/ ReSync(s)
    PROVE  Moved(s)
  <1> DEFINE o == req[s]
  <1>0. Proper(o) /\ Known(o) /\ o \in Request /\ Step(s) = Command(o)
    BY SlotTypes
  <1>1. CASE \/ SlugFree(s) \/ SetSlug(s) \/ Farewell(s) \/ DropQueues(s) \/ DropHost(s)
             \/ AnonOwner(s) \/ Claimer(s) \/ GetQueue(s)
             \/ ForgetAnonHost(s) \/ AnonQueue(s) \/ ReSync(s)
    BY <1>1, ContinueMoves, FinishMoves
       DEF SlugFree, SetSlug, Farewell, DropQueues, DropHost, AnonOwner, Claimer, GetQueue,
           ForgetAnonHost, AnonQueue, ReSync, At
  <1>2. CASE ReadMe(s)
    <2> DEFINE v == o.host \in WithEmail
               r == [o EXCEPT !.verified = v]
    <2>0. v \in BOOLEAN
      OBVIOUS
    <2> HIDE DEF v
    <2>1. o.op = "deleteMe" /\ o.pc = 1
      BY <1>0, <1>2, AtAccount DEF ReadMe, At
    <2>2. /\ r \in Request /\ r.op = o.op /\ r.pc = o.pc /\ r.link = o.link
          /\ r.contacts = o.contacts /\ r.loose = o.loose /\ r.host = o.host
          /\ r.entry = o.entry /\ r.token = o.token
      BY <1>0, <2>0 DEF Request
    <2>3. Known([r EXCEPT !.pc = r.pc + 1])
      BY <1>0, <2>1, <2>2 DEF Known, Request
    <2>4. After(o, Onward(r))
      BY <1>0, <2>2, <2>3, OnwardAfter
    <2> QED
      BY <1>2, <2>4, BecomeMoves DEF ReadMe, v
  <1>3. CASE ClaimQueue(s)
    <2>1. o.op = "claim" /\ o.pc = 4
      BY <1>0, <1>3, AtAccount DEF ClaimQueue, At
    <2>2. Known([o EXCEPT !.pc = o.pc + 1])
      BY <1>0, <2>1 DEF Known, Request
    <2>3. After(o, Onward(o))
      BY <1>0, <2>2, OnwardAfter
    <2>4. /\ req'[s] = Onward(o) /\ req' = [t \in Slots |-> req'[t]]
          /\ \A t \in Slots : t # s => req'[t] \in {req[t], [req[t] EXCEPT !.loose = TRUE]}
      BY <1>3 DEF ClaimQueue
    <2>5. \A t \in Slots : t # s => Alike(req[t], req'[t])
      <3> TAKE t \in Slots
      <3> HAVE t # s
      <3>1. req[t] \in Request
        BY SlotTypes
      <3>2. CASE req'[t] = req[t]
        BY <3>1, <3>2 DEF Alike
      <3>3. CASE req'[t] = [req[t] EXCEPT !.loose = TRUE]
        BY <3>1, <3>3 DEF Alike, Request
      <3> QED
        BY <2>4, <3>2, <3>3
    <2> QED
      BY <2>3, <2>4, <2>5 DEF Moved
  <1> QED
    BY <1>1, <1>2, <1>3

\* A check that lets the join go on may have marked it.
LEMMA CheckAfter ==
    ASSUME Typed, NEW s \in Slots, Step(s) \in {"dupEmail", "dupPhone"},
           NEW b \in BOOLEAN, req[s].loose => b
    PROVE  /\ After(req[s], Onward([req[s] EXCEPT !.loose = b]))
           /\ \/ Onward([req[s] EXCEPT !.loose = b]) = Idle
              \/ Onward([req[s] EXCEPT !.loose = b]).loose = b
  <1> DEFINE o == req[s]
             r == [o EXCEPT !.loose = b]
  <1>0. Proper(o) /\ Known(o) /\ o \in Request /\ Step(s) = Command(o)
    BY SlotTypes
  <1>1. o.op = "join" /\ o.pc \in 2..3
    BY <1>0, AtGuest
  <1>2. /\ r \in Request /\ r.op = o.op /\ r.pc = o.pc /\ r.link = o.link
        /\ r.contacts = o.contacts /\ r.loose = b /\ r.host = o.host
        /\ r.entry = o.entry /\ r.token = o.token
    BY <1>0 DEF Request
  <1>3. Known([r EXCEPT !.pc = r.pc + 1])
    BY <1>1, <1>2 DEF Known, Request
  <1>4. [r EXCEPT !.pc = r.pc + 1].loose = b
    BY <1>2 DEF Request
  <1> HIDE DEF r
  <1>5. (o.op = "join" /\ o.pc < 6) \/ r.entry = o.entry
    BY <1>2
  <1>6. After(o, Onward(r)) /\ (Onward(r) = Idle \/ Onward(r) = [r EXCEPT !.pc = r.pc + 1])
    BY <1>0, <1>2, <1>3, <1>5, OnwardAfter
  <1> QED
    BY <1>4, <1>6 DEF r

\* What a check makes of its join.
LEMMA CheckBecomes ==
    ASSUME NEW s \in Slots, CheckDuplicate(s)
    PROVE  \E k \in Contacts :
             /\ Step(s) = IF k = "email" THEN "dupEmail" ELSE "dupPhone"
             /\ \/ /\ k \in req[s].contacts
                   /\ \E e \in Entries : Live(e) /\ k \in entry[e].contacts
                   /\ Jump(s, "unlock")
                \/ \E b \in BOOLEAN :
                      /\ req[s].loose => b
                      /\ ~b /\ k \in req[s].contacts =>
                            \A e \in Entries : k \in entry[e].contacts => ~InQueue(e)
                      /\ Become(s, Onward([req[s] EXCEPT !.loose = b]))
  <1>1. PICK k \in Contacts :
         /\ Step(s) = IF k = "email" THEN "dupEmail" ELSE "dupPhone"
         /\ LET held == {e \in Entries : k \in req[s].contacts \cap entry[e].contacts}
            IN  IF \E e \in held : Live(e)
                THEN Jump(s, "unlock")
                ELSE Become(s, Onward([req[s] EXCEPT
                         !.loose = req[s].loose \/ \E e \in held : InQueue(e)]))
    BY DEF CheckDuplicate, At
  <1> DEFINE held == {e \in Entries : k \in req[s].contacts \cap entry[e].contacts}
             b == req[s].loose \/ \E e \in held : InQueue(e)
  <1>2. CASE \E e \in held : Live(e)
    BY <1>1, <1>2
  <1>3. CASE ~\E e \in held : Live(e)
    <2>1. b \in BOOLEAN /\ (req[s].loose => b)
      OBVIOUS
    <2>2. ~b /\ k \in req[s].contacts =>
            \A e \in Entries : k \in entry[e].contacts => ~InQueue(e)
      OBVIOUS
    <2>3. Become(s, Onward([req[s] EXCEPT !.loose = b]))
      BY <1>1, <1>3
    <2> HIDE DEF b
    <2> QED
      BY <1>1, <2>1, <2>2, <2>3
  <1> QED
    BY <1>2, <1>3

\* Guests move the request, and a new entry marks others.
LEMMA GuestMoves ==
    ASSUME Typed, NEW s \in Slots,
           \/ AcquireJoinLock(s) \/ CheckDuplicate(s) \/ InsertEntry(s) \/ SetSession(s)
           \/ ReleaseJoinLock(s) \/ SessionKnown(s) \/ UpdateEntry(s)
           \/ MarkRecovery(s) \/ GenerateToken(s) \/ MailToken(s) \/ UnmarkRecovery(s)
           \/ ClaimToken(s) \/ Rejoin(s)
    PROVE  Moved(s)
  <1> DEFINE o == req[s]
  <1>0. Proper(o) /\ Known(o) /\ o \in Request /\ Step(s) = Command(o)
    BY SlotTypes
  <1>1. CASE \/ AcquireJoinLock(s) \/ SetSession(s) \/ SessionKnown(s) \/ UpdateEntry(s)
             \/ MarkRecovery(s) \/ GenerateToken(s) \/ MailToken(s) \/ UnmarkRecovery(s)
             \/ ClaimToken(s) \/ Rejoin(s)
    BY <1>1, ContinueMoves, FinishMoves
       DEF AcquireJoinLock, SetSession, SessionKnown, UpdateEntry, MarkRecovery, GenerateToken,
           MailToken, UnmarkRecovery, ClaimToken, Rejoin, At
  <1>2. CASE CheckDuplicate(s)
    <2>0. Step(s) \in {"dupEmail", "dupPhone"}
      BY <1>2 DEF CheckDuplicate, At
    <2>1. o.op = "join" /\ o.pc \in 2..3
      BY <1>0, <2>0, AtGuest
    <2>2. CASE Jump(s, "unlock")
      <3>1. Become(s, [o EXCEPT !.pc = 6])
        BY <2>1, <2>2, Jumps DEF Jump, JumpedTo
      <3>2. Known([o EXCEPT !.pc = 6])
        BY <1>0, <2>1 DEF Known, Request
      <3>3. Alike(o, o) /\ 6 \in DOMAIN Steps[o.op] /\ Advances(o, 6)
        BY <1>0, <2>1, Lengths DEF Alike, Advances
      <3> QED
        BY <1>0, <3>1, <3>2, <3>3, JumpMoves
    <2>3. ASSUME NEW b \in BOOLEAN, o.loose => b, Become(s, Onward([o EXCEPT !.loose = b]))
          PROVE  Moved(s)
      <3>1. After(o, Onward([o EXCEPT !.loose = b]))
        BY <2>0, <2>3, CheckAfter
      <3> QED
        BY <2>3, <3>1, BecomeMoves
    <2> QED
      BY <1>2, <2>2, <2>3, CheckBecomes
  <1>3. CASE ReleaseJoinLock(s)
    <2>1. o.op = "join" /\ o.pc = 6
      BY <1>0, <1>3, AtGuest DEF ReleaseJoinLock, At
    <2>2. After(o, AfterJoin(o))
      <3>1. CASE o.entry # NoEntry
        <4>1. Known([o EXCEPT !.pc = o.pc + 1])
          BY <1>0, <2>1, <3>1 DEF Known, Request
        <4> QED
          BY <1>0, <4>1, OnwardAfter, IdleProper DEF AfterJoin, After
      <3> QED
        BY <3>1, IdleProper DEF AfterJoin, After
    <2> QED
      BY <1>3, <2>2, BecomeMoves DEF ReleaseJoinLock
  <1>4. CASE InsertEntry(s)
    <2>1. o.op = "join" /\ o.pc = 4
      BY <1>0, <1>4, AtGuest DEF InsertEntry, At
    <2>2. PICK e \in Entries : req' = [r \in Slots |->
                IF r = s THEN Onward([req[s] EXCEPT !.entry = e])
                ELSE IF /\ r \in Others(s, "join", {"insertEntry"})
                        /\ req[r].contacts \cap req[s].contacts # {}
                        /\ LockKey(req[r]) # LockKey(req[s])
                     THEN [req[r] EXCEPT !.loose = TRUE] ELSE req[r]]
      BY <1>4 DEF InsertEntry
    <2> DEFINE r == [o EXCEPT !.entry = e]
    <2>3. /\ r \in Request /\ r.op = o.op /\ r.pc = o.pc /\ r.link = o.link
          /\ r.contacts = o.contacts /\ r.loose = o.loose /\ r.host = o.host
          /\ r.entry = e /\ r.token = o.token
      BY <1>0 DEF Request
    <2>4. Known([r EXCEPT !.pc = r.pc + 1])
      BY <2>1, <2>3 DEF Known, Request
    <2> HIDE DEF r
    <2>5. After(o, Onward(r))
      <3>1. (o.op = "join" /\ o.pc < 6) \/ r.entry = o.entry
        BY <2>1
      <3> QED
        BY <1>0, <2>3, <2>4, <3>1, OnwardAfter
    <2> USE DEF r
    <2>6. /\ req'[s] = Onward(r) /\ req' = [t \in Slots |-> req'[t]]
          /\ \A t \in Slots : t # s => req'[t] \in {req[t], [req[t] EXCEPT !.loose = TRUE]}
      BY <2>2
    <2>7. \A t \in Slots : t # s => Alike(req[t], req'[t])
      <3> TAKE t \in Slots
      <3> HAVE t # s
      <3>1. req[t] \in Request
        BY SlotTypes
      <3>2. CASE req'[t] = req[t]
        BY <3>1, <3>2 DEF Alike
      <3>3. CASE req'[t] = [req[t] EXCEPT !.loose = TRUE]
        BY <3>1, <3>3 DEF Alike, Request
      <3> QED
        BY <2>6, <3>2, <3>3
    <2> QED
      BY <2>5, <2>6, <2>7 DEF Moved
  <1> QED
    BY <1>1, <1>2, <1>3, <1>4

\* Every command moves the request that sends it.
LEMMA HandlerMoves ==
    ASSUME Typed, NEW s \in Slots, Handler(s)
    PROVE  Moved(s)
  BY SignInMoves, SessionMoves, AccountMoves, GuestMoves DEF Handler


\* What a failed command leaves of its request.
LEMMA FailureAfter ==
    ASSUME Typed, NEW s \in Slots, Step(s) \notin Local
    PROVE  After(req[s], AfterFailure(s))
  <1> DEFINE o == req[s]
  <1>0. Proper(o) /\ Known(o) /\ o \in Request /\ Step(s) = Command(o)
    BY SlotTypes
  <1>1. ASSUME Step(s) \notin {"insertHost", "insertEntry", "unlock"}
        PROVE  After(o, Onward(o))
    <2> DEFINE n == [o EXCEPT !.pc = o.pc + 1]
    <2>1. n.op = o.op /\ n.pc = o.pc + 1 /\ n.link = o.link /\ n.host = o.host /\ n.entry = o.entry
      BY <1>0 DEF Request
    <2>2. Known(n)
      BY <1>0, <1>1, <2>1, AtSignIn, AtGuest DEF Known, Proper, Request
    <2> QED
      BY <1>0, <2>2, OnwardAfter
  <1>2. CASE \/ Step(s) \in Ignored \/ (Step(s) = "findEmail" /\ o.op = "verify")
             \/ (Step(s) = "anonOwner" /\ o.op = "anon")
    BY <1>1, <1>2 DEF AfterFailure, At, Ignored
  <1>3. CASE Step(s) \in {"dupEmail", "dupPhone"}
    <2> DEFINE r == [o EXCEPT !.loose = TRUE]
    <2>1. o.op = "join" /\ o.pc \in 2..3
      BY <1>0, <1>3, AtGuest
    <2>2. /\ r \in Request /\ r.op = o.op /\ r.pc = o.pc /\ r.link = o.link
          /\ r.contacts = o.contacts /\ r.loose /\ r.host = o.host
          /\ r.entry = o.entry /\ r.token = o.token
      BY <1>0 DEF Request
    <2>3. Known([r EXCEPT !.pc = r.pc + 1])
      BY <2>1, <2>2 DEF Known, Request
    <2>4. AfterFailure(s) = Onward(r)
      BY <1>3 DEF AfterFailure, At, Ignored
    <2> HIDE DEF r
    <2>5. (o.op = "join" /\ o.pc < 6) \/ r.entry = o.entry
      BY <2>2
    <2> QED
      BY <1>0, <2>2, <2>3, <2>4, OnwardAfter
  <1>4. CASE Step(s) \in {"insertEntry", "session"}
    <2> DEFINE p == [o EXCEPT !.entry = NoEntry]
               r == [p EXCEPT !.pc = 6]
    <2>1. o.op = "join" /\ o.pc \in 4..5
      BY <1>0, <1>4, AtGuest
    <2>0. /\ p \in Request /\ p.op = o.op /\ p.link = o.link
          /\ p.contacts = o.contacts /\ p.loose = o.loose /\ p.host = o.host /\ p.token = o.token
      BY <1>0 DEF Request
    <2> HIDE DEF p
    <2>2. /\ r \in Request /\ r.op = o.op /\ r.pc = 6 /\ r.link = o.link
          /\ r.contacts = o.contacts /\ r.loose = o.loose /\ r.host = o.host /\ r.token = o.token
      BY <2>0 DEF Request
    <2>3. Proper(r) /\ Known(r) /\ GoesOn(o, r)
      BY <2>1, <2>2, Lengths DEF Proper, Known, GoesOn, Advances
    <2>4. AfterFailure(s) = r
      BY <1>0, <1>4, <2>0, <2>1, Jumps DEF AfterFailure, At, Ignored, JumpedTo, p
    <2> QED
      BY <2>3, <2>4 DEF After
  <1>5. CASE Step(s) = "unlock"
    <2>1. o.op = "join" /\ o.pc = 6
      BY <1>0, <1>5, AtGuest
    <2>2. CASE o.entry # NoEntry
      <3>1. Known([o EXCEPT !.pc = o.pc + 1])
        BY <1>0, <2>1, <2>2 DEF Known, Request
      <3>2. After(o, AfterJoin(o))
        BY <1>0, <3>1, OnwardAfter, IdleProper DEF AfterJoin, After
      <3> QED
        BY <1>5, <3>2 DEF AfterFailure, At, Ignored
    <2>3. CASE o.entry = NoEntry
      BY <1>5, <2>3, IdleProper DEF AfterFailure, At, Ignored, AfterJoin, After
    <2> QED
      BY <2>2, <2>3
  <1>6. CASE Step(s) = "token"
    <2> DEFINE i == IF o.op = "join" THEN 10 ELSE 6
               r == [o EXCEPT !.pc = i]
    <2>1. (o.op = "join" /\ o.pc = 8) \/ (o.op = "update" /\ o.pc = 4)
      BY <1>0, <1>6, AtGuest
    <2>2. /\ r \in Request /\ r.op = o.op /\ r.pc = i /\ r.link = o.link /\ r.entry = o.entry
          /\ r.contacts = o.contacts /\ r.loose = o.loose /\ r.host = o.host /\ r.token = o.token
      BY <1>0 DEF Request
    <2>3. Proper(r) /\ Known(r) /\ GoesOn(o, r)
      BY <1>0, <2>1, <2>2, Lengths DEF Proper, Known, GoesOn, Advances
    <2>4. AfterFailure(s) = r
      BY <1>0, <1>6, <2>1, Jumps DEF AfterFailure, At, Ignored, JumpedTo
    <2> QED
      BY <2>3, <2>4 DEF After
  <1>7. CASE /\ Step(s) \notin Ignored /\ ~(Step(s) = "findEmail" /\ o.op = "verify")
             /\ ~(Step(s) = "anonOwner" /\ o.op = "anon")
             /\ Step(s) \notin {"dupEmail", "dupPhone", "insertEntry", "session", "unlock", "token"}
    <2>1. AfterFailure(s) = Idle
      BY <1>7 DEF AfterFailure, At
    <2> QED
      BY <2>1, IdleProper DEF After
  <1> QED
    BY <1>2, <1>3, <1>4, <1>5, <1>6, <1>7

\* A command that fails moves its request, too.
LEMMA FailMoves ==
    ASSUME Typed, NEW s \in Slots, CommandFails(s)
    PROVE  Moved(s) /\ req'[s] = AfterFailure(s)
  BY FailureAfter, BecomeMoves DEF CommandFails

-----------------------------------------------------------------------------
(* What the commands leave alone *)

\* Each variable is changed by few commands.
Keeps(s) ==
    /\ Step(s) \notin {"linkIdent", "insertHost", "setSlug", "dropHost"} => host' = host
    /\ Step(s) \notin {"dropQueues", "claim"} => owner' = owner
    /\ Step(s) \notin {"insertEntry", "updateEntry"} => entry' = entry
    /\ Step(s) \notin {"mark", "unmark"} => marked' = marked
    /\ Step(s) \notin {"storeLink", "delLink"} => link' = link
    /\ Step(s) \notin {"delToken", "issue"} => refresh' = refresh
    /\ Step(s) \notin {"forget", "resync"} => anonKey' = anonKey
    /\ Step(s) \notin {"lock", "unlock"} => lock' = lock
    /\ Step(s) \notin {"session", "known", "rejoin"} => sess' = sess
    /\ Step(s) \notin {"token", "claimToken"} => recov' = recov
    /\ Step(s) \notin {"mailLink", "greet", "farewell", "farewellAgain", "mailToken"}
           => letters' = letters /\ outbox' = outbox
    /\ Step(s) # "answer" => cookie' = cookie /\ access' = access
    /\ Step(s) # "issue" => root' = root
    /\ Step(s) # "getLink" => uses' = uses
    /\ Step(s) # "delToken" => out' = out
    /\ Step(s) \notin {"getLink", "getToken", "delToken", "answer", "setSlug", "claim", "resync",
                     "insertEntry", "updateEntry"} => loose' = loose
    /\ loose \subseteq loose'
    /\ scenario' = scenario /\ turns' = turns /\ unmailed' = unmailed

\* Signing in keeps the rest.
LEMMA SignInKeeps ==
    ASSUME NEW s \in Slots,
           \/ CheckAuthMethod(s) \/ StoreLink(s) \/ MailLink(s) \/ GetLink(s) \/ DeleteLink(s)
           \/ FindIdent(s) \/ FindEmail(s) \/ LinkIdent(s) \/ InsertHost(s) \/ Refind(s)
           \/ Greet(s)
    PROVE  Keeps(s)
  <1> USE DEF Keeps, At, Unchanged, mongo, redis, mail, browser, history, Spoil
  <1>1. CASE CheckAuthMethod(s)
    BY <1>1 DEF CheckAuthMethod
  <1>2. CASE StoreLink(s)
    BY <1>2 DEF StoreLink
  <1>3. CASE MailLink(s)
    BY <1>3 DEF MailLink
  <1>4. CASE GetLink(s)
    BY <1>4 DEF GetLink
  <1>5. CASE DeleteLink(s)
    BY <1>5 DEF DeleteLink
  <1>6. CASE FindIdent(s)
    BY <1>6 DEF FindIdent
  <1>7. CASE FindEmail(s)
    BY <1>7 DEF FindEmail
  <1>8. CASE LinkIdent(s)
    BY <1>8 DEF LinkIdent
  <1>9. CASE InsertHost(s)
    BY <1>9 DEF InsertHost
  <1>10. CASE Refind(s)
    BY <1>10 DEF Refind
  <1>11. CASE Greet(s)
    BY <1>11 DEF Greet
  <1> QED
    BY <1>1, <1>2, <1>3, <1>4, <1>5, <1>6, <1>7, <1>8, <1>9, <1>10, <1>11

\* Sessions keep the rest.
LEMMA SessionKeeps ==
    ASSUME NEW s \in Slots,
           GetToken(s) \/ DeleteToken(s) \/ IssueToken(s) \/ Answer(s)
    PROVE  Keeps(s)
  <1> USE DEF Keeps, At, Unchanged, UnchangedHistory, mongo, redis, mail, browser, history, Spoil
  <1>1. CASE GetToken(s)
    BY <1>1 DEF GetToken
  <1>2. CASE DeleteToken(s)
    BY <1>2 DEF DeleteToken
  <1>3. CASE IssueToken(s)
    BY <1>3 DEF IssueToken
  <1>4. CASE Answer(s)
    BY <1>4 DEF Answer
  <1> QED
    BY <1>1, <1>2, <1>3, <1>4

\* The account and the claim keep the rest.
LEMMA AccountKeeps ==
    ASSUME NEW s \in Slots,
           \/ SlugFree(s) \/ SetSlug(s) \/ ReadMe(s) \/ Farewell(s) \/ DropQueues(s)
           \/ DropHost(s) \/ AnonOwner(s) \/ Claimer(s) \/ GetQueue(s) \/ ClaimQueue(s)
           \/ ForgetAnonHost(s) \/ AnonQueue(s) \/ ReSync(s)
    PROVE  Keeps(s)
  <1> USE DEF Keeps, At, Unchanged, UnchangedHistory, mongo, redis, mail, browser, history, Spoil
  <1>1. CASE SlugFree(s)
    BY <1>1 DEF SlugFree
  <1>2. CASE SetSlug(s)
    BY <1>2 DEF SetSlug
  <1>3. CASE ReadMe(s)
    BY <1>3 DEF ReadMe
  <1>4. CASE Farewell(s)
    BY <1>4 DEF Farewell
  <1>5. CASE DropQueues(s)
    BY <1>5 DEF DropQueues
  <1>6. CASE DropHost(s)
    BY <1>6 DEF DropHost
  <1>7. CASE AnonOwner(s)
    BY <1>7 DEF AnonOwner
  <1>8. CASE Claimer(s)
    BY <1>8 DEF Claimer
  <1>9. CASE GetQueue(s)
    BY <1>9 DEF GetQueue
  <1>10. CASE ClaimQueue(s)
    BY <1>10 DEF ClaimQueue
  <1>11. CASE ForgetAnonHost(s)
    BY <1>11 DEF ForgetAnonHost
  <1>12. CASE AnonQueue(s)
    BY <1>12 DEF AnonQueue
  <1>13. CASE ReSync(s)
    BY <1>13 DEF ReSync
  <1> QED
    BY <1>1, <1>2, <1>3, <1>4, <1>5, <1>6, <1>7, <1>8, <1>9, <1>10, <1>11, <1>12, <1>13

\* Guests keep the rest.
LEMMA GuestKeeps ==
    ASSUME NEW s \in Slots,
           \/ AcquireJoinLock(s) \/ CheckDuplicate(s) \/ InsertEntry(s) \/ SetSession(s)
           \/ ReleaseJoinLock(s) \/ SessionKnown(s) \/ UpdateEntry(s)
           \/ MarkRecovery(s) \/ GenerateToken(s) \/ MailToken(s) \/ UnmarkRecovery(s)
           \/ ClaimToken(s) \/ Rejoin(s)
    PROVE  Keeps(s)
  <1> USE DEF Keeps, At, Unchanged, UnchangedHistory, mongo, redis, mail, browser, history, Spoil
  <1>1. CASE AcquireJoinLock(s)
    BY <1>1 DEF AcquireJoinLock
  <1>2. CASE CheckDuplicate(s)
    BY <1>2 DEF CheckDuplicate
  <1>3. CASE InsertEntry(s)
    BY <1>3 DEF InsertEntry
  <1>4. CASE SetSession(s)
    BY <1>4 DEF SetSession
  <1>5. CASE ReleaseJoinLock(s)
    BY <1>5 DEF ReleaseJoinLock
  <1>6. CASE SessionKnown(s)
    BY <1>6 DEF SessionKnown
  <1>7. CASE UpdateEntry(s)
    BY <1>7 DEF UpdateEntry
  <1>8. CASE MarkRecovery(s)
    BY <1>8 DEF MarkRecovery
  <1>9. CASE GenerateToken(s)
    BY <1>9 DEF GenerateToken
  <1>10. CASE MailToken(s)
    BY <1>10 DEF MailToken
  <1>11. CASE UnmarkRecovery(s)
    BY <1>11 DEF UnmarkRecovery
  <1>12. CASE ClaimToken(s)
    BY <1>12 DEF ClaimToken
  <1>13. CASE Rejoin(s)
    BY <1>13 DEF Rejoin
  <1> QED
    BY <1>1, <1>2, <1>3, <1>4, <1>5, <1>6, <1>7, <1>8, <1>9, <1>10, <1>11, <1>12, <1>13

\* Every command keeps what it does not name.
LEMMA HandlerKeeps ==
    ASSUME NEW s \in Slots, Handler(s)
    PROVE  Keeps(s)
  BY SignInKeeps, SessionKeeps, AccountKeeps, GuestKeeps DEF Handler

\* The action of each command that changes what others rely on.
LEMMA HandlerIs ==
    ASSUME NEW s \in Slots, Handler(s)
    PROVE  /\ Step(s) = "storeLink" => StoreLink(s)
           /\ Step(s) = "mailLink" => MailLink(s)
           /\ Step(s) = "getLink" => GetLink(s)
           /\ Step(s) = "delLink" => DeleteLink(s)
           /\ Step(s) = "linkIdent" => LinkIdent(s)
           /\ Step(s) = "insertHost" => InsertHost(s)
           /\ Step(s) = "greet" => Greet(s)
           /\ Step(s) = "getToken" => GetToken(s)
           /\ Step(s) = "delToken" => DeleteToken(s)
           /\ Step(s) = "issue" => IssueToken(s)
           /\ Step(s) = "answer" => Answer(s)
           /\ Step(s) = "slugFree" => SlugFree(s)
           /\ Step(s) = "setSlug" => SetSlug(s)
           /\ Step(s) \in {"farewell", "farewellAgain"} => Farewell(s)
           /\ Step(s) = "dropQueues" => DropQueues(s)
           /\ Step(s) = "dropHost" => DropHost(s)
           /\ Step(s) = "claim" => ClaimQueue(s)
           /\ Step(s) = "forget" => ForgetAnonHost(s)
           /\ Step(s) = "anonQueue" => AnonQueue(s)
           /\ Step(s) = "resync" => ReSync(s)
           /\ Step(s) = "lock" => AcquireJoinLock(s)
           /\ Step(s) \in {"dupEmail", "dupPhone"} => CheckDuplicate(s)
           /\ Step(s) = "insertEntry" => InsertEntry(s)
           /\ Step(s) = "session" => SetSession(s)
           /\ Step(s) = "unlock" => ReleaseJoinLock(s)
           /\ Step(s) = "known" => SessionKnown(s)
           /\ Step(s) = "updateEntry" => UpdateEntry(s)
           /\ Step(s) = "mark" => MarkRecovery(s)
           /\ Step(s) = "token" => GenerateToken(s)
           /\ Step(s) = "mailToken" => MailToken(s)
           /\ Step(s) = "unmark" => UnmarkRecovery(s)
           /\ Step(s) = "claimToken" => ClaimToken(s)
           /\ Step(s) = "rejoin" => Rejoin(s)
  <1> USE DEF At
  <1>1. CASE \/ CheckAuthMethod(s) \/ StoreLink(s) \/ MailLink(s) \/ GetLink(s) \/ DeleteLink(s)
             \/ FindIdent(s) \/ FindEmail(s) \/ LinkIdent(s) \/ InsertHost(s) \/ Refind(s)
             \/ Greet(s)
    BY <1>1 DEF CheckAuthMethod, StoreLink, MailLink, GetLink, DeleteLink, FindIdent, FindEmail,
                LinkIdent, InsertHost, Refind, Greet
  <1>2. CASE GetToken(s) \/ DeleteToken(s) \/ IssueToken(s) \/ Answer(s)
    BY <1>2 DEF GetToken, DeleteToken, IssueToken, Answer
  <1>3. CASE \/ SlugFree(s) \/ SetSlug(s) \/ ReadMe(s) \/ Farewell(s) \/ DropQueues(s)
             \/ DropHost(s) \/ AnonOwner(s) \/ Claimer(s) \/ GetQueue(s) \/ ClaimQueue(s)
             \/ ForgetAnonHost(s) \/ AnonQueue(s) \/ ReSync(s)
    BY <1>3 DEF SlugFree, SetSlug, ReadMe, Farewell, DropQueues, DropHost, AnonOwner, Claimer,
                GetQueue, ClaimQueue, ForgetAnonHost, AnonQueue, ReSync
  <1>4. CASE \/ AcquireJoinLock(s) \/ CheckDuplicate(s) \/ InsertEntry(s) \/ SetSession(s)
             \/ ReleaseJoinLock(s) \/ SessionKnown(s) \/ UpdateEntry(s)
             \/ MarkRecovery(s) \/ GenerateToken(s) \/ MailToken(s) \/ UnmarkRecovery(s)
             \/ ClaimToken(s) \/ Rejoin(s)
    BY <1>4 DEF AcquireJoinLock, CheckDuplicate, InsertEntry, SetSession, ReleaseJoinLock,
                SessionKnown, UpdateEntry, MarkRecovery, GenerateToken, MailToken,
                UnmarkRecovery, ClaimToken, Rejoin
  <1> QED
    BY <1>1, <1>2, <1>3, <1>4 DEF Handler

-----------------------------------------------------------------------------
(* The other steps *)

\* A free slot has taken a request at its first command.
Begun(s) ==
    /\ req[s].op = "none" /\ req'[s].op # "none" /\ req'[s].pc = 1 /\ ~req'[s].loose
    /\ Proper(req'[s]) /\ Known(req'[s])
    /\ req' = [t \in Slots |-> req'[t]] /\ \A t \in Slots : t # s => req'[t] = req[t]
    /\ req'[s].op = "askLink" => /\ link[req'[s].link] = "none"
                                 /\ \A t \in Slots : req[t].link # req'[s].link
    /\ IF req'[s].op \in {"refresh", "logout"} THEN req'[s].token = cookie /\ cookie # NoToken
       ELSE req'[s].token = NoToken
    /\ Unchanged
    /\ UNCHANGED <<root, uses, out, unmailed, scenario, loose>>
    /\ turns' \in 0..MaxTurns

\* What begins: an operation with what it needs.
LEMMA BeginBegun ==
    ASSUME Typed, NEW s \in Slots, NEW op \in Requests, NEW r \in Request, Begin(s, op, r),
           r.pc = 1, ~r.loose,
           op = "askLink" => r.link \in FreshLinks,
           op = "verify" => r.link \in Links,
           op \in {"deleteMe", "claim", "slug"} => r.host \in Hosts,
           op \in {"update", "recover"} => r.entry \in Entries,
           IF op \in {"refresh", "logout"} THEN r.token = cookie /\ cookie # NoToken
           ELSE r.token = NoToken
    PROVE  Begun(s)
  <1> DEFINE n == [r EXCEPT !.op = op]
  <1>1. /\ n \in Request /\ n.op = op /\ n.pc = 1 /\ ~n.loose /\ n.link = r.link
        /\ n.host = r.host /\ n.entry = r.entry /\ n.token = r.token
    BY DEF Request
  <1>2. Known(n)
    BY <1>1 DEF Known, FreshLinks
  <1>3. Proper(n)
    <2>1. DOMAIN Steps[op] = 1..Len(Steps[op]) /\ Len(Steps[op]) \in 1..11
      BY Positions
    <2> QED
      BY <1>1, <2>1 DEF Proper
  <1>4. /\ req' = [req EXCEPT ![s] = n] /\ req \in [Slots -> Request]
        /\ req[s].op = "none"
    BY DEF Begin, Become, Typed, RequestTypes
  <1>5. /\ Unchanged /\ UNCHANGED <<root, uses, out, unmailed, scenario, loose>>
        /\ turns' \in 0..MaxTurns
    BY AccountsAssumption DEF Begin, Turn, Typed, StoreTypes
  <1>6. op # "none"
    BY DEF Requests
  <1>7. op = "askLink" => /\ link[n.link] = "none"
                          /\ \A t \in Slots : req[t].link # n.link
    BY <1>1 DEF FreshLinks
  <1> HIDE DEF n
  <1>8. req'[s] = n /\ req' = [t \in Slots |-> req'[t]] /\ \A t \in Slots : t # s => req'[t] = req[t]
    BY <1>4
  <1> QED
    BY <1>1, <1>2, <1>3, <1>4, <1>5, <1>6, <1>7, <1>8 DEF Begun

\* A request that starts has begun.
LEMMA StartBegins ==
    ASSUME Typed, NEW s \in Slots, Start(s)
    PROVE  Begun(s)
  <1>0. Idle \in Request /\ Idle.pc = 1 /\ ~Idle.loose /\ Idle.token = NoToken
    BY IdleProper
  <1>1. CASE StartSignIn(s)
    <2>1. ASSUME NEW l \in Links,
                 l \in FreshLinks, Begin(s, "askLink", [Idle EXCEPT !.link = l])
          PROVE  Begun(s)
      <3> DEFINE r == [Idle EXCEPT !.link = l]
      <3>1. r \in Request /\ r.pc = 1 /\ ~r.loose /\ r.token = NoToken /\ r.link = l
        BY <1>0 DEF Request
      <3> HIDE DEF r
      <3> QED
        BY <2>1, <3>1, BeginBegun DEF Requests, r
    <2>2. ASSUME NEW l \in Links,
                 Begin(s, "verify", [Idle EXCEPT !.link = l, !.verified = TRUE])
          PROVE  Begun(s)
      <3> DEFINE r == [Idle EXCEPT !.link = l, !.verified = TRUE]
      <3>1. r \in Request /\ r.pc = 1 /\ ~r.loose /\ r.token = NoToken /\ r.link = l
        BY <1>0 DEF Request
      <3> HIDE DEF r
      <3> QED
        BY <2>2, <3>1, BeginBegun DEF Requests, r
    <2>3. ASSUME NEW i \in Idents, NEW v \in BOOLEAN,
                 Begin(s, "social", [Idle EXCEPT !.ident = i, !.verified = v])
          PROVE  Begun(s)
      <3> DEFINE r == [Idle EXCEPT !.ident = i, !.verified = v]
      <3>1. r \in Request /\ r.pc = 1 /\ ~r.loose /\ r.token = NoToken
        BY <1>0 DEF Request
      <3> HIDE DEF r
      <3> QED
        BY <2>3, <3>1, BeginBegun DEF Requests, r
    <2> QED
      BY <1>1, <2>1, <2>2, <2>3 DEF StartSignIn
  <1>2. CASE StartSession(s)
    <2>1. ASSUME NEW op \in {"refresh", "logout"}, cookie # NoToken,
                 Begin(s, op, [Idle EXCEPT !.token = cookie])
          PROVE  Begun(s)
      <3> DEFINE r == [Idle EXCEPT !.token = cookie]
      <3>1. r \in Request /\ r.pc = 1 /\ ~r.loose /\ r.token = cookie
        BY <1>0 DEF Request, Typed, StoreTypes
      <3> HIDE DEF r
      <3> QED
        BY <2>1, <3>1, BeginBegun DEF Requests, r
    <2>2. ASSUME NEW op \in {"deleteMe", "claim", "slug"}, NEW h \in Hosts,
                 Begin(s, op, [Idle EXCEPT !.host = h])
          PROVE  Begun(s)
      <3> DEFINE r == [Idle EXCEPT !.host = h]
      <3>1. r \in Request /\ r.pc = 1 /\ ~r.loose /\ r.token = NoToken /\ r.host = h
        BY <1>0 DEF Request
      <3> HIDE DEF r
      <3> QED
        BY <2>2, <3>1, BeginBegun DEF Requests, r
    <2>3. ASSUME Begin(s, "anon", Idle)
          PROVE  Begun(s)
      BY <1>0, <2>3, BeginBegun DEF Requests
    <2>4. access # NoHost => access \in Hosts
      BY DEF Typed, StoreTypes
    <2> QED
      BY <1>2, <2>1, <2>2, <2>3, <2>4 DEF StartSession, StoredHosts
  <1>3. CASE StartGuest(s)
    <2>1. ASSUME NEW k \in SUBSET Contacts, Begin(s, "join", [Idle EXCEPT !.contacts = k])
          PROVE  Begun(s)
      <3> DEFINE r == [Idle EXCEPT !.contacts = k]
      <3>1. r \in Request /\ r.pc = 1 /\ ~r.loose /\ r.token = NoToken
        BY <1>0 DEF Request
      <3> HIDE DEF r
      <3> QED
        BY <2>1, <3>1, BeginBegun DEF Requests, r
    <2>2. ASSUME NEW e \in Entries, Begin(s, "recover", [Idle EXCEPT !.entry = e])
          PROVE  Begun(s)
      <3> DEFINE r == [Idle EXCEPT !.entry = e]
      <3>1. r \in Request /\ r.pc = 1 /\ ~r.loose /\ r.token = NoToken /\ r.entry = e
        BY <1>0 DEF Request
      <3> HIDE DEF r
      <3> QED
        BY <2>2, <3>1, BeginBegun DEF Requests, r
    <2>3. ASSUME NEW e \in Entries, NEW k \in SUBSET Contacts,
                 Begin(s, "update", [Idle EXCEPT !.entry = e, !.contacts = k])
          PROVE  Begun(s)
      <3> DEFINE r == [Idle EXCEPT !.entry = e, !.contacts = k]
      <3>1. r \in Request /\ r.pc = 1 /\ ~r.loose /\ r.token = NoToken /\ r.entry = e
        BY <1>0 DEF Request
      <3> HIDE DEF r
      <3> QED
        BY <2>3, <3>1, BeginBegun DEF Requests, r
    <2> QED
      BY <1>3, <2>1, <2>2, <2>3 DEF StartGuest
  <1> QED
    BY <1>1, <1>2, <1>3 DEF Start

-----------------------------------------------------------------------------
(* The types of the store *)

\* What a request knows at its commands.
LEMMA KnownAt ==
    ASSUME NEW r, Proper(r), Known(r)
    PROVE  /\ Command(r) \in {"mark", "token", "mailToken", "unmark", "session", "known",
                              "updateEntry", "claimToken", "rejoin"} => r.entry \in Entries
           /\ Command(r) \in {"getLink", "delLink", "storeLink", "mailLink"} => r.link \in Links
  <1>1. r.pc \in Nat
    BY DEF Proper, Request
  <1>2. CASE Command(r) \in {"mark", "token", "mailToken", "unmark"}
    <2>1. r.op = "update" \/ (r.op = "join" /\ r.pc >= 7)
      BY <1>1, <1>2, AtGuest
    <2> QED
      BY <1>2, <2>1 DEF Known
  <1>3. CASE Command(r) \in {"session", "known", "updateEntry", "claimToken", "rejoin"}
    <2>1. r.op \in {"update", "recover"} \/ (r.op = "join" /\ r.pc = 5)
      BY <1>3, AtGuest
    <2> QED
      BY <1>3, <2>1 DEF Known
  <1> QED
    BY <1>2, <1>3, AtSignIn DEF Known

\* A letter that is posted is a letter.
LEMMA PostTypes ==
    ASSUME MailTypes, NEW kind \in {"link", "welcome", "farewell", "recovery"},
           NEW of \in Links \cup Hosts \cup Entries, Post(kind, of)
    PROVE  /\ MailTypes'
           /\ DOMAIN letters = 1..Len(letters) /\ Len(letters) \in Nat
           /\ DOMAIN letters' = 1..(Len(letters) + 1)
           /\ letters'[Len(letters) + 1].kind = kind /\ letters'[Len(letters) + 1].of = of
           /\ \A i \in DOMAIN letters : letters'[i] = letters[i]
  <1> DEFINE full == Len(outbox) >= MailCap
             l == [kind |-> kind, of |-> of, tries |-> 0, st |-> IF full THEN "dropped" ELSE "queued"]
  <1>1. /\ l \in Letter /\ l.kind = kind /\ l.of = of
        /\ letters \in Seq(Letter) /\ outbox \in Seq(DOMAIN letters)
        /\ Len(outbox) <= MailCap /\ MailCap \in Nat
    BY AccountsAssumption DEF Letter, MailTypes
  <1>2. /\ letters' = Append(letters, l)
        /\ outbox' = IF full THEN outbox ELSE Append(outbox, Len(letters) + 1)
    BY DEF Post
  <1> HIDE DEF l
  <1>3. /\ letters' \in Seq(Letter) /\ DOMAIN letters = 1..Len(letters) /\ Len(letters) \in Nat
        /\ DOMAIN letters' = 1..(Len(letters) + 1)
        /\ letters'[Len(letters) + 1] = l
        /\ \A i \in DOMAIN letters : letters'[i] = letters[i]
    BY <1>1, <1>2
  <1>4. DOMAIN letters \subseteq DOMAIN letters' /\ Len(letters) + 1 \in DOMAIN letters'
    BY <1>3
  <1>5. outbox \in Seq(DOMAIN letters')
    BY <1>1, <1>4
  <1>6. outbox' \in Seq(DOMAIN letters') /\ Len(outbox') <= MailCap
    <2>1. CASE full
      BY <1>1, <1>2, <1>5, <2>1
    <2>2. CASE ~full
      <3> DEFINE D == DOMAIN letters'
                 n == Len(letters) + 1
      <3>1. outbox \in Seq(D) /\ n \in D /\ outbox' = Append(outbox, n)
        BY <1>2, <1>4, <1>5, <2>2
      <3> HIDE DEF D, n
      <3>2. outbox' \in Seq(D) /\ Len(outbox') = Len(outbox) + 1 /\ Len(outbox) \in Nat
        BY <3>1
      <3> QED
        BY <1>1, <2>2, <3>2 DEF D
    <2> QED
      BY <2>1, <2>2
  <1> QED
    BY <1>1, <1>3, <1>6 DEF MailTypes

\* The letters of commands.
LEMMA HandlerMail ==
    ASSUME Typed, NEW s \in Slots, Handler(s)
    PROVE  /\ MailTypes'
           /\ \/ letters' = letters
              \/ \E kind \in {"link", "welcome", "farewell", "recovery"},
                    of \in Links \cup Hosts \cup Entries : Post(kind, of)
  <1> DEFINE o == req[s]
  <1>0. Proper(o) /\ Known(o) /\ o \in Request /\ Step(s) = Command(o) /\ MailTypes
    BY SlotTypes DEF Typed
  <1>1. CASE Step(s) \notin {"mailLink", "greet", "farewell", "farewellAgain", "mailToken"}
    BY <1>0, <1>1, HandlerKeeps DEF Keeps, MailTypes
  <1>2. CASE Step(s) = "mailLink"
    <2>1. MailLink(s) /\ o.link \in Links
      BY <1>0, <1>2, HandlerIs, AtSignIn DEF Known
    <2> QED
      BY <1>0, <2>1, PostTypes DEF MailLink
  <1>3. CASE Step(s) = "greet"
    <2>1. Greet(s) /\ o.host \in Hosts
      BY <1>0, <1>3, HandlerIs, AtSignIn DEF Known
    <2>2. CASE Post("welcome", o.host)
      BY <1>0, <2>1, <2>2, PostTypes
    <2> QED
      BY <1>0, <2>1, <2>2 DEF Greet, mail, MailTypes
  <1>4. CASE Step(s) \in {"farewell", "farewellAgain"}
    <2>1. Farewell(s) /\ o.host \in Hosts
      BY <1>0, <1>4, HandlerIs, AtAccount DEF Known
    <2>2. CASE Post("farewell", o.host)
      BY <1>0, <2>1, <2>2, PostTypes
    <2> QED
      BY <1>0, <2>1, <2>2 DEF Farewell, mail, MailTypes
  <1>5. CASE Step(s) = "mailToken"
    <2>1. MailToken(s) /\ o.entry \in Entries
      BY <1>0, <1>5, HandlerIs, KnownAt
    <2> QED
      BY <1>0, <2>1, PostTypes DEF MailToken
  <1> QED
    BY <1>1, <1>2, <1>3, <1>4, <1>5

\* The documents after a command.
LEMMA HandlerDocuments ==
    ASSUME Typed, NEW s \in Slots, Handler(s)
    PROVE  /\ host' \in [Hosts -> Host]
           /\ owner' \in Hosts \cup {NoHost, Deleted}
           /\ entry' \in [Entries -> Entry]
           /\ marked' \subseteq Entries
  <1> DEFINE o == req[s]
  <1>0. /\ Proper(o) /\ Known(o) /\ o \in Request /\ Step(s) = Command(o) /\ Keeps(s)
        /\ StoreTypes
    BY SlotTypes, HandlerKeeps DEF Typed
  <1>1. host' \in [Hosts -> Host]
    <2>1. CASE Step(s) = "linkIdent"
      <3>1. LinkIdent(s)
        BY <2>1, HandlerIs
      <3> DEFINE h == req[s].host
                 d == [host[h] EXCEPT !.ident = o.ident]
      <3>2. host \in [Hosts -> Host]
        BY <1>0 DEF StoreTypes
      <3>3. host' = host \/ (h \in Hosts /\ host' = [host EXCEPT ![h] = d])
        BY <3>1 DEF LinkIdent, Stored
      <3>4. h \in Hosts => d \in Host
        BY <1>0, <3>2 DEF Host, Request
      <3> HIDE DEF h, d
      <3> QED
        BY <3>2, <3>3, <3>4
    <2>2. CASE Step(s) = "insertHost"
      <3>1. InsertHost(s)
        BY <2>2, HandlerIs
      <3> DEFINE n == [st |-> "stored", email |-> o.verified, ident |-> o.ident, slug |-> FALSE]
      <3>2. n \in Host
        BY <1>0 DEF Host, Request
      <3>3. host' = host \/ \E h \in Hosts : host' = [host EXCEPT ![h] = n]
        BY <3>1 DEF InsertHost
      <3>4. host \in [Hosts -> Host]
        BY <1>0 DEF StoreTypes
      <3> HIDE DEF n
      <3> QED
        BY <3>2, <3>3, <3>4
    <2>3. CASE Step(s) = "setSlug"
      <3>1. SetSlug(s)
        BY <2>3, HandlerIs
      <3>2. \A h \in Hosts : [host[h] EXCEPT !.slug = TRUE] \in Host
        <4>1. \A d \in Host, b \in BOOLEAN : [d EXCEPT !.slug = b] \in Host
          BY DEF Host
        <4>2. TRUE \in BOOLEAN /\ \A h \in Hosts : host[h] \in Host
          BY <1>0 DEF StoreTypes
        <4> QED
          BY <4>1, <4>2
      <3>3. \/ host' = host
            \/ \E h \in Hosts : host' = [host EXCEPT ![h] = [host[h] EXCEPT !.slug = TRUE]]
        BY <1>0, <3>1 DEF SetSlug, Stored
      <3> QED
        BY <1>0, <3>2, <3>3 DEF StoreTypes
    <2>4. CASE Step(s) = "dropHost"
      <3>1. DropHost(s)
        BY <2>4, HandlerIs
      <3>2. [NoDoc EXCEPT !.st = "gone"] \in Host
        BY DEF NoDoc, Host
      <3> QED
        BY <1>0, <3>1, <3>2 DEF DropHost, StoreTypes, Stored
    <2> QED
      BY <1>0, <2>1, <2>2, <2>3, <2>4 DEF Keeps, StoreTypes
  <1>2. owner' \in Hosts \cup {NoHost, Deleted}
    <2>1. CASE Step(s) = "dropQueues"
      BY <1>0, <2>1, HandlerIs DEF DropQueues, StoreTypes
    <2>2. CASE Step(s) = "claim"
      <3>1. ClaimQueue(s) /\ o.host \in Hosts
        BY <1>0, <2>2, HandlerIs, AtAccount DEF Known
      <3> QED
        BY <3>1 DEF ClaimQueue
    <2> QED
      BY <1>0, <2>1, <2>2 DEF Keeps, StoreTypes
  <1>3. entry' \in [Entries -> Entry]
    <2>1. CASE Step(s) = "insertEntry"
      <3>1. InsertEntry(s)
        BY <2>1, HandlerIs
      <3>2. [st |-> "live", contacts |-> o.contacts, joined |-> TRUE] \in Entry
        BY <1>0 DEF Entry, Request
      <3> QED
        BY <1>0, <3>1, <3>2 DEF InsertEntry, StoreTypes
    <2>2. CASE Step(s) = "updateEntry"
      <3>1. UpdateEntry(s) /\ o.entry \in Entries
        BY <1>0, <2>2, HandlerIs, KnownAt
      <3>2. PICK new \in SUBSET o.contacts :
               entry' = [entry EXCEPT ![o.entry].contacts =
                            (entry[o.entry].contacts \ o.contacts) \cup new]
        BY <3>1 DEF UpdateEntry
      <3>3. (entry[o.entry].contacts \ o.contacts) \cup new \in SUBSET Contacts
        BY <1>0, <3>1 DEF StoreTypes, Entry, Request
      <3> QED
        BY <1>0, <3>1, <3>2, <3>3 DEF StoreTypes, Entry
    <2> QED
      BY <1>0, <2>1, <2>2 DEF Keeps, StoreTypes
  <1>4. marked' \subseteq Entries
    <2>1. CASE Step(s) = "mark"
      <3>1. MarkRecovery(s) /\ o.entry \in Entries
        BY <1>0, <2>1, HandlerIs, KnownAt
      <3> QED
        BY <1>0, <3>1 DEF MarkRecovery, StoreTypes
    <2>2. CASE Step(s) = "unmark"
      BY <1>0, <2>2, HandlerIs DEF UnmarkRecovery, StoreTypes
    <2> QED
      BY <1>0, <2>1, <2>2 DEF Keeps, StoreTypes
  <1> QED
    BY <1>1, <1>2, <1>3, <1>4

\* The keys after a command.
LEMMA HandlerKeys ==
    ASSUME Typed, NEW s \in Slots, Handler(s)
    PROVE  /\ link' \in [Links -> {"none", "live", "spent"}]
           /\ refresh' \in [Tokens -> Hosts \cup {NoHost}]
           /\ anonKey' \in BOOLEAN
           /\ lock' \in [Contacts -> Slots \cup {NoSlot}]
           /\ sess' \subseteq Entries
           /\ recov' \in [Entries -> Nat]
           /\ cookie' \in Tokens \cup {NoToken} /\ access' \in Hosts \cup {NoHost}
  <1> DEFINE o == req[s]
  <1>0. /\ Proper(o) /\ Known(o) /\ o \in Request /\ Step(s) = Command(o) /\ Keeps(s)
        /\ StoreTypes
    BY SlotTypes, HandlerKeeps DEF Typed
  <1>1. link' \in [Links -> {"none", "live", "spent"}]
    <2>1. CASE Step(s) = "storeLink"
      BY <1>0, <2>1, HandlerIs DEF StoreLink, StoreTypes
    <2>2. CASE Step(s) = "delLink"
      BY <1>0, <2>2, HandlerIs DEF DeleteLink, StoreTypes
    <2> QED
      BY <1>0, <2>1, <2>2 DEF Keeps, StoreTypes
  <1>2. refresh' \in [Tokens -> Hosts \cup {NoHost}]
    <2>1. CASE Step(s) = "delToken"
      BY <1>0, <2>1, HandlerIs DEF DeleteToken, StoreTypes
    <2>2. CASE Step(s) = "issue"
      <3>1. IssueToken(s) /\ o.host \in Hosts \cup {NoHost}
        BY <1>0, <2>2, HandlerIs DEF Request
      <3> QED
        BY <1>0, <3>1 DEF IssueToken, StoreTypes
    <2> QED
      BY <1>0, <2>1, <2>2 DEF Keeps, StoreTypes
  <1>3. anonKey' \in BOOLEAN
    <2>1. CASE Step(s) = "forget"
      BY <1>0, <2>1, HandlerIs DEF ForgetAnonHost
    <2>2. CASE Step(s) = "resync"
      BY <1>0, <2>2, HandlerIs DEF ReSync
    <2> QED
      BY <1>0, <2>1, <2>2 DEF Keeps, StoreTypes
  <1>4. lock' \in [Contacts -> Slots \cup {NoSlot}]
    <2>1. CASE Step(s) = "lock"
      BY <1>0, <2>1, HandlerIs DEF AcquireJoinLock, StoreTypes
    <2>2. CASE Step(s) = "unlock"
      BY <1>0, <2>2, HandlerIs DEF ReleaseJoinLock, StoreTypes
    <2> QED
      BY <1>0, <2>1, <2>2 DEF Keeps, StoreTypes
  <1>5. sess' \subseteq Entries
    <2>1. CASE Step(s) \in {"session", "known", "rejoin"}
      <3>1. o.entry \in Entries
        BY <1>0, <2>1, KnownAt
      <3> QED
        BY <1>0, <2>1, <3>1, HandlerIs DEF SetSession, SessionKnown, Rejoin, StoreTypes
    <2> QED
      BY <1>0, <2>1 DEF Keeps, StoreTypes
  <1>6. recov' \in [Entries -> Nat]
    <2>1. CASE Step(s) = "token"
      <3>1. GenerateToken(s) /\ o.entry \in Entries
        BY <1>0, <2>1, HandlerIs, KnownAt
      <3> QED
        BY <1>0, <3>1 DEF GenerateToken, StoreTypes
    <2>2. CASE Step(s) = "claimToken"
      <3>1. ClaimToken(s) /\ o.entry \in Entries
        BY <1>0, <2>2, HandlerIs, KnownAt
      <3> QED
        BY <1>0, <3>1 DEF ClaimToken, StoreTypes
    <2> QED
      BY <1>0, <2>1, <2>2 DEF Keeps, StoreTypes
  <1>7. cookie' \in Tokens \cup {NoToken} /\ access' \in Hosts \cup {NoHost}
    <2>1. CASE Step(s) = "answer"
      BY <1>0, <2>1, HandlerIs DEF Answer, Request
    <2> QED
      BY <1>0, <2>1 DEF Keeps, StoreTypes
  <1> QED
    BY <1>1, <1>2, <1>3, <1>4, <1>5, <1>6, <1>7

\* The history after a command.
LEMMA HandlerHistory ==
    ASSUME Typed, NEW s \in Slots, Handler(s)
    PROVE  /\ scenario' \in Scenarios /\ turns' \in 0..MaxTurns
           /\ root' \in [Tokens -> Tokens \cup {NoToken}]
           /\ uses' \in [Links -> Nat]
           /\ out' \subseteq Tokens
           /\ unmailed' \subseteq Entries
           /\ loose' \subseteq Tokens \cup Links \cup Entries \cup Hosts \cup {"queue"}
  <1> DEFINE o == req[s]
             all == Tokens \cup Links \cup Entries \cup Hosts \cup {"queue"}
  <1>0. /\ Proper(o) /\ Known(o) /\ o \in Request /\ Step(s) = Command(o) /\ Keeps(s)
        /\ StoreTypes /\ SessionsRooted
    BY SlotTypes, HandlerKeeps DEF Typed
  <1>1. root' \in [Tokens -> Tokens \cup {NoToken}]
    <2>1. CASE Step(s) = "issue"
      <3>1. IssueToken(s) /\ o.op \in {"refresh", "verify", "social"}
        BY <1>0, <2>1, HandlerIs, AtSession
      <3>2. o.op = "refresh" => root[o.token] \in Tokens \cup {NoToken}
        BY <1>0 DEF SessionsRooted, StoreTypes, Request
      <3> QED
        BY <1>0, <3>1, <3>2 DEF IssueToken, StoreTypes
    <2> QED
      BY <1>0, <2>1 DEF Keeps, StoreTypes
  <1>2. uses' \in [Links -> Nat]
    <2>1. CASE Step(s) = "getLink"
      <3>1. GetLink(s) /\ o.link \in Links
        BY <1>0, <2>1, HandlerIs, KnownAt
      <3>2. \A n \in Nat : [uses EXCEPT ![o.link] = n] \in [Links -> Nat]
        BY <1>0 DEF StoreTypes
      <3>3. uses[o.link] + 1 \in Nat
        BY <1>0, <3>1 DEF StoreTypes
      <3>4. uses' = uses \/ uses' = [uses EXCEPT ![o.link] = uses[o.link] + 1]
        BY <3>1 DEF GetLink
      <3> QED
        BY <1>0, <3>2, <3>3, <3>4 DEF StoreTypes
    <2> QED
      BY <1>0, <2>1 DEF Keeps, StoreTypes
  <1>3. out' \subseteq Tokens /\ (Step(s) = "delToken" => loose' \subseteq all)
    <2>1. CASE Step(s) = "delToken"
      <3>1. DeleteToken(s) /\ o.token \in Tokens
        BY <1>0, <2>1, HandlerIs, AtSession DEF SessionsRooted, Request
      <3>2. root[o.token] \in Tokens \cup {NoToken}
        BY <1>0, <3>1 DEF StoreTypes
      <3> QED
        BY <1>0, <3>1, <3>2 DEF DeleteToken, StoreTypes, Spoil
    <2> QED
      BY <1>0, <2>1 DEF Keeps, StoreTypes
  <1>4. loose' \subseteq all
    <2>1. CASE Step(s) = "getLink"
      <3>1. GetLink(s) /\ o.link \in Links
        BY <1>0, <2>1, HandlerIs, AtSignIn DEF Known
      <3> QED
        BY <1>0, <3>1 DEF GetLink, StoreTypes, Spoil
    <2>2. CASE Step(s) = "getToken"
      <3>1. GetToken(s) /\ o.token \in Tokens
        BY <1>0, <2>2, HandlerIs, AtSession DEF SessionsRooted, Request
      <3>2. refresh[o.token] # NoHost => root[o.token] \in Tokens
        BY <1>0, <3>1 DEF StoreTypes, SessionsRooted
      <3> QED
        BY <1>0, <3>1, <3>2 DEF GetToken, StoreTypes, Spoil
    <2>3. CASE Step(s) = "answer"
      <3>1. Answer(s)
        BY <2>3, HandlerIs
      <3>2. o.op = "refresh" => root[o.token] \in Tokens
        BY <1>0 DEF StoreTypes, SessionsRooted, Request
      <3> QED
        BY <1>0, <3>1, <3>2 DEF Answer, StoreTypes, Spoil
    <2>4. CASE Step(s) = "setSlug"
      <3>1. SetSlug(s)
        BY <2>4, HandlerIs
      <3>2. \A r \in Others(s, "slug", {"setSlug"}) : req[r].host \in Hosts
        BY SlotTypes DEF Others, Known
      <3> QED
        BY <1>0, <3>1, <3>2 DEF SetSlug, StoreTypes, Spoil
    <2>5. CASE Step(s) \in {"claim", "resync"}
      BY <1>0, <2>5, HandlerIs DEF ClaimQueue, ReSync, StoreTypes, Spoil
    <2>6. CASE Step(s) = "insertEntry"
      <3>1. InsertEntry(s)
        BY <2>6, HandlerIs
      <3>2. \E e \in Entries : Spoil({e}, o.loose)
        BY <3>1 DEF InsertEntry
      <3> QED
        BY <1>0, <3>2 DEF StoreTypes, Spoil
    <2>7. CASE Step(s) = "updateEntry"
      <3>1. UpdateEntry(s) /\ o.entry \in Entries
        BY <1>0, <2>7, HandlerIs, KnownAt
      <3>2. loose' = loose \/ loose' = loose \cup {o.entry}
        BY <3>1 DEF UpdateEntry, Spoil
      <3> QED
        BY <1>0, <3>1, <3>2 DEF StoreTypes
    <2>8. CASE Step(s) \notin {"getLink", "getToken", "delToken", "answer", "setSlug", "claim",
                               "resync", "insertEntry", "updateEntry"}
      BY <1>0, <2>8 DEF Keeps, StoreTypes
    <2> QED
      BY <1>3, <2>1, <2>2, <2>3, <2>4, <2>5, <2>6, <2>7, <2>8
  <1> QED
    BY <1>0, <1>1, <1>2, <1>3, <1>4 DEF Keeps, StoreTypes

\* Tokens that are stored, sent or in the browser stay in a session.
LEMMA HandlerRooted ==
    ASSUME Typed, NEW s \in Slots, Handler(s)
    PROVE  SessionsRooted'
  <1> DEFINE o == req[s]
             n == req'[s]
  <1>0. /\ Proper(o) /\ Known(o) /\ o \in Request /\ Step(s) = Command(o) /\ Keeps(s)
        /\ StoreTypes /\ SessionsRooted /\ Moved(s)
    BY SlotTypes, HandlerKeeps, HandlerMoves DEF Typed
  <1>1. n = Idle \/ (Proper(n) /\ GoesOn(o, n))
    BY <1>0 DEF Moved, After
  <1>2. /\ Idle.token = NoToken /\ Idle.op = "none" /\ Command(Idle) = "idle"
        /\ \A t \in Slots : t # s => /\ req'[t].op = req[t].op /\ req'[t].token = req[t].token
                                     /\ Command(req'[t]) = Command(req[t])
    BY <1>0, IdleProper DEF Moved, Alike, Command
  <1>3. ASSUME Step(s) # "issue"
        PROVE  /\ \A t \in Slots : req'[t].token \in {req[t].token, NoToken}
               /\ \A t \in Slots : req'[t].op \in {"refresh", "logout"} => req'[t].token # NoToken
               /\ \A t \in Slots : (Command(req'[t]) = "answer" /\ req'[t].op # "deleteMe")
                                      => req'[t].token # NoToken
    <2>1. n.token \in {o.token, NoToken}
      BY <1>0, <1>1, <1>2, <1>3 DEF GoesOn
    <2>2. n.op \in {"refresh", "logout"} => n.token # NoToken
      BY <1>0, <1>1, <1>2, <1>3 DEF GoesOn, SessionsRooted
    <2>3. Command(n) = "answer" /\ n.op # "deleteMe" => n.token # NoToken
      <3>1. CASE n.op \in {"refresh", "logout"}
        BY <2>2, <3>1
      <3>2. CASE n.op \in {"verify", "social"} /\ Command(n) = "answer"
        <4>1. GoesOn(o, n) /\ Proper(n)
          BY <1>1, <1>2, <3>2
        <4>2. (n.op = "verify" /\ n.pc = 8) \/ (n.op = "social" /\ n.pc = 6)
          BY <3>2, <4>1, AtSession
        <4>3. (o.op = "verify" /\ o.pc = 7) \/ (o.op = "social" /\ o.pc = 5)
          BY <1>0, <4>1, <4>2 DEF GoesOn, Advances, Request
        <4> QED
          BY <1>0, <1>3, <4>3, AtSession
      <3>3. CASE n.op \notin {"refresh", "logout", "verify", "social", "deleteMe"}
        BY <1>1, <1>2, <3>3, AtSession
      <3> QED
        BY <3>1, <3>2, <3>3
    <2>4. \A t \in Slots \ {s} :
            /\ req[t].op \in {"refresh", "logout"} => req[t].token # NoToken
            /\ Command(req[t]) = "answer" /\ req[t].op # "deleteMe" => req[t].token # NoToken
      BY <1>0 DEF SessionsRooted
    <2>5. \A t \in Slots :
            /\ req'[t].token \in {req[t].token, NoToken}
            /\ req'[t].op \in {"refresh", "logout"} => req'[t].token # NoToken
            /\ (Command(req'[t]) = "answer" /\ req'[t].op # "deleteMe") => req'[t].token # NoToken
      <3> TAKE t \in Slots
      <3>1. CASE t = s
        BY <2>1, <2>2, <2>3, <3>1
      <3>2. CASE t # s
        BY <1>2, <2>4, <3>2
      <3> QED
        BY <3>1, <3>2
    <2> QED
      BY <2>5
  <1>4. CASE Step(s) \notin {"issue", "delToken", "answer"}
    BY <1>0, <1>3, <1>4 DEF Keeps, SessionsRooted
  <1>5. CASE Step(s) = "answer"
    <2>1. cookie' \in {NoToken, o.token}
      BY <1>5, HandlerIs DEF Answer
    <2> QED
      BY <1>0, <1>3, <1>5, <2>1 DEF Keeps, SessionsRooted
  <1>6. CASE Step(s) = "delToken"
    <2>1. o.token \in Tokens /\ root[o.token] # NoToken
      BY <1>0, <1>6, AtSession DEF SessionsRooted, Request
    <2>2. /\ \A t \in Tokens : refresh'[t] # NoHost => refresh[t] # NoHost
          /\ out' \subseteq out \cup {root[o.token]}
      BY <1>0, <1>6, <2>1, HandlerIs DEF DeleteToken, StoreTypes
    <2> QED
      BY <1>0, <1>3, <1>6, <2>1, <2>2 DEF Keeps, SessionsRooted
  <1>7. CASE Step(s) = "issue"
    <2>1. PICK t \in Tokens :
            /\ root[t] = NoToken
            /\ refresh' = [refresh EXCEPT ![t] = o.host]
            /\ root' = [root EXCEPT ![t] = IF o.op = "refresh" THEN root[o.token] ELSE t]
            /\ Become(s, Onward([o EXCEPT !.token = t]))
      BY <1>7, HandlerIs DEF IssueToken
    <2>2. NoToken \notin Tokens
      BY AccountsAssumption
    <2>3. o.op = "refresh" => /\ o.token \in Tokens /\ root[o.token] \in Tokens
                              /\ root[root[o.token]] = root[o.token] /\ o.token # t
                              /\ root[o.token] # t
      BY <1>0, <2>1 DEF SessionsRooted, StoreTypes, Request
    <2>4. root'[t] \in Tokens /\ root'[root'[t]] = root'[t]
      BY <1>0, <2>1, <2>3 DEF StoreTypes
    <2>5. \A u \in Tokens \ {t} : root'[u] = root[u] /\ refresh'[u] = refresh[u]
      BY <1>0, <2>1 DEF StoreTypes
    <2>6. \A u \in Tokens : root[u] # NoToken => root[u] \in Tokens \ {t} /\ u # t
      BY <1>0, <2>1 DEF SessionsRooted, StoreTypes
    <2>7. n.token \in {t, NoToken} /\ (n # Idle => n.token = t)
      <3> DEFINE r == [o EXCEPT !.token = t]
      <3>1. r \in Request /\ r.token = t
        BY <1>0 DEF Request
      <3>2. n = Onward(r)
        BY <1>0, <2>1 DEF Become, Typed, RequestTypes
      <3> HIDE DEF r
      <3>3. [r EXCEPT !.pc = r.pc + 1].token = t
        BY <3>1 DEF Request
      <3> QED
        BY <1>2, <3>2, <3>3 DEF Onward
    <2>8. \A u \in Tokens : refresh'[u] # NoHost => root'[u] # NoToken
      BY <1>0, <2>2, <2>4, <2>5 DEF SessionsRooted
    <2>9. \A u \in Tokens : root'[u] # NoToken => root'[root'[u]] = root'[u]
      BY <1>0, <2>4, <2>5, <2>6 DEF SessionsRooted
    <2>10. /\ out' = out /\ cookie' = cookie
           /\ \A u \in out : root'[u] = u
           /\ cookie # NoToken => root'[cookie] # NoToken
      BY <1>0, <1>7, <2>1, <2>2, <2>5 DEF SessionsRooted, Keeps, StoreTypes
    <2>11. \A r \in Slots : req'[r].token # NoToken => root'[req'[r].token] # NoToken
      <3> TAKE r \in Slots
      <3>1. CASE r = s
        BY <2>2, <2>4, <2>7, <3>1
      <3>2. CASE r # s
        BY <1>0, <1>2, <2>1, <2>5, <2>6, <3>2, SlotTypes DEF SessionsRooted, Request
      <3> QED
        BY <3>1, <3>2
    <2>12. \A r \in Slots : (\/ req'[r].op \in {"refresh", "logout"}
                            \/ (Command(req'[r]) = "answer" /\ req'[r].op # "deleteMe"))
                               => req'[r].token # NoToken
      <3> TAKE r \in Slots
      <3>1. CASE r = s
        BY <1>2, <2>2, <2>7, <3>1
      <3>2. CASE r # s
        BY <1>0, <1>2, <3>2 DEF SessionsRooted
      <3> QED
        BY <3>1, <3>2
    <2> QED
      BY <2>8, <2>9, <2>10, <2>11, <2>12 DEF SessionsRooted
  <1> QED
    BY <1>4, <1>5, <1>6, <1>7

\* Commands keep the types.
LEMMA HandlerTyped ==
    ASSUME Typed, NEW s \in Slots, Handler(s)
    PROVE  Typed'
  BY HandlerMoves, MovedTypes, HandlerMail, HandlerDocuments, HandlerKeys, HandlerHistory,
     HandlerRooted DEF Typed, StoreTypes

-----------------------------------------------------------------------------
(* The types, over the other steps *)

\* A request that begins.
LEMMA StartTyped ==
    ASSUME Typed, NEW s \in Slots, Start(s)
    PROVE  Typed'
  <1>0. Begun(s) /\ RequestTypes /\ MailTypes /\ StoreTypes /\ SessionsRooted
    BY StartBegins DEF Typed
  <1>1. RequestTypes'
    <2>1. \A t \in Slots : Proper(req'[t]) /\ Known(req'[t])
      BY <1>0, SlotTypes DEF Begun
    <2> QED
      BY <1>0, <2>1 DEF RequestTypes, Begun, Proper
  <1>2. MailTypes' /\ StoreTypes'
    BY <1>0 DEF Begun, Unchanged, mongo, redis, mail, browser, MailTypes, StoreTypes
  <1>3. SessionsRooted'
    <2>1. root' = root /\ refresh' = refresh /\ out' = out /\ cookie' = cookie
      BY <1>0 DEF Begun, Unchanged, redis, browser
    <2>2. Command(req'[s]) = "answer" => req'[s].op = "deleteMe"
      BY <1>0, AtSession DEF Begun
    <2>3. /\ req'[s].token \in {cookie, NoToken}
          /\ req'[s].op \in {"refresh", "logout"} => req'[s].token # NoToken
      BY <1>0 DEF Begun
    <2>4. \A t \in Slots : t # s => req'[t] = req[t]
      BY <1>0 DEF Begun
    <2>5. \A t \in Slots : req'[t].token # NoToken => root[req'[t].token] # NoToken
      BY <1>0, <2>3, <2>4 DEF SessionsRooted
    <2>6. \A t \in Slots : req'[t].op \in {"refresh", "logout"} => req'[t].token # NoToken
      BY <1>0, <2>3, <2>4 DEF SessionsRooted
    <2>7. \A t \in Slots : (Command(req'[t]) = "answer" /\ req'[t].op # "deleteMe")
                              => req'[t].token # NoToken
      BY <1>0, <2>2, <2>4 DEF SessionsRooted
    <2> QED
      BY <1>0, <2>1, <2>5, <2>6, <2>7 DEF SessionsRooted
  <1> QED
    BY <1>1, <1>2, <1>3 DEF Typed

\* A session's tokens stay rooted when nobody has got one.
LEMMA RootedFrame ==
    ASSUME SessionsRooted, root' = root, out' = out, cookie' = cookie,
           \A t \in Tokens : refresh'[t] # NoHost => refresh[t] # NoHost,
           \A s \in Slots : req'[s].token \in {req[s].token, NoToken},
           \A s \in Slots : req'[s].op \in {"refresh", "logout"} => req'[s].token # NoToken,
           \A s \in Slots : (Command(req'[s]) = "answer" /\ req'[s].op # "deleteMe")
                              => req'[s].token # NoToken
    PROVE  SessionsRooted'
  BY DEF SessionsRooted

\* A command that fails.
LEMMA FailTyped ==
    ASSUME Typed, NEW s \in Slots, CommandFails(s)
    PROVE  Typed'
  <1> DEFINE o == req[s]
             n == req'[s]
  <1>0. /\ Proper(o) /\ Known(o) /\ o \in Request /\ Step(s) = Command(o)
        /\ MailTypes /\ StoreTypes /\ SessionsRooted /\ Moved(s)
    BY SlotTypes, FailMoves DEF Typed
  <1>1. RequestTypes'
    BY <1>0, MovedTypes
  <1>2. /\ UNCHANGED <<mongo, redis, mail, browser>>
        /\ UNCHANGED <<scenario, root, uses, out>> /\ turns' \in 0..MaxTurns
        /\ loose' = loose \cup Spoilt(s)
        /\ unmailed' = unmailed \cup (IF At(s, "unmark") THEN {req[s].entry} ELSE {})
    BY <1>0, AccountsAssumption DEF CommandFails, Unchanged, Turn, Spoil, StoreTypes
  <1>3. Spoilt(s) \subseteq Tokens \cup Links \cup {"queue"}
    <2>1. At(s, "delLink") => o.link \in Links
      BY <1>0, KnownAt DEF At
    <2>2. At(s, "delToken") => o.token # NoToken
      BY <1>0, AtSession DEF At, SessionsRooted
    <2>3. At(s, "delToken") => root[o.token] \in Tokens
      BY <1>0, <2>2 DEF SessionsRooted, StoreTypes, Request
    <2> QED
      BY <2>1, <2>3 DEF Spoilt
  <1>4. At(s, "unmark") => o.entry \in Entries
    BY <1>0, KnownAt DEF At
  <1>5. MailTypes' /\ StoreTypes'
    BY <1>0, <1>2, <1>3, <1>4 DEF MailTypes, StoreTypes, mongo, redis, mail, browser
  <1>6. SessionsRooted'
    <2>1. n = Idle \/ (Proper(n) /\ GoesOn(o, n))
      BY <1>0 DEF Moved, After
    <2>2. /\ Idle.token = NoToken /\ Idle.op = "none" /\ Command(Idle) = "idle"
          /\ \A t \in Slots : t # s => /\ req'[t].op = req[t].op /\ req'[t].token = req[t].token
                                       /\ Command(req'[t]) = Command(req[t])
      BY <1>0, IdleProper DEF Moved, Alike, Command
    <2>3. Step(s) # "issue" \/ n = Idle
      BY FailMoves DEF AfterFailure, At, Ignored
    <2>4. n.token \in {o.token, NoToken}
      BY <1>0, <2>1, <2>2, <2>3 DEF GoesOn
    <2>5. n.op \in {"refresh", "logout"} => n.token # NoToken
      BY <1>0, <2>1, <2>2, <2>3 DEF GoesOn, SessionsRooted
    <2>6. (Command(n) = "answer" /\ n.op # "deleteMe") => n.token # NoToken
      <3>1. CASE n.op \in {"refresh", "logout"}
        BY <2>5, <3>1
      <3>2. CASE n.op \in {"verify", "social"} /\ Command(n) = "answer"
        <4>1. GoesOn(o, n) /\ Proper(n) /\ n # Idle
          BY <2>1, <2>2, <3>2
        <4>2. (n.op = "verify" /\ n.pc = 8) \/ (n.op = "social" /\ n.pc = 6)
          BY <3>2, <4>1, AtSession
        <4>3. (o.op = "verify" /\ o.pc = 7) \/ (o.op = "social" /\ o.pc = 5)
          BY <1>0, <4>1, <4>2 DEF GoesOn, Advances, Request
        <4> QED
          BY <1>0, <2>3, <4>1, <4>3, AtSession
      <3>3. CASE n.op \notin {"refresh", "logout", "verify", "social", "deleteMe"}
        BY <2>1, <2>2, <3>3, AtSession
      <3> QED
        BY <3>1, <3>2, <3>3
    <2>7. \A t \in Slots :
            /\ req'[t].token \in {req[t].token, NoToken}
            /\ req'[t].op \in {"refresh", "logout"} => req'[t].token # NoToken
            /\ (Command(req'[t]) = "answer" /\ req'[t].op # "deleteMe") => req'[t].token # NoToken
      <3> TAKE t \in Slots
      <3>1. CASE t = s
        BY <2>4, <2>5, <2>6, <3>1
      <3>2. CASE t # s
        BY <1>0, <2>2, <3>2 DEF SessionsRooted
      <3> QED
        BY <3>1, <3>2
    <2> QED
      BY <1>0, <1>2, <2>7, RootedFrame DEF redis, browser
  <1> QED
    BY <1>1, <1>5, <1>6 DEF Typed

\* A letter of the list that changes is a letter still.
LEMMA LetterChanges ==
    ASSUME MailTypes, NEW i \in DOMAIN letters, NEW l \in Letter,
           letters' = [letters EXCEPT ![i] = l]
    PROVE  /\ letters' \in Seq(Letter) /\ DOMAIN letters' = DOMAIN letters
           /\ letters'[i] = l /\ \A j \in DOMAIN letters : j # i => letters'[j] = letters[j]
  <1>1. /\ letters \in Seq(Letter) /\ i \in 1..Len(letters) /\ DOMAIN letters = 1..Len(letters)
    BY DEF MailTypes
  <1>2. letters' \in Seq(Letter) /\ Len(letters') = Len(letters)
    BY <1>1, ExceptSeq
  <1> QED
    BY <1>1, <1>2

\* The e-mail job keeps its letters, of the kind and for whom they were.
LEMMA LettersKeep ==
    ASSUME Typed, Letters
    PROVE  /\ MailTypes' /\ DOMAIN letters' = DOMAIN letters
           /\ \A i \in DOMAIN letters : /\ letters'[i].kind = letters[i].kind
                                        /\ letters'[i].of = letters[i].of
           /\ UNCHANGED <<mongo, redis, browser, req>>
           /\ UNCHANGED <<scenario, root, uses, out, loose, unmailed>> /\ turns' \in 0..MaxTurns
  <1>0. /\ MailTypes /\ letters \in Seq(Letter) /\ outbox \in Seq(DOMAIN letters)
        /\ Len(outbox) <= MailCap /\ turns \in 0..MaxTurns
    BY DEF Typed, MailTypes, StoreTypes
  <1>1. ASSUME NEW i \in DOMAIN letters, NEW l \in Letter, letters' = [letters EXCEPT ![i] = l],
               l.kind = letters[i].kind, l.of = letters[i].of
        PROVE  /\ letters' \in Seq(Letter) /\ DOMAIN letters' = DOMAIN letters
               /\ \A j \in DOMAIN letters : /\ letters'[j].kind = letters[j].kind
                                            /\ letters'[j].of = letters[j].of
    BY <1>0, <1>1, LetterChanges
  <1>2. ASSUME NEW i \in DOMAIN letters, NEW st \in {"queued", "sending", "delivered", "givenUp"},
               SetLetter(i, st)
        PROVE  /\ letters' \in Seq(Letter) /\ DOMAIN letters' = DOMAIN letters
               /\ \A j \in DOMAIN letters : /\ letters'[j].kind = letters[j].kind
                                            /\ letters'[j].of = letters[j].of
    <2> DEFINE l == [letters[i] EXCEPT !.st = st]
    <2>1. letters[i] \in Letter
      BY <1>0
    <2>2. l \in Letter /\ l.kind = letters[i].kind /\ l.of = letters[i].of
      BY <2>1 DEF Letter
    <2>3. letters' = [letters EXCEPT ![i] = l]
      BY <1>2 DEF SetLetter
    <2> QED
      BY <1>1, <2>2, <2>3
  <1>3. CASE TakeLetter
    <2>1. Head(outbox) \in DOMAIN letters /\ Tail(outbox) \in Seq(DOMAIN letters)
          /\ Len(Tail(outbox)) <= MailCap
      <3> DEFINE D == DOMAIN letters
      <3>1. outbox \in Seq(D) /\ outbox # <<>> /\ Len(outbox) <= MailCap /\ MailCap \in Nat
        BY <1>0, <1>3, AccountsAssumption DEF TakeLetter
      <3> HIDE DEF D
      <3>2. Head(outbox) \in D /\ Tail(outbox) \in Seq(D) /\ Len(Tail(outbox)) <= MailCap
        BY <3>1
      <3> QED
        BY <3>2 DEF D
    <2>2. UNCHANGED <<mongo, redis, browser, req, history>> /\ outbox' = Tail(outbox)
          /\ SetLetter(Head(outbox), "sending")
      BY <1>3 DEF TakeLetter
    <2> QED
      BY <1>0, <1>2, <2>1, <2>2 DEF MailTypes, history
  <1>4. ASSUME NEW i \in DOMAIN letters, LetterSent(i)
        PROVE  /\ SetLetter(i, "delivered")
               /\ UNCHANGED <<mongo, redis, outbox, browser, req, history>>
    BY <1>4 DEF LetterSent
  <1>5. ASSUME NEW i \in DOMAIN letters, LetterFails(i)
        PROVE  /\ letters' \in Seq(Letter) /\ DOMAIN letters' = DOMAIN letters
               /\ \A j \in DOMAIN letters : /\ letters'[j].kind = letters[j].kind
                                            /\ letters'[j].of = letters[j].of
               /\ UNCHANGED <<mongo, redis, outbox, browser, req>>
               /\ UNCHANGED <<scenario, root, uses, out, loose, unmailed>>
               /\ turns' \in 0..MaxTurns
    <2>0. /\ UNCHANGED <<mongo, redis, outbox, browser, req>>
          /\ UNCHANGED <<scenario, root, uses, out, loose, unmailed>>
          /\ turns' \in 0..MaxTurns
      BY <1>0, <1>5, AccountsAssumption DEF LetterFails, Turn
    <2>1. CASE SetLetter(i, "givenUp")
      BY <1>2, <2>0, <2>1
    <2>2. CASE /\ letters[i].tries < MaxRetries
               /\ letters' = [letters EXCEPT ![i].st = "backoff", ![i].tries = @ + 1]
      <3> DEFINE l == [letters[i] EXCEPT !.st = "backoff", !.tries = letters[i].tries + 1]
      <3>0. letters[i] \in Letter
        BY <1>0
      <3>1. letters[i] \in Letter /\ letters[i].tries \in 0..MaxRetries
        BY <3>0 DEF Letter
      <3>2. letters[i].tries + 1 \in 0..MaxRetries
        BY <2>2, <3>1, AccountsAssumption
      <3>3. l \in Letter /\ l.kind = letters[i].kind /\ l.of = letters[i].of
        BY <3>1, <3>2 DEF Letter
      <3>4. letters' = [letters EXCEPT ![i] = l]
        BY <2>2
      <3> QED
        BY <1>1, <2>0, <3>3, <3>4
    <2> QED
      BY <1>5, <2>1, <2>2 DEF LetterFails
  <1>6. ASSUME NEW i \in DOMAIN letters, Retry(i)
        PROVE  /\ SetLetter(i, "queued") /\ outbox' \in Seq(DOMAIN letters)
               /\ Len(outbox') <= MailCap
               /\ UNCHANGED <<mongo, redis, browser, req, history>>
    <2>1. /\ SetLetter(i, "queued") /\ outbox' = Append(outbox, i) /\ Len(outbox) < MailCap
          /\ UNCHANGED <<mongo, redis, browser, req, history>>
      BY <1>6 DEF Retry
    <2> DEFINE D == DOMAIN letters
    <2>2. outbox \in Seq(D) /\ i \in D /\ MailCap \in Nat
      BY <1>0, AccountsAssumption
    <2> HIDE DEF D
    <2>3. outbox' \in Seq(D) /\ Len(outbox') <= MailCap
      BY <2>1, <2>2
    <2> QED
      BY <2>1, <2>3 DEF D
  <1>7. CASE \E i \in DOMAIN letters : LetterSent(i)
    BY <1>0, <1>2, <1>4, <1>7 DEF MailTypes, history
  <1>8. CASE \E i \in DOMAIN letters : LetterFails(i)
    BY <1>0, <1>5, <1>8 DEF MailTypes
  <1>9. CASE \E i \in DOMAIN letters : Retry(i)
    BY <1>0, <1>2, <1>6, <1>9 DEF MailTypes, history
  <1> QED
    BY <1>3, <1>7, <1>8, <1>9 DEF Letters

\* What expires is gone; nobody has got a token.
LEMMA ExpiryTyped ==
    ASSUME Typed, KeyExpires
    PROVE  Typed'
  <1>0. /\ RequestTypes /\ MailTypes /\ StoreTypes /\ SessionsRooted
        /\ UNCHANGED <<mongo, lock, mail, browser, req, scenario, root, uses, out, loose, unmailed>>
        /\ turns' \in 0..MaxTurns
    BY AccountsAssumption DEF Typed, KeyExpires, Turn, StoreTypes
  <1>1. /\ link' \in [Links -> {"none", "live", "spent"}]
        /\ refresh' \in [Tokens -> Hosts \cup {NoHost}]
        /\ \A t \in Tokens : refresh'[t] # NoHost => refresh[t] # NoHost
        /\ anonKey' \in BOOLEAN /\ sess' \subseteq Entries /\ recov' \in [Entries -> Nat]
    <2>1. CASE /\ \E l \in Links : link[l] = "live" /\ link' = [link EXCEPT ![l] = "spent"]
               /\ UNCHANGED <<refresh, anonKey, sess, recov>>
      BY <1>0, <2>1 DEF StoreTypes
    <2>2. CASE /\ \E t \in Tokens : /\ refresh[t] # NoHost
                                    /\ refresh' = [refresh EXCEPT ![t] = NoHost]
               /\ UNCHANGED <<link, anonKey, sess, recov>>
      BY <1>0, <2>2 DEF StoreTypes
    <2>3. CASE anonKey /\ anonKey' = FALSE /\ UNCHANGED <<link, refresh, sess, recov>>
      BY <1>0, <2>3 DEF StoreTypes
    <2>4. CASE /\ \E e \in sess : sess' = sess \ {e}
               /\ UNCHANGED <<link, refresh, anonKey, recov>>
      BY <1>0, <2>4 DEF StoreTypes
    <2>5. CASE /\ \E e \in Entries : recov[e] > 0 /\ recov' = [recov EXCEPT ![e] = @ - 1]
               /\ UNCHANGED <<link, refresh, anonKey, sess>>
      <3>1. PICK e \in Entries : recov[e] > 0 /\ recov' = [recov EXCEPT ![e] = recov[e] - 1]
        BY <2>5
      <3>2. recov[e] - 1 \in Nat
        BY <1>0, <3>1 DEF StoreTypes
      <3> QED
        BY <1>0, <2>5, <3>1, <3>2 DEF StoreTypes
    <2> QED
      BY <2>1, <2>2, <2>3, <2>4, <2>5 DEF KeyExpires
  <1>2. MailTypes' /\ StoreTypes'
    BY <1>0, <1>1 DEF MailTypes, StoreTypes, mongo, mail, browser
  <1>3. RequestTypes' /\ SessionsRooted'
    BY <1>0, <1>1 DEF RequestTypes, SessionsRooted, browser
  <1> QED
    BY <1>2, <1>3 DEF Typed

\* After a crash there are no requests, and no letters under way.
LEMMA CrashTyped ==
    ASSUME Typed, Crash
    PROVE  /\ Typed' /\ DOMAIN letters' = DOMAIN letters
           /\ \A i \in DOMAIN letters : /\ letters'[i].kind = letters[i].kind
                                        /\ letters'[i].of = letters[i].of
           /\ \A s \in Slots : req'[s] = Idle
  <1>0. /\ RequestTypes /\ MailTypes /\ StoreTypes /\ SessionsRooted
        /\ UNCHANGED <<mongo, redis, browser, scenario, root, uses, out>>
        /\ turns' \in 0..MaxTurns /\ req' = [s \in Slots |-> Idle]
    BY AccountsAssumption DEF Typed, Crash, Turn, StoreTypes
  <1>1. /\ letters' \in Seq(Letter) /\ DOMAIN letters' = DOMAIN letters
        /\ \A i \in DOMAIN letters : /\ letters'[i].kind = letters[i].kind
                                     /\ letters'[i].of = letters[i].of
    <2> DEFINE new == [i \in DOMAIN letters |->
                          IF letters[i].st \in {"queued", "sending", "backoff"}
                          THEN [letters[i] EXCEPT !.st = "lost"] ELSE letters[i]]
    <2>1. \A l \in Letter : LET m == [l EXCEPT !.st = "lost"]
                            IN  m \in Letter /\ m.kind = l.kind /\ m.of = l.of
      BY DEF Letter
    <2>2. /\ letters \in Seq(Letter) /\ DOMAIN letters = 1..Len(letters) /\ Len(letters) \in Nat
          /\ \A i \in DOMAIN letters : letters[i] \in Letter
      BY <1>0 DEF MailTypes
    <2>3. \A i \in DOMAIN letters :
            new[i] \in Letter /\ new[i].kind = letters[i].kind /\ new[i].of = letters[i].of
      BY <2>1, <2>2
    <2>4. new \in [1..Len(letters) -> Letter] /\ DOMAIN new = DOMAIN letters
      BY <2>2, <2>3
    <2>5. letters' = new
      BY DEF Crash
    <2> HIDE DEF new
    <2> QED
      BY <2>2, <2>3, <2>4, <2>5, SeqDef
  <1>2. outbox' = <<>> /\ Len(outbox') <= MailCap /\ outbox' \in Seq(DOMAIN letters')
    BY AccountsAssumption DEF Crash
  <1>3. RequestTypes' /\ \A s \in Slots : req'[s] = Idle
    BY <1>0, IdleProper DEF RequestTypes
  <1>4. /\ loose' \subseteq Tokens \cup Links \cup Entries \cup Hosts \cup {"queue"}
        /\ unmailed' \subseteq Entries
    <2>1. \A s \in Slots : At(s, "delLink") => req[s].link \in Links
      BY SlotTypes, KnownAt DEF At
    <2>2. \A s \in Slots : req[s].op = "refresh" => root[req[s].token] \in Tokens
      BY <1>0, SlotTypes DEF SessionsRooted, StoreTypes, Request
    <2>3. \A s \in Slots : Step(s) \in {"token", "mailToken", "unmark"} => req[s].entry \in Entries
      BY SlotTypes, KnownAt
    <2>4. /\ loose \subseteq Tokens \cup Links \cup Entries \cup Hosts \cup {"queue"}
          /\ unmailed \subseteq Entries
      BY <1>0 DEF StoreTypes
    <2>5. /\ loose' = loose \cup {root[req[s].token] : s \in {r \in Slots :
                    req[r].op = "refresh" /\ Step(r) \in Holding}}
                \cup {req[s].link : s \in {r \in Slots : At(r, "delLink")}}
                \cup (IF \E s \in Slots : At(s, "forget") THEN {"queue"} ELSE {})
          /\ unmailed' = unmailed \cup {req[s].entry : s \in {r \in Slots :
                    Step(r) \in {"token", "mailToken", "unmark"}}}
      BY DEF Crash
    <2> QED
      BY <2>1, <2>2, <2>3, <2>4, <2>5
  <1>5. MailTypes' /\ StoreTypes'
    BY <1>0, <1>1, <1>2, <1>4 DEF MailTypes, StoreTypes, mongo, redis, browser
  <1>6. SessionsRooted'
    BY <1>0, <1>3, IdleProper, RootedFrame DEF redis, browser
  <1> QED
    BY <1>1, <1>3, <1>5, <1>6 DEF Typed

\* Another recovery token, and an entry that changes.
LEMMA EntryTyped ==
    ASSUME Typed, NEW e \in Entries, GetRecoveryToken(e) \/ EntryChanges(e)
    PROVE  /\ Typed' /\ req' = req /\ letters' = letters
           /\ \/ entry' = entry /\ loose' = loose
              \/ \E st \in {"live", "arrived", "over"} :
                    /\ entry' = [entry EXCEPT ![e].st = st]
                    /\ loose' = loose \/ loose' = loose \cup {e}
                    /\ st = "over" \/ InQueue(e) \/ e \in loose'
           /\ UNCHANGED <<host, owner, marked, link, refresh, anonKey, lock, browser, outbox,
                          scenario, root, uses, out, unmailed>>
  <1>0. RequestTypes /\ MailTypes /\ StoreTypes /\ SessionsRooted
    BY DEF Typed
  <1>1. /\ \/ entry' = entry /\ loose' = loose
           \/ \E st \in {"live", "arrived", "over"} :
                 /\ entry' = [entry EXCEPT ![e].st = st]
                 /\ loose' = loose \/ loose' = loose \cup {e}
                 /\ st = "over" \/ InQueue(e) \/ e \in loose'
        /\ UNCHANGED <<host, owner, marked, link, refresh, anonKey, lock, browser, outbox,
                       scenario, root, uses, out, unmailed>>
        /\ req' = req /\ letters' = letters
        /\ sess' \in {sess, sess \ {e}} /\ turns' \in 0..MaxTurns
        /\ recov' \in {recov, [recov EXCEPT ![e] = recov[e] + 1]}
    <2>1. CASE GetRecoveryToken(e)
      BY <1>0, <2>1, AccountsAssumption
         DEF GetRecoveryToken, Turn, mongo, mail, browser, StoreTypes
    <2>2. CASE EntryChanges(e)
      <3>1. CASE Live(e) /\ entry' = [entry EXCEPT ![e].st = "arrived"] /\ UNCHANGED <<sess, loose>>
        BY <1>0, <2>2, <3>1, AccountsAssumption
           DEF EntryChanges, Turn, mail, StoreTypes, Live, InQueue
      <3>2. CASE /\ entry' = [entry EXCEPT ![e].st = "over"]
                 /\ sess' = sess \ {e} /\ UNCHANGED loose
        BY <1>0, <2>2, <3>2, AccountsAssumption DEF EntryChanges, Turn, mail, StoreTypes
      <3>3. CASE /\ entry' = [entry EXCEPT ![e].st = "live"]
                 /\ Spoil({e}, ~InQueue(e)) /\ UNCHANGED sess
        BY <1>0, <2>2, <3>3, AccountsAssumption DEF EntryChanges, Turn, Spoil, mail, StoreTypes
      <3> QED
        BY <2>2, <3>1, <3>2, <3>3 DEF EntryChanges
    <2> QED
      BY <2>1, <2>2
  <1>2. \A d \in Entry, st \in {"live", "arrived", "over"} : [d EXCEPT !.st = st] \in Entry
    BY DEF Entry
  <1>3. \A st \in {"live", "arrived", "over"} : [entry EXCEPT ![e].st = st] \in [Entries -> Entry]
    BY <1>0, <1>2 DEF StoreTypes
  <1>4. entry' \in [Entries -> Entry] /\ sess' \subseteq Entries
    BY <1>0, <1>1, <1>3 DEF StoreTypes
  <1>5. recov' \in [Entries -> Nat]
    <2>1. recov[e] + 1 \in Nat /\ recov \in [Entries -> Nat]
      BY <1>0 DEF StoreTypes
    <2> QED
      BY <1>1, <2>1
  <1>6. loose' \subseteq Tokens \cup Links \cup Entries \cup Hosts \cup {"queue"}
    BY <1>0, <1>1 DEF StoreTypes
  <1>7. MailTypes' /\ StoreTypes'
    BY <1>0, <1>1, <1>4, <1>5, <1>6 DEF MailTypes, StoreTypes, browser
  <1>8. RequestTypes' /\ SessionsRooted'
    BY <1>0, <1>1 DEF RequestTypes, SessionsRooted, browser
  <1> QED
    BY <1>1, <1>7, <1>8 DEF Typed

\* A lock that lapses marks its owner.
LEMMA LapseTyped ==
    ASSUME Typed, NEW k \in Contacts, LockLapses(k)
    PROVE  /\ Typed' /\ \A s \in Slots : Alike(req[s], req'[s])
           /\ lock[k] \in Slots /\ lock' = [lock EXCEPT ![k] = NoSlot]
           /\ (req[lock[k]].op = "join" /\ LockKey(req[lock[k]]) = k) => req'[lock[k]].loose
           /\ UNCHANGED <<mongo, link, refresh, anonKey, sess, recov, mail, browser,
                          scenario, root, uses, out, loose, unmailed>>
  <1>0. /\ RequestTypes /\ MailTypes /\ StoreTypes /\ SessionsRooted
        /\ lock \in [Contacts -> Slots \cup {NoSlot}] /\ req \in [Slots -> Request]
    BY DEF Typed, RequestTypes, StoreTypes
  <1> DEFINE o == req[lock[k]]
             b == o.loose \/ (o.op = "join" /\ LockKey(o) = k)
             n == [o EXCEPT !.loose = b]
  <1>1. /\ lock[k] \in Slots /\ lock' = [lock EXCEPT ![k] = NoSlot]
        /\ req' = [req EXCEPT ![lock[k]] = n] /\ turns' \in 0..MaxTurns
        /\ UNCHANGED <<mongo, link, refresh, anonKey, sess, recov, mail, browser,
                       scenario, root, uses, out, loose, unmailed>>
    BY <1>0, AccountsAssumption DEF LockLapses, Turn, StoreTypes
  <1>2. o \in Request
    BY <1>0, <1>1
  <1>3. b \in BOOLEAN
    OBVIOUS
  <1>4. o.loose => b
    OBVIOUS
  <1>5. (o.op = "join" /\ LockKey(o) = k) => b
    OBVIOUS
  <1> HIDE DEF b
  <1>6. n.loose = b
    BY <1>2, <1>3 DEF Request
  <1>7. Alike(o, n)
    BY <1>2, <1>3, <1>4 DEF Alike, Request
  <1>8. /\ \A s \in Slots : Alike(req[s], req'[s])
        /\ req'[lock[k]].loose = b /\ req' \in [Slots -> Request]
    <2>1. \A s \in Slots : s # lock[k] => Alike(req[s], req'[s])
      BY <1>0, <1>1 DEF Alike
    <2>2. req'[lock[k]] = n
      BY <1>0, <1>1
    <2>3. n \in Request
      BY <1>7 DEF Alike
    <2> QED
      BY <1>0, <1>1, <1>6, <1>7, <2>1, <2>2, <2>3
  <1>9. \A s \in Slots : Proper(req'[s]) /\ Known(req'[s]) /\ Command(req'[s]) = Command(req[s])
    BY <1>8, SlotTypes, AlikeProper
  <1>10. RequestTypes' /\ MailTypes'
    BY <1>0, <1>1, <1>8, <1>9 DEF RequestTypes, MailTypes, mail
  <1>11. StoreTypes'
    BY <1>0, <1>1 DEF StoreTypes, mongo, browser
  <1>12. SessionsRooted'
    BY <1>0, <1>1, <1>8, <1>9 DEF SessionsRooted, Alike, browser
  <1> QED
    BY <1>1, <1>5, <1>8, <1>10, <1>11, <1>12 DEF Typed

\* The host adds a guest, and marks the joins that have checked a contact of hers.
LEMMA AddTyped ==
    ASSUME Typed, NEW k \in SUBSET Contacts, AddEntry(k)
    PROVE  /\ Typed' /\ \A s \in Slots : Alike(req[s], req'[s])
           /\ \A s \in Slots : HasChecked(req[s], k) => req'[s].loose
           /\ \E e \in Entries :
                /\ entry' = [entry EXCEPT ![e] =
                                [st |-> "live", contacts |-> k, joined |-> FALSE]]
                /\ loose' = loose \/ loose' = loose \cup {e}
                /\ (\E f \in Entries : InQueue(f) /\ k \cap entry[f].contacts # {})
                       => e \in loose'
           /\ loose \subseteq loose'
           /\ UNCHANGED <<host, owner, marked, redis, mail, browser,
                          scenario, root, uses, out, unmailed>>
  <1>0. /\ RequestTypes /\ MailTypes /\ StoreTypes /\ SessionsRooted
        /\ req \in [Slots -> Request]
    BY DEF Typed, RequestTypes
  <1>1. PICK e \in Entries :
         /\ entry' = [entry EXCEPT ![e] = [st |-> "live", contacts |-> k, joined |-> FALSE]]
         /\ Spoil({e}, \E f \in Entries : InQueue(f) /\ k \cap entry[f].contacts # {})
    BY DEF AddEntry
  <1>2. /\ loose' = loose \/ loose' = loose \cup {e}
        /\ (\E f \in Entries : InQueue(f) /\ k \cap entry[f].contacts # {}) => e \in loose'
    BY <1>1 DEF Spoil
  <1>3. /\ req' = [r \in Slots |-> IF HasChecked(req[r], k)
                                  THEN [req[r] EXCEPT !.loose = TRUE] ELSE req[r]]
        /\ turns' \in 0..MaxTurns
        /\ UNCHANGED <<host, owner, marked, redis, mail, browser,
                       scenario, root, uses, out, unmailed>>
    BY <1>0, AccountsAssumption DEF AddEntry, Turn, StoreTypes
  <1>4. ASSUME NEW s \in Slots
        PROVE  Alike(req[s], req'[s]) /\ (HasChecked(req[s], k) => req'[s].loose)
    <2>1. CASE HasChecked(req[s], k)
      <3>1. req'[s] = [req[s] EXCEPT !.loose = TRUE]
        BY <1>3, <2>1
      <3> QED
        BY <1>0, <3>1 DEF Alike, Request
    <2>2. CASE ~HasChecked(req[s], k)
      BY <1>0, <1>3, <2>2 DEF Alike
    <2> QED
      BY <2>1, <2>2
  <1>5. \A s \in Slots : Proper(req'[s]) /\ Known(req'[s]) /\ Command(req'[s]) = Command(req[s])
    BY <1>4, SlotTypes, AlikeProper
  <1>6. req' \in [Slots -> Request]
    BY <1>3, <1>4 DEF Alike
  <1>7. RequestTypes' /\ MailTypes'
    BY <1>0, <1>3, <1>5, <1>6 DEF RequestTypes, MailTypes, mail
  <1>8. entry' \in [Entries -> Entry]
    <2>1. [st |-> "live", contacts |-> k, joined |-> FALSE] \in Entry
      BY DEF Entry
    <2> QED
      BY <1>0, <1>1, <2>1 DEF StoreTypes
  <1>9. StoreTypes'
    BY <1>0, <1>2, <1>3, <1>8 DEF StoreTypes, redis, browser
  <1>10. SessionsRooted'
    BY <1>0, <1>3, <1>4, <1>5 DEF SessionsRooted, Alike, browser, redis
  <1> QED
    BY <1>1, <1>2, <1>3, <1>4, <1>7, <1>9, <1>10 DEF Typed

\* The e-mail job keeps the types.
LEMMA LettersTyped ==
    ASSUME Typed, Letters
    PROVE  Typed'
  BY LettersKeep DEF Typed, RequestTypes, StoreTypes, SessionsRooted, mongo, redis, browser

\* At first everything has its type.
LEMMA InitTyped ==
    ASSUME Init
    PROVE  Typed
  <1>0. /\ First(Hosts) \in Hosts /\ First(Idents) \in Idents /\ First(Links) \in Links
        /\ First(Tokens) \in Tokens
    BY AccountsAssumption DEF First
  <1>1. NoDoc \in Host
    BY DEF NoDoc, Host
  <1>2. RequestTypes
    BY IdleProper DEF Init, RequestTypes
  <1>3. MailTypes
    <2>1. PICK asked \in BOOLEAN :
             letters = IF asked
                       THEN <<[kind |-> "link", of |-> First(Links), st |-> "delivered",
                               tries |-> 0]>>
                       ELSE <<>>
      BY DEF Init
    <2>2. [kind |-> "link", of |-> First(Links), st |-> "delivered", tries |-> 0] \in Letter
      BY <1>0, AccountsAssumption DEF Letter
    <2>3. letters \in Seq(Letter)
      BY <2>1, <2>2
    <2>4. outbox = <<>>
      BY DEF Init
    <2> QED
      BY <2>3, <2>4, AccountsAssumption DEF MailTypes
  <1>4. PICK stored \in {{}, {First(Hosts)}} \cup {H \in SUBSET Hosts : Cardinality(H) = 2},
             i \in {NoIdent, First(Idents)}, signedIn \in BOOLEAN :
         /\ IF stored = {} THEN i = NoIdent /\ ~signedIn ELSE First(Hosts) \in stored
         /\ Cardinality(stored) = 2 => "slug" \in scenario
         /\ signedIn => scenario \cap {"refresh", "logout", "deleteMe", "claim"} # {}
         /\ i # NoIdent => "social" \in scenario
         /\ scenario \cap {"join", "update", "recover"} # {} => stored = {}
         /\ host = [h \in Hosts |->
                IF h \notin stored THEN NoDoc
                ELSE IF h # First(Hosts) THEN [NoDoc EXCEPT !.st = "stored"]
                ELSE [NoDoc EXCEPT !.st = "stored", !.email = TRUE, !.ident = i]]
         /\ refresh = [t \in Tokens |->
                IF signedIn /\ t = First(Tokens) THEN First(Hosts) ELSE NoHost]
         /\ root = [t \in Tokens |->
                IF signedIn /\ t = First(Tokens) THEN t ELSE NoToken]
         /\ cookie = IF signedIn THEN First(Tokens) ELSE NoToken
         /\ access = IF signedIn THEN First(Hosts) ELSE NoHost
    BY Zenon DEF Init
  <1>5. host \in [Hosts -> Host]
    <2>1. [NoDoc EXCEPT !.st = "stored"] \in Host
      BY DEF NoDoc, Host
    <2>2. [NoDoc EXCEPT !.st = "stored", !.email = TRUE, !.ident = i] \in Host
      BY <1>0 DEF NoDoc, Host
    <2> QED
      BY <1>1, <1>4, <2>1, <2>2
  <1>6. /\ refresh \in [Tokens -> Hosts \cup {NoHost}]
        /\ root \in [Tokens -> Tokens \cup {NoToken}]
        /\ cookie \in Tokens \cup {NoToken} /\ access \in Hosts \cup {NoHost}
    BY <1>0, <1>4
  <1>7. /\ owner = NoHost /\ anonKey = TRUE
        /\ entry = [e \in Entries |-> NoEntryDoc]
        /\ marked = {} /\ sess = {} /\ recov = [e \in Entries |-> 0]
        /\ lock = [k \in Contacts |-> NoSlot]
        /\ req = [s \in Slots |-> Idle]
        /\ turns = 0 /\ scenario \in Scenarios
        /\ uses = [l \in Links |-> 0] /\ out = {} /\ loose = {} /\ unmailed = {}
        /\ link \in [Links -> {"none", "live", "spent"}]
    BY DEF Init
  <1>8. NoEntryDoc \in Entry
    BY DEF Entry, NoEntryDoc
  <1>9. StoreTypes
    BY <1>5, <1>6, <1>7, <1>8, AccountsAssumption DEF StoreTypes
  <1>10. SessionsRooted
    <2>1. NoToken \notin Tokens
      BY AccountsAssumption
    <2>2. \A t \in Tokens : refresh[t] # NoHost => root[t] # NoToken
      BY <1>0, <1>4, <2>1
    <2>3. \A t \in Tokens : root[t] # NoToken => root[root[t]] = root[t]
      BY <1>0, <1>4
    <2>4. cookie # NoToken => root[cookie] # NoToken
      BY <1>0, <1>4, <2>1
    <2>5. \A s \in Slots : /\ req[s].token = NoToken /\ req[s].op = "none"
                           /\ Command(req[s]) = "idle"
      BY <1>7, IdleProper
    <2> QED
      BY <1>7, <2>2, <2>3, <2>4, <2>5 DEF SessionsRooted
  <1> QED
    BY <1>2, <1>3, <1>9, <1>10 DEF Typed

\* Every step keeps the types.
LEMMA TypedNext ==
    ASSUME Typed, [Next]_vars
    PROVE  Typed'
  <1>1. CASE vars' = vars
    BY <1>1 DEF vars, mongo, redis, mail, browser, history, Typed, RequestTypes, MailTypes,
                StoreTypes, SessionsRooted
  <1>2. CASE Next
    BY <1>2, StartTyped, HandlerTyped, LettersTyped, ExpiryTyped, CrashTyped, EntryTyped,
       LapseTyped, AddTyped, FailTyped DEF Next, Environment
  <1> QED
    BY <1>1, <1>2

\* Every reachable state has the types that the code's data have: TypeOK, and that
\* a request at a command has the host, the link or the entry the command is about.
THEOREM TypeCorrect == Spec => []TypeOK
  <1>1. Typed => TypeOK
    BY DEF Typed, RequestTypes, MailTypes, StoreTypes, Proper, TypeOK
  <1> QED
    BY <1>1, InitTyped, TypedNext, PTL DEF Spec

-----------------------------------------------------------------------------
(* The accounts *)

\* An account stays until it is dropped, and gets the slug when it is set.
LEMMA HostMoves ==
    ASSUME Typed, NEW s \in Slots, Handler(s), NEW h \in Hosts
    PROVE  /\ Stored(h) => Stored(h)' \/ (Step(s) = "dropHost" /\ h = req[s].host)
           /\ Stored(h)' /\ host'[h].slug =>
                (Stored(h) /\ host[h].slug) \/ (Step(s) = "setSlug" /\ h = req[s].host)
  <1> DEFINE o == req[s]
  <1>0. Keeps(s) /\ host \in [Hosts -> Host] /\ host[h] \in Host
    BY HandlerKeeps DEF Typed, StoreTypes
  <1>1. CASE Step(s) \notin {"linkIdent", "insertHost", "setSlug", "dropHost"}
    BY <1>0, <1>1 DEF Keeps, Stored
  <1>2. CASE Step(s) = "linkIdent"
    <2>1. LinkIdent(s)
      BY <1>2, HandlerIs
    <2>2. CASE host' = host
      BY <2>2 DEF Stored
    <2>3. CASE Stored(o.host) /\ host' = [host EXCEPT ![o.host].ident = o.ident]
      <3>1. host'[h].st = host[h].st /\ host'[h].slug = host[h].slug
        BY <1>0, <2>3 DEF Host
      <3> QED
        BY <3>1 DEF Stored
    <2> QED
      BY <2>1, <2>2, <2>3 DEF LinkIdent
  <1>3. CASE Step(s) = "insertHost"
    <2>1. InsertHost(s)
      BY <1>3, HandlerIs
    <2>2. CASE host' = host
      BY <2>2 DEF Stored
    <2>3. ASSUME NEW g \in Hosts, host[g].st = "none",
                 host' = [host EXCEPT ![g] = [st |-> "stored", email |-> o.verified,
                                              ident |-> o.ident, slug |-> FALSE]]
          PROVE  /\ Stored(h) => Stored(h)'
                 /\ Stored(h)' /\ host'[h].slug => Stored(h) /\ host[h].slug
      <3>1. CASE g = h
        <4>1. ~host'[h].slug /\ ~Stored(h)
          BY <1>0, <2>3, <3>1 DEF Stored
        <4> QED
          BY <4>1
      <3>2. CASE g # h
        BY <1>0, <2>3, <3>2 DEF Stored
      <3> QED
        BY <3>1, <3>2
    <2> QED
      BY <2>1, <2>2, <2>3 DEF InsertHost
  <1>4. CASE Step(s) = "setSlug"
    <2>1. SetSlug(s)
      BY <1>4, HandlerIs
    <2>2. CASE host' = host
      BY <2>2 DEF Stored
    <2>3. CASE Stored(o.host) /\ host' = [host EXCEPT ![o.host].slug = TRUE]
      <3>1. host'[h].st = host[h].st /\ (h # o.host => host'[h] = host[h])
        BY <1>0, <2>3 DEF Host
      <3> QED
        BY <1>4, <3>1 DEF Stored
    <2> QED
      BY <2>1, <2>2, <2>3 DEF SetSlug
  <1>5. CASE Step(s) = "dropHost"
    <2>1. DropHost(s)
      BY <1>5, HandlerIs
    <2>2. CASE host' = host
      BY <2>2 DEF Stored
    <2>3. CASE Stored(o.host) /\ host' = [host EXCEPT ![o.host] = [NoDoc EXCEPT !.st = "gone"]]
      <3>1. [NoDoc EXCEPT !.st = "gone"].st = "gone"
        BY DEF NoDoc
      <3> QED
        BY <1>0, <1>5, <2>3, <3>1 DEF Stored
    <2> QED
      BY <2>1, <2>2, <2>3 DEF DropHost
  <1> QED
    BY <1>1, <1>2, <1>3, <1>4, <1>5

-----------------------------------------------------------------------------
(* Magic links *)

\* Links that were asked for or accepted before the step, and by whom.
LinkFrame ==
    \A s \in Slots :
        /\ Asks(req'[s]) => Asks(req[s]) /\ req'[s].link = req[s].link
        /\ Accepted(req'[s]) => Accepted(req[s]) /\ req'[s].link = req[s].link
        /\ Accepted(req[s]) => \/ Accepted(req'[s]) /\ req'[s].link = req[s].link
                               \/ req[s].link \in loose' \/ link'[req[s].link] = "spent"

\* What does not accept a link or store one keeps them spent.
LEMMA LinksFrame ==
    ASSUME Typed, LinksSpent, LinkFrame, uses' = uses, loose \subseteq loose',
           \A l \in Links : \/ link'[l] = link[l]
                            \/ link[l] # "none" /\ link'[l] = "spent"
    PROVE  LinksSpent'
  <1>1. \A s \in Slots : Asks(req[s]) \/ Accepted(req[s]) => req[s].link \in Links
    BY SlotTypes DEF Known, Asks, Accepted
  <1>2. LinkUsedOnce' /\ \A l \in Links : link'[l] = "none" => uses'[l] = 0
    BY DEF LinksSpent, LinkUsedOnce
  <1>3. ASSUME NEW l \in Links \ loose', link'[l] = "live", uses'[l] > 0
        PROVE  \E s \in Slots : Accepted(req'[s]) /\ req'[s].link = l
    <2>1. link[l] = "live" /\ l \in Links \ loose /\ uses[l] > 0
      BY <1>3
    <2>2. PICK s \in Slots : Accepted(req[s]) /\ req[s].link = l
      BY <2>1 DEF LinksSpent
    <2> QED
      BY <1>3, <2>2 DEF LinkFrame
  <1>4. \A s \in Slots : Accepted(req'[s]) => link'[req'[s].link] # "none"
    BY <1>1 DEF LinkFrame, LinksSpent
  <1>5. \A s \in Slots : Asks(req'[s]) => link'[req'[s].link] = "none"
    BY <1>1 DEF LinkFrame, LinksSpent
  <1>6. \A s, t \in Slots : Asks(req'[s]) /\ Asks(req'[t]) /\ req'[s].link = req'[t].link => s = t
    BY DEF LinkFrame, LinksSpent
  <1> QED
    BY <1>2, <1>3, <1>4, <1>5, <1>6 DEF LinksSpent

\* A request that moves asks for no link, and accepts one when it has read it.
LEMMA LinkMoves ==
    ASSUME Typed, NEW s \in Slots, Moved(s)
    PROVE  /\ \A t \in Slots : Asks(req'[t]) => Asks(req[t]) /\ req'[t].link = req[t].link
           /\ \A t \in Slots : \/ Step(s) = "getLink" /\ t = s
                               \/ Accepted(req'[t]) => Accepted(req[t]) /\ req'[t].link = req[t].link
           /\ \A t \in Slots : \/ Step(s) = "delLink" /\ t = s
                               \/ Accepted(req[t]) => Accepted(req'[t]) /\ req'[t].link = req[t].link
  <1> DEFINE o == req[s]
             n == req'[s]
  <1>0. Proper(o) /\ Step(s) = Command(o) /\ o \in Request
    BY SlotTypes
  <1>1. \A t \in Slots : t # s => /\ req'[t].op = req[t].op /\ req'[t].pc = req[t].pc
                                  /\ req'[t].link = req[t].link
    BY DEF Moved, Alike
  <1>2. n = Idle \/ GoesOn(o, n)
    BY DEF Moved, After
  <1>3. Idle.op = "none"
    BY IdleProper
  <1>4. Asks(n) => Asks(o) /\ n.link = o.link
    BY <1>0, <1>2, <1>3 DEF Asks, GoesOn, Advances, Request
  <1>5. Accepted(n) => Step(s) = "getLink"
    <2>1. Accepted(n) => o.op = "verify" /\ o.pc = 1
      BY <1>0, <1>2, <1>3 DEF Accepted, GoesOn, Advances, Request
    <2> QED
      BY <1>0, <2>1, AtSignIn
  <1>6. Accepted(o) => Step(s) = "delLink"
    BY <1>0, AtSignIn DEF Accepted
  <1> QED
    BY <1>1, <1>4, <1>5, <1>6 DEF Asks, Accepted

\* Commands keep the links spent.
LEMMA HandlerLinks ==
    ASSUME Typed, LinksSpent, NEW s \in Slots, Handler(s)
    PROVE  LinksSpent'
  <1> DEFINE o == req[s]
             n == req'[s]
  <1>0. /\ Proper(o) /\ Known(o) /\ o \in Request /\ Step(s) = Command(o) /\ Keeps(s)
        /\ Moved(s) /\ link \in [Links -> {"none", "live", "spent"}] /\ uses \in [Links -> Nat]
    BY SlotTypes, HandlerKeeps, HandlerMoves DEF Typed, StoreTypes
  <1>1. CASE Step(s) \notin {"getLink", "storeLink", "delLink"}
    <2>1. LinkFrame
      BY <1>0, <1>1, LinkMoves DEF LinkFrame
    <2> QED
      BY <1>0, <1>1, <2>1, LinksFrame DEF Keeps
  <1>2. CASE Step(s) = "delLink"
    <2>1. DeleteLink(s) /\ o.link \in Links /\ Accepted(o)
      BY <1>0, <1>2, HandlerIs, KnownAt, AtSignIn DEF Accepted
    <2>2. link' = [link EXCEPT ![o.link] = "spent"] /\ link[o.link] # "none"
      BY <2>1 DEF DeleteLink, LinksSpent
    <2>3. LinkFrame
      BY <1>0, <1>2, <2>1, <2>2, LinkMoves DEF LinkFrame
    <2> QED
      BY <1>0, <1>2, <2>2, <2>3, LinksFrame DEF Keeps
  <1>3. CASE Step(s) = "storeLink"
    <2>1. StoreLink(s) /\ o.link \in Links /\ o.op = "askLink" /\ o.pc = 2
      BY <1>0, <1>3, HandlerIs, KnownAt, AtSignIn
    <2>2. /\ link' = [link EXCEPT ![o.link] = "live"] /\ uses' = uses /\ loose \subseteq loose'
          /\ Continue(s)
      BY <1>0, <1>3, <2>1 DEF StoreLink, Keeps
    <2>3. Asks(o) /\ link[o.link] = "none" /\ uses[o.link] = 0
      BY <2>1 DEF Asks, LinksSpent
    <2>4. ~Asks(n)
      <3>1. n = Idle \/ GoesOn(o, n)
        BY <1>0 DEF Moved, After
      <3> QED
        BY <2>1, <3>1, IdleProper DEF Asks, GoesOn, Advances
    <2>5. \A t \in Slots : Asks(req'[t]) => t # s /\ Asks(req[t]) /\ req'[t].link = req[t].link
      BY <1>0, <2>4, LinkMoves
    <2>6. \A t \in Slots : Accepted(req'[t]) <=> Accepted(req[t])
      BY <1>0, <1>3, LinkMoves
    <2>7. \A t \in Slots : Accepted(req[t]) => req'[t].link = req[t].link /\ req[t].link \in Links
      BY <1>0, <1>3, LinkMoves, SlotTypes DEF Known, Accepted
    <2>8. LinkUsedOnce' /\ \A l \in Links : link'[l] = "none" => uses'[l] = 0
      BY <1>0, <2>2 DEF LinksSpent, LinkUsedOnce
    <2>9. \A l \in Links \ loose' : link'[l] = "live" /\ uses'[l] > 0 =>
             \E t \in Slots : Accepted(req'[t]) /\ req'[t].link = l
      <3> TAKE l \in Links \ loose'
      <3> HAVE link'[l] = "live" /\ uses'[l] > 0
      <3>1. l # o.link /\ link[l] = "live" /\ uses[l] > 0 /\ l \in Links \ loose
        BY <1>0, <2>2, <2>3
      <3>2. PICK t \in Slots : Accepted(req[t]) /\ req[t].link = l
        BY <3>1 DEF LinksSpent
      <3> QED
        BY <2>6, <2>7, <3>2
    <2>10. \A t \in Slots : Accepted(req'[t]) => link'[req'[t].link] # "none"
      BY <1>0, <2>2, <2>6, <2>7 DEF LinksSpent
    <2>11. \A t \in Slots : Asks(req'[t]) => link'[req'[t].link] = "none"
      BY <1>0, <2>2, <2>3, <2>5 DEF LinksSpent
    <2>12. \A t, r \in Slots : Asks(req'[t]) /\ Asks(req'[r]) /\ req'[t].link = req'[r].link => t = r
      BY <2>5 DEF LinksSpent
    <2> QED
      BY <2>8, <2>9, <2>10, <2>11, <2>12 DEF LinksSpent
  <1>4. CASE Step(s) = "getLink"
    <2>1. /\ GetLink(s) /\ o.link \in Links /\ o.op = "verify" /\ o.pc = 1
          /\ link' = link /\ loose \subseteq loose'
      BY <1>0, <1>4, HandlerIs, KnownAt, AtSignIn DEF Keeps
    <2>2. CASE link[o.link] # "live"
      <3>1. uses' = uses /\ n = Idle
        BY <2>1, <2>2, FinishMoves DEF GetLink
      <3>2. ~Accepted(n) /\ ~Accepted(o)
        BY <2>1, <3>1, IdleProper DEF Accepted
      <3>3. LinkFrame
        BY <1>0, <1>4, <3>2, LinkMoves DEF LinkFrame
      <3> QED
        BY <2>1, <3>1, <3>3, LinksFrame
    <2>3. CASE link[o.link] = "live"
      <3>1. /\ uses' = [uses EXCEPT ![o.link] = uses[o.link] + 1]
            /\ Spoil({o.link},
                     \E r \in Others(s, "verify", {"delLink"}) : req[r].link = o.link)
            /\ Continue(s)
        BY <2>1, <2>3 DEF GetLink
      <3>2. n.op = "verify" /\ n.pc = 2 /\ n.link = o.link /\ Accepted(n)
        <4>1. n = Onward(o)
          BY <3>1 DEF Continue, Become, Typed, RequestTypes
        <4>2. Len(Steps["verify"]) = 9
          BY DEF Steps
        <4> QED
          BY <1>0, <2>1, <4>1, <4>2 DEF Onward, Request, Accepted
      <3>3. \A t \in Slots : Asks(req'[t]) => Asks(req[t]) /\ req'[t].link = req[t].link
        BY <1>0, LinkMoves
      <3>4. \A t \in Slots \ {s} :
              (Accepted(req'[t]) <=> Accepted(req[t])) /\ req'[t].link = req[t].link
        BY <1>0 DEF Moved, Alike, Accepted
      <3>5. \A t \in Slots : Accepted(req[t]) => t # s
        BY <2>1 DEF Accepted
      <3>6. uses[o.link] > 0 /\ o.link \notin loose => o.link \in loose'
        <4> HAVE uses[o.link] > 0 /\ o.link \notin loose
        <4>1. PICK t \in Slots : Accepted(req[t]) /\ req[t].link = o.link
          BY <2>1, <2>3 DEF LinksSpent
        <4>2. t \in Others(s, "verify", {"delLink"})
          BY <3>5, <4>1, SlotTypes, AtSignIn DEF Others, Accepted
        <4> QED
          BY <3>1, <4>1, <4>2 DEF Spoil
      <3>7. LinkUsedOnce'
        <4>1. \A l \in Links : l # o.link => uses'[l] = uses[l]
          BY <1>0, <3>1
        <4>2. uses'[o.link] <= 1 \/ o.link \in loose'
          BY <1>0, <2>1, <3>1, <3>6
        <4> QED
          BY <2>1, <4>1, <4>2 DEF LinkUsedOnce, LinksSpent
      <3>8. \A l \in Links : link'[l] = "none" => uses'[l] = 0
        BY <1>0, <2>1, <2>3, <3>1 DEF LinksSpent
      <3>9. \A l \in Links \ loose' : link'[l] = "live" /\ uses'[l] > 0 =>
               \E t \in Slots : Accepted(req'[t]) /\ req'[t].link = l
        <4> TAKE l \in Links \ loose'
        <4> HAVE link'[l] = "live" /\ uses'[l] > 0
        <4>1. CASE l = o.link
          BY <3>2, <4>1
        <4>2. CASE l # o.link
          <5>1. link[l] = "live" /\ uses[l] > 0 /\ l \in Links \ loose
            BY <1>0, <2>1, <3>1, <4>2
          <5>2. PICK t \in Slots : Accepted(req[t]) /\ req[t].link = l
            BY <5>1 DEF LinksSpent
          <5> QED
            BY <3>4, <3>5, <5>2
        <4> QED
          BY <4>1, <4>2
      <3>10. \A t \in Slots : Accepted(req'[t]) => link'[req'[t].link] # "none"
        BY <2>1, <2>3, <3>2, <3>4 DEF LinksSpent
      <3>11. \A t \in Slots : Asks(req'[t]) => link'[req'[t].link] = "none"
        BY <2>1, <3>3 DEF LinksSpent
      <3>12. \A t, r \in Slots : Asks(req'[t]) /\ Asks(req'[r]) /\ req'[t].link = req'[r].link => t = r
        BY <3>3 DEF LinksSpent
      <3> QED
        BY <3>7, <3>8, <3>9, <3>10, <3>11, <3>12 DEF LinksSpent
    <2> QED
      BY <2>2, <2>3
  <1> QED
    BY <1>1, <1>2, <1>3, <1>4

\* Every step keeps the links spent.
LEMMA LinksNext ==
    ASSUME Typed, LinksSpent, [Next]_vars
    PROVE  LinksSpent'
  <1>0. link \in [Links -> {"none", "live", "spent"}]
    BY DEF Typed, StoreTypes
  <1>1. CASE vars' = vars
    <2>1. LinkFrame /\ uses' = uses /\ loose' = loose /\ link' = link
      BY <1>1 DEF vars, redis, history, LinkFrame
    <2> QED
      BY <2>1, LinksFrame
  <1>2. ASSUME NEW s \in Slots, Start(s)
        PROVE  LinksSpent'
    <2>1. /\ Begun(s) /\ link' = link /\ uses' = uses /\ loose' = loose
      BY <1>2, StartBegins DEF Begun, Unchanged, redis
    <2>2. ~Accepted(req'[s]) /\ ~Accepted(req[s]) /\ ~Asks(req[s])
      BY <2>1 DEF Begun, Accepted, Asks
    <2>3. \A t \in Slots : t # s => req'[t] = req[t]
      BY <2>1 DEF Begun
    <2>4. Asks(req'[s]) => /\ link[req'[s].link] = "none"
                           /\ \A t \in Slots : req[t].link # req'[s].link
      BY <2>1 DEF Begun, Asks
    <2>5. LinkUsedOnce' /\ \A l \in Links : link'[l] = "none" => uses'[l] = 0
      BY <2>1 DEF LinksSpent, LinkUsedOnce
    <2>6. \A l \in Links \ loose' : link'[l] = "live" /\ uses'[l] > 0 =>
             \E t \in Slots : Accepted(req'[t]) /\ req'[t].link = l
      BY <2>1, <2>2, <2>3 DEF LinksSpent
    <2>7. \A t \in Slots : Accepted(req'[t]) => link'[req'[t].link] # "none"
      BY <2>1, <2>2, <2>3 DEF LinksSpent
    <2>8. \A t \in Slots : Asks(req'[t]) => link'[req'[t].link] = "none"
      BY <2>1, <2>3, <2>4 DEF LinksSpent
    <2>9. \A t, r \in Slots : Asks(req'[t]) /\ Asks(req'[r]) /\ req'[t].link = req'[r].link => t = r
      <3> TAKE t, r \in Slots
      <3>1. CASE t # s /\ r # s
        BY <2>3, <3>1 DEF LinksSpent
      <3>2. CASE t = s \/ r = s
        BY <2>3, <2>4, <3>2
      <3> QED
        BY <3>1, <3>2
    <2> QED
      BY <2>5, <2>6, <2>7, <2>8, <2>9 DEF LinksSpent
  <1>3. ASSUME NEW s \in Slots, CommandFails(s)
        PROVE  LinksSpent'
    <2>1. Moved(s) /\ link' = link /\ uses' = uses /\ loose' = loose \cup Spoilt(s)
      BY <1>3, FailMoves DEF CommandFails, Unchanged, redis, Spoil
    <2>2. Step(s) = "delLink" => req[s].link \in loose'
      BY <2>1 DEF Spoilt, At
    <2>3. Step(s) # "getLink" \/ req'[s] = Idle
      BY <1>3, FailMoves DEF AfterFailure, At, Ignored
    <2>4. ~Accepted(Idle)
      BY IdleProper DEF Accepted
    <2>5. LinkFrame
      BY <2>1, <2>2, <2>3, <2>4, LinkMoves DEF LinkFrame
    <2> QED
      BY <2>1, <2>5, LinksFrame
  <1>4. CASE Letters
    <2>1. req' = req /\ uses' = uses /\ loose' = loose /\ link' = link
      BY <1>4, LettersKeep DEF redis
    <2> QED
      BY <2>1, LinksFrame DEF LinkFrame
  <1>5. CASE KeyExpires
    <2>1. /\ req' = req /\ uses' = uses /\ loose' = loose
          /\ link' = link \/ \E l \in Links : link[l] = "live" /\ link' = [link EXCEPT ![l] = "spent"]
      BY <1>5 DEF KeyExpires
    <2>2. LinkFrame
      BY <2>1 DEF LinkFrame
    <2> QED
      BY <1>0, <2>1, <2>2, LinksFrame
  <1>6. CASE Crash
    <2>1. /\ uses' = uses /\ link' = link /\ loose \subseteq loose'
          /\ \A s \in Slots : At(s, "delLink") => req[s].link \in loose'
      BY <1>6 DEF Crash, redis
    <2>2. \A s \in Slots : ~Asks(req'[s]) /\ ~Accepted(req'[s])
      BY <1>6, CrashTyped, IdleProper DEF Asks, Accepted
    <2>3. \A s \in Slots : Accepted(req[s]) => At(s, "delLink")
      BY SlotTypes, AtSignIn DEF Accepted, At
    <2>4. LinkFrame
      BY <2>1, <2>2, <2>3 DEF LinkFrame
    <2> QED
      BY <2>1, <2>4, LinksFrame
  <1>7. ASSUME NEW e \in Entries, GetRecoveryToken(e) \/ EntryChanges(e)
        PROVE  LinksSpent'
    <2>1. req' = req /\ uses' = uses /\ loose \subseteq loose' /\ link' = link
      BY <1>7, EntryTyped
    <2> QED
      BY <2>1, LinksFrame DEF LinkFrame
  <1>8. ASSUME NEW k \in Contacts, LockLapses(k)
        PROVE  LinksSpent'
    <2>1. /\ uses' = uses /\ loose' = loose /\ link' = link
          /\ \A s \in Slots : Alike(req[s], req'[s])
      BY <1>8, LapseTyped
    <2>2. LinkFrame
      BY <2>1 DEF LinkFrame, Asks, Accepted, Alike
    <2> QED
      BY <2>1, <2>2, LinksFrame
  <1>9. ASSUME NEW k \in SUBSET Contacts, AddEntry(k)
        PROVE  LinksSpent'
    <2>1. /\ uses' = uses /\ loose \subseteq loose' /\ link' = link
          /\ \A s \in Slots : Alike(req[s], req'[s])
      BY <1>9, AddTyped DEF redis
    <2>2. LinkFrame
      BY <2>1 DEF LinkFrame, Asks, Accepted, Alike
    <2> QED
      BY <2>1, <2>2, LinksFrame
  <1> QED
    BY <1>1, <1>2, <1>3, <1>4, <1>5, <1>6, <1>7, <1>8, <1>9, HandlerLinks DEF Next, Environment

-----------------------------------------------------------------------------
(* The claim of the queue *)

\* What requests are about to do to the queue comes from the step before, but for
\* the request in slot s after the steps that establish it.
LEMMA QueueMoves ==
    ASSUME Typed, NEW s \in Slots, Moved(s)
    PROVE  /\ \A t \in Slots : DropsHost(req'[t]) =>
                 /\ req'[t].host = req[t].host
                 /\ DropsHost(req[t]) \/ (t = s /\ Step(s) = "dropQueues")
           /\ \A t \in Slots : (ReSyncs(req'[t]) /\ ~req'[t].loose) =>
                 (ReSyncs(req[t]) /\ ~req[t].loose) \/ (t = s /\ Step(s) = "anonQueue")
           /\ \A t \in Slots : Forgets(req[t]) =>
                 Forgets(req'[t]) \/ (t = s /\ Step(s) = "forget")
  <1> DEFINE o == req[s]
             n == req'[s]
  <1>0. Proper(o) /\ Step(s) = Command(o) /\ o \in Request
    BY SlotTypes
  <1>1. \A t \in Slots : t # s => /\ req'[t].op = req[t].op /\ req'[t].pc = req[t].pc
                                  /\ req'[t].host = req[t].host
                                  /\ req[t].loose => req'[t].loose
    BY DEF Moved, Alike
  <1>2. n = Idle \/ GoesOn(o, n)
    BY DEF Moved, After
  <1>3. Idle.op = "none"
    BY IdleProper
  <1>4. DropsHost(n) => n.host = o.host /\ Step(s) = "dropQueues"
    <2>1. DropsHost(n) => n.host = o.host /\ o.op = "deleteMe" /\ o.pc = 3
      BY <1>0, <1>2, <1>3 DEF DropsHost, GoesOn, Advances, Request
    <2> QED
      BY <1>0, <2>1, AtAccount
  <1>5. ReSyncs(n) => Step(s) = "anonQueue"
    <2>1. ReSyncs(n) => o.op = "anon" /\ o.pc = 2
      BY <1>0, <1>2, <1>3 DEF ReSyncs, GoesOn, Advances, Request
    <2> QED
      BY <1>0, <2>1, AtAccount
  <1>6. Forgets(o) => Step(s) = "forget"
    BY <1>0, AtAccount DEF Forgets
  <1> QED
    BY <1>1, <1>4, <1>5, <1>6 DEF DropsHost, ReSyncs, Forgets

\* What neither claims the queue nor gives it back keeps it owned.
LEMMA QueueFrame ==
    ASSUME QueueOwned, owner' = owner, loose \subseteq loose',
           anonKey' => anonKey,
           owner \in Hosts /\ Stored(owner) /\ "queue" \notin loose' => Stored(owner)',
           \A s \in Slots : DropsHost(req'[s]) /\ "queue" \notin loose' =>
               DropsHost(req[s]) /\ req'[s].host = req[s].host,
           \A s \in Slots : (ReSyncs(req'[s]) /\ ~req'[s].loose) =>
               (ReSyncs(req[s]) /\ ~req[s].loose) \/ owner \notin Hosts,
           \A s \in Slots : Forgets(req[s]) =>
               Forgets(req'[s]) \/ ~anonKey' \/ "queue" \in loose'
    PROVE  QueueOwned'
  <1> SUFFICES ASSUME "queue" \notin loose'
               PROVE  /\ owner' \in Hosts => /\ Stored(owner)'
                                             /\ anonKey' => \E s \in Slots : Forgets(req'[s])
                      /\ \A s \in Slots : DropsHost(req'[s]) => owner' # req'[s].host
                      /\ \A s \in Slots : (ReSyncs(req'[s]) /\ ~req'[s].loose) => owner' \notin Hosts
    BY DEF QueueOwned
  <1>1. /\ owner \in Hosts => Stored(owner) /\ (anonKey => \E s \in Slots : Forgets(req[s]))
        /\ \A s \in Slots : DropsHost(req[s]) => owner # req[s].host
        /\ \A s \in Slots : (ReSyncs(req[s]) /\ ~req[s].loose) => owner \notin Hosts
    BY DEF QueueOwned
  <1> QED
    BY <1>1

\* Commands keep the queue owned.
LEMMA HandlerQueue ==
    ASSUME Typed, QueueOwned, NEW s \in Slots, Handler(s)
    PROVE  QueueOwned'
  <1> DEFINE o == req[s]
             n == req'[s]
  <1>0. /\ Proper(o) /\ Known(o) /\ o \in Request /\ Step(s) = Command(o) /\ Keeps(s)
        /\ Moved(s) /\ host \in [Hosts -> Host] /\ loose \subseteq loose'
        /\ NoHost \notin Hosts /\ Deleted \notin Hosts
    BY SlotTypes, HandlerKeeps, HandlerMoves, AccountsAssumption DEF Typed, StoreTypes, Keeps
  <1>1. Step(s) # "dropHost" => \A h \in Hosts : Stored(h) => Stored(h)'
    BY HostMoves
  <1>2. CASE Step(s) \notin {"dropQueues", "dropHost", "claim", "forget", "anonQueue", "resync"}
    BY <1>0, <1>1, <1>2, QueueMoves, QueueFrame DEF Keeps
  <1>3. CASE Step(s) = "forget"
    <2>1. ~anonKey' /\ owner' = owner
      BY <1>0, <1>3, HandlerIs DEF ForgetAnonHost, Keeps
    <2> QED
      BY <1>0, <1>1, <1>3, <2>1, QueueMoves, QueueFrame
  <1>4. CASE Step(s) = "anonQueue"
    <2>1. AnonQueue(s) /\ owner' = owner /\ anonKey' = anonKey
      BY <1>0, <1>4, HandlerIs DEF Keeps
    <2>2. CASE owner = NoHost
      BY <1>0, <1>1, <1>4, <2>1, <2>2, QueueMoves, QueueFrame
    <2>3. CASE owner # NoHost
      <3>1. n = Idle /\ ~ReSyncs(Idle)
        BY <2>1, <2>3, FinishMoves, IdleProper DEF AnonQueue, ReSyncs
      <3> QED
        BY <1>0, <1>1, <1>4, <2>1, <3>1, QueueMoves, QueueFrame
    <2> QED
      BY <2>2, <2>3
  <1>5. CASE Step(s) = "resync"
    <2>1. ReSync(s) /\ owner' = owner /\ ReSyncs(o)
      BY <1>0, <1>5, HandlerIs, AtAccount DEF Keeps, ReSyncs
    <2>2. "queue" \notin loose' => "queue" \notin loose /\ owner \notin Hosts
      BY <1>0, <2>1 DEF ReSync, Spoil, QueueOwned
    <2>3. \A t \in Slots : DropsHost(req'[t]) => DropsHost(req[t]) /\ req'[t].host = req[t].host
      BY <1>0, <1>5, QueueMoves
    <2> QED
      BY <2>1, <2>2, <2>3 DEF QueueOwned
  <1>6. CASE Step(s) = "dropHost"
    <2>1. /\ DropHost(s) /\ owner' = owner /\ anonKey' = anonKey /\ DropsHost(o)
      BY <1>0, <1>6, HandlerIs, AtAccount DEF Keeps, DropsHost
    <2>2. "queue" \notin loose' => owner # o.host
      BY <1>0, <2>1 DEF QueueOwned
    <2>3. \A h \in Hosts : h # o.host /\ Stored(h) => Stored(h)'
      BY <1>0, <2>1 DEF DropHost, Stored
    <2> QED
      BY <1>0, <1>6, <2>1, <2>2, <2>3, QueueMoves, QueueFrame
  <1>7. CASE Step(s) = "dropQueues"
    <2>1. /\ DropQueues(s) /\ anonKey' = anonKey /\ o.host \in Hosts /\ loose' = loose
      BY <1>0, <1>7, HandlerIs, AtAccount DEF Keeps, Known
    <2>2. owner' = IF owner = o.host THEN Deleted ELSE owner
      BY <2>1 DEF DropQueues
    <2>3. \A t \in Slots : DropsHost(req'[t]) =>
                 /\ req'[t].host = req[t].host
                 /\ DropsHost(req[t]) \/ t = s
      BY <1>0, QueueMoves
    <2>4. \A t \in Slots : DropsHost(req[t]) => req[t].host \in Hosts
      BY SlotTypes DEF DropsHost, Known
    <2>5. \A t \in Slots : (ReSyncs(req'[t]) /\ ~req'[t].loose) =>
                 (ReSyncs(req[t]) /\ ~req[t].loose)
      BY <1>0, <1>7, QueueMoves
    <2>6. \A t \in Slots : Forgets(req[t]) => Forgets(req'[t])
      BY <1>0, <1>7, QueueMoves
    <2>7. owner' \in Hosts => owner' = owner
      BY <1>0, <2>2
    <2> SUFFICES ASSUME "queue" \notin loose
                 PROVE  /\ owner' \in Hosts => /\ Stored(owner)'
                                               /\ anonKey' => \E t \in Slots : Forgets(req'[t])
                        /\ \A t \in Slots : DropsHost(req'[t]) => owner' # req'[t].host
                        /\ \A t \in Slots : (ReSyncs(req'[t]) /\ ~req'[t].loose)
                                              => owner' \notin Hosts
      BY <2>1 DEF QueueOwned
    <2>8. owner' \in Hosts => /\ Stored(owner)'
                              /\ anonKey' => \E t \in Slots : Forgets(req'[t])
      BY <1>1, <1>7, <2>1, <2>6, <2>7 DEF QueueOwned
    <2>9. \A t \in Slots : DropsHost(req'[t]) => owner' # req'[t].host
      BY <1>0, <2>1, <2>2, <2>3, <2>4 DEF QueueOwned
    <2>10. \A t \in Slots : (ReSyncs(req'[t]) /\ ~req'[t].loose) => owner' \notin Hosts
      BY <2>5, <2>7 DEF QueueOwned
    <2> QED
      BY <2>8, <2>9, <2>10
  <1>8. CASE Step(s) = "claim"
    <2>1. /\ ClaimQueue(s) /\ host' = host /\ o.op = "claim" /\ o.pc = 4
      BY <1>0, <1>8, HandlerIs, AtAccount DEF Keeps
    <2>2. /\ owner' = IF owner = Deleted THEN Deleted ELSE o.host
          /\ "queue" \notin loose' =>
                 /\ "queue" \notin loose /\ Stored(o.host)
                 /\ \A r \in Others(s, "deleteMe", {"dropHost"}) : req[r].host # o.host
      BY <2>1 DEF ClaimQueue, Spoil
    <2>3. n = Onward(o) /\ \A t \in Slots \ {s} : req[t].op = "anon" /\ Step(t) = "resync" => req'[t].loose
      <3>1. req' = [r \in Slots |->
               IF r = s THEN Onward(req[s])
               ELSE IF r \in Others(s, "anon", {"resync"}) THEN [req[r] EXCEPT !.loose = TRUE]
               ELSE req[r]]
        BY <2>1 DEF ClaimQueue
      <3>2. n = Onward(o)
        BY <3>1
      <3>3. ASSUME NEW t \in Slots \ {s}, req[t].op = "anon", Step(t) = "resync"
            PROVE  req'[t].loose
        <4>1. req'[t] = [req[t] EXCEPT !.loose = TRUE]
          BY <3>1, <3>3 DEF Others
        <4>2. req[t] \in Request
          BY SlotTypes
        <4> QED
          BY <4>1, <4>2 DEF Request
      <3> QED
        BY <3>2, <3>3
    <2>4. Forgets(n) /\ n.op = "claim"
      <3>1. Len(Steps["claim"]) = 5
        BY DEF Steps
      <3> QED
        BY <1>0, <2>1, <2>3, <3>1 DEF Onward, Request, Forgets
    <2>5. ASSUME NEW t \in Slots, ReSyncs(req'[t]), ~req'[t].loose
          PROVE  FALSE
      <3>1. t # s
        BY <2>4, <2>5 DEF ReSyncs
      <3>2. ReSyncs(req[t])
        BY <1>0, <2>5, <3>1 DEF Moved, Alike, ReSyncs
      <3>3. Step(t) = "resync" /\ req[t].op = "anon"
        BY <3>2, SlotTypes, AtAccount DEF ReSyncs
      <3> QED
        BY <2>3, <2>5, <3>1, <3>3
    <2>6. ASSUME NEW t \in Slots, DropsHost(req'[t]), "queue" \notin loose'
          PROVE  owner' # req'[t].host
      <3>1. t # s
        BY <2>4, <2>6 DEF DropsHost
      <3>2. DropsHost(req[t]) /\ req'[t].host = req[t].host
        BY <1>0, <2>6, <3>1 DEF Moved, Alike, DropsHost
      <3>3. Step(t) = "dropHost" /\ req[t].op = "deleteMe" /\ req[t].host \in Hosts
        BY <3>2, SlotTypes, AtAccount DEF DropsHost, Known
      <3>4. t \in Others(s, "deleteMe", {"dropHost"})
        BY <3>1, <3>3 DEF Others
      <3> QED
        BY <1>0, <2>2, <2>6, <3>2, <3>3, <3>4
    <2>7. owner' \in Hosts /\ "queue" \notin loose' => Stored(owner)'
      BY <1>0, <2>1, <2>2 DEF Stored
    <2> QED
      BY <2>4, <2>5, <2>6, <2>7 DEF QueueOwned
  <1> QED
    BY <1>2, <1>3, <1>4, <1>5, <1>6, <1>7, <1>8

\* Every step keeps the queue owned.
LEMMA QueueNext ==
    ASSUME Typed, QueueOwned, [Next]_vars
    PROVE  QueueOwned'
  <1>1. CASE vars' = vars
    BY <1>1, QueueFrame DEF vars, mongo, redis, history, Stored
  <1>2. ASSUME NEW s \in Slots, Start(s)
        PROVE  QueueOwned'
    <2>1. /\ Begun(s) /\ host' = host /\ owner' = owner /\ anonKey' = anonKey /\ loose' = loose
      BY <1>2, StartBegins DEF Begun, Unchanged, redis, mongo
    <2>2. ~DropsHost(req'[s]) /\ ~ReSyncs(req'[s]) /\ ~Forgets(req[s])
      BY <2>1 DEF Begun, DropsHost, ReSyncs, Forgets
    <2>3. \A t \in Slots : t # s => req'[t] = req[t]
      BY <2>1 DEF Begun
    <2>4. Stored(owner) => Stored(owner)'
      BY <2>1 DEF Stored
    <2> QED
      BY <2>1, <2>2, <2>3, <2>4, QueueFrame
  <1>3. ASSUME NEW s \in Slots, CommandFails(s)
        PROVE  QueueOwned'
    <2>1. /\ Moved(s) /\ host' = host /\ owner' = owner /\ anonKey' = anonKey
          /\ loose' = loose \cup Spoilt(s)
      BY <1>3, FailMoves DEF CommandFails, Unchanged, redis, mongo, Spoil
    <2>2. Step(s) \in {"dropQueues", "forget"} => "queue" \in loose'
      BY <2>1 DEF Spoilt, At
    <2>3. Step(s) # "anonQueue" \/ req'[s] = Idle
      BY <1>3, FailMoves DEF AfterFailure, At, Ignored
    <2>4. ~ReSyncs(Idle)
      BY IdleProper DEF ReSyncs
    <2>5. Stored(owner) => Stored(owner)'
      BY <2>1 DEF Stored
    <2> QED
      BY <2>1, <2>2, <2>3, <2>4, <2>5, QueueMoves, QueueFrame
  <1>4. CASE Letters
    BY <1>4, LettersKeep, QueueFrame DEF redis, mongo, Stored
  <1>5. CASE KeyExpires
    <2>1. /\ req' = req /\ loose' = loose /\ owner' = owner /\ host' = host
          /\ anonKey' => anonKey
      BY <1>5 DEF KeyExpires, mongo
    <2> QED
      BY <2>1, QueueFrame DEF Stored
  <1>6. CASE Crash
    <2>1. /\ owner' = owner /\ host' = host /\ anonKey' = anonKey /\ loose \subseteq loose'
          /\ \A s \in Slots : At(s, "forget") => "queue" \in loose'
      BY <1>6 DEF Crash, redis, mongo
    <2>2. \A s \in Slots : ~DropsHost(req'[s]) /\ ~ReSyncs(req'[s])
      BY <1>6, CrashTyped, IdleProper DEF DropsHost, ReSyncs
    <2>3. \A s \in Slots : Forgets(req[s]) => At(s, "forget")
      BY SlotTypes, AtAccount DEF Forgets, At
    <2> QED
      BY <2>1, <2>2, <2>3, QueueFrame DEF Stored
  <1>7. ASSUME NEW e \in Entries, GetRecoveryToken(e) \/ EntryChanges(e)
        PROVE  QueueOwned'
    <2>1. /\ req' = req /\ loose \subseteq loose' /\ owner' = owner /\ host' = host
          /\ anonKey' = anonKey
      BY <1>7, EntryTyped
    <2> QED
      BY <2>1, QueueFrame DEF Stored
  <1>8. ASSUME NEW k \in Contacts, LockLapses(k)
        PROVE  QueueOwned'
    <2>1. /\ loose' = loose /\ owner' = owner /\ host' = host /\ anonKey' = anonKey
          /\ \A s \in Slots : Alike(req[s], req'[s])
      BY <1>8, LapseTyped DEF mongo
    <2> QED
      BY <2>1, QueueFrame DEF Stored, Alike, DropsHost, ReSyncs, Forgets
  <1>9. ASSUME NEW k \in SUBSET Contacts, AddEntry(k)
        PROVE  QueueOwned'
    <2>1. /\ loose \subseteq loose' /\ owner' = owner /\ host' = host /\ anonKey' = anonKey
          /\ \A s \in Slots : Alike(req[s], req'[s])
      BY <1>9, AddTyped DEF redis
    <2> QED
      BY <2>1, QueueFrame DEF Stored, Alike, DropsHost, ReSyncs, Forgets
  <1> QED
    BY <1>1, <1>2, <1>3, <1>4, <1>5, <1>6, <1>7, <1>8, <1>9, HandlerQueue DEF Next, Environment

-----------------------------------------------------------------------------
(* The slug *)

\* A request is about to set the slug after it has asked for it.
LEMMA SlugMoves ==
    ASSUME Typed, NEW s \in Slots, Moved(s)
    PROVE  \A t \in Slots : SetsSlug(req'[t]) =>
               /\ req'[t].host = req[t].host
               /\ IF t = s THEN Step(s) = "slugFree" ELSE SetsSlug(req[t])
  <1> DEFINE o == req[s]
             n == req'[s]
  <1>0. Proper(o) /\ Step(s) = Command(o) /\ o \in Request
    BY SlotTypes
  <1>1. \A t \in Slots : t # s => /\ req'[t].op = req[t].op /\ req'[t].pc = req[t].pc
                                  /\ req'[t].host = req[t].host
    BY DEF Moved, Alike
  <1>2. n = Idle \/ GoesOn(o, n)
    BY DEF Moved, After
  <1>3. SetsSlug(n) => n.host = o.host /\ o.op = "slug" /\ o.pc = 1
    BY <1>0, <1>2, IdleProper DEF SetsSlug, GoesOn, Advances, Request
  <1>4. SetsSlug(n) => n.host = o.host /\ Step(s) = "slugFree"
    BY <1>0, <1>3, AtAccount
  <1> QED
    BY <1>1, <1>4 DEF SetsSlug

\* What does not set a slug keeps it apart.
LEMMA SlugFrame ==
    ASSUME SlugApart, \A h \in Hosts : HasSlug(h)' => HasSlug(h), loose \subseteq loose',
           \A s \in Slots : SetsSlug(req'[s]) =>
               \/ SetsSlug(req[s]) /\ req'[s].host = req[s].host
               \/ \A h \in Hosts : HasSlug(h) => h = req'[s].host
    PROVE  SlugApart'
  BY DEF SlugApart

\* Every step keeps the slug apart.
LEMMA SlugNext ==
    ASSUME Typed, SlugApart, [Next]_vars
    PROVE  SlugApart'
  <1>1. CASE vars' = vars
    BY <1>1, SlugFrame DEF vars, mongo, history, HasSlug, Stored
  <1>2. ASSUME NEW s \in Slots, Start(s)
        PROVE  SlugApart'
    <2>1. /\ Begun(s) /\ host' = host /\ loose' = loose
      BY <1>2, StartBegins DEF Begun, Unchanged, mongo
    <2>2. ~SetsSlug(req'[s])
      BY <2>1 DEF Begun, SetsSlug
    <2>3. \A t \in Slots : t # s => req'[t] = req[t]
      BY <2>1 DEF Begun
    <2>4. \A h \in Hosts : HasSlug(h)' => HasSlug(h)
      BY <2>1 DEF HasSlug, Stored
    <2> QED
      BY <2>1, <2>2, <2>3, <2>4, SlugFrame
  <1>3. ASSUME NEW s \in Slots, CommandFails(s)
        PROVE  SlugApart'
    <2>1. /\ Moved(s) /\ host' = host /\ loose \subseteq loose'
      BY <1>3, FailMoves DEF CommandFails, Unchanged, mongo, Spoil
    <2>2. Step(s) = "slugFree" => req'[s] = Idle
      BY <1>3, FailMoves DEF AfterFailure, At, Ignored
    <2>3. ~SetsSlug(Idle)
      BY IdleProper DEF SetsSlug
    <2>4. \A h \in Hosts : HasSlug(h)' => HasSlug(h)
      BY <2>1 DEF HasSlug, Stored
    <2> QED
      BY <2>1, <2>2, <2>3, <2>4, SlugMoves, SlugFrame
  <1>4. CASE Letters
    BY <1>4, LettersKeep, SlugFrame DEF mongo, HasSlug, Stored
  <1>5. CASE KeyExpires
    <2>1. req' = req /\ loose' = loose /\ host' = host
      BY <1>5 DEF KeyExpires, mongo
    <2> QED
      BY <2>1, SlugFrame DEF HasSlug, Stored
  <1>6. CASE Crash
    <2>1. host' = host /\ loose \subseteq loose'
      BY <1>6 DEF Crash, mongo
    <2>2. \A s \in Slots : ~SetsSlug(req'[s])
      BY <1>6, CrashTyped, IdleProper DEF SetsSlug
    <2>3. \A h \in Hosts : HasSlug(h)' => HasSlug(h)
      BY <2>1 DEF HasSlug, Stored
    <2> QED
      BY <2>1, <2>2, <2>3, SlugFrame
  <1>7. ASSUME NEW e \in Entries, GetRecoveryToken(e) \/ EntryChanges(e)
        PROVE  SlugApart'
    <2>1. req' = req /\ loose \subseteq loose' /\ host' = host
      BY <1>7, EntryTyped
    <2> QED
      BY <2>1, SlugFrame DEF HasSlug, Stored
  <1>8. ASSUME NEW k \in Contacts, LockLapses(k)
        PROVE  SlugApart'
    <2>1. loose' = loose /\ host' = host /\ \A s \in Slots : Alike(req[s], req'[s])
      BY <1>8, LapseTyped DEF mongo
    <2> QED
      BY <2>1, SlugFrame DEF HasSlug, Stored, Alike, SetsSlug
  <1>10. ASSUME NEW k \in SUBSET Contacts, AddEntry(k)
        PROVE  SlugApart'
    <2>1. loose \subseteq loose' /\ host' = host /\ \A s \in Slots : Alike(req[s], req'[s])
      BY <1>10, AddTyped
    <2> QED
      BY <2>1, SlugFrame DEF HasSlug, Stored, Alike, SetsSlug
  <1>9. ASSUME NEW s \in Slots, Handler(s)
        PROVE  SlugApart'
    <2> DEFINE o == req[s]
    <2>0. /\ Proper(o) /\ Known(o) /\ o \in Request /\ Step(s) = Command(o) /\ Keeps(s)
          /\ Moved(s) /\ loose \subseteq loose'
      BY <1>9, SlotTypes, HandlerKeeps, HandlerMoves DEF Keeps
    <2>1. Step(s) # "setSlug" => \A h \in Hosts : HasSlug(h)' => HasSlug(h)
      BY <1>9, <2>0, HostMoves DEF HasSlug
    <2>2. CASE Step(s) \notin {"slugFree", "setSlug"}
      BY <2>0, <2>1, <2>2, SlugMoves, SlugFrame
    <2>3. CASE Step(s) = "slugFree"
      <3>1. SlugFree(s)
        BY <1>9, <2>3, HandlerIs
      <3>2. CASE \E h \in StoredHosts \ {o.host} : host[h].slug
        <4>1. req'[s] = Idle /\ ~SetsSlug(Idle)
          BY <3>1, <3>2, FinishMoves, IdleProper DEF SlugFree, SetsSlug
        <4> QED
          BY <2>0, <2>1, <2>3, <4>1, SlugMoves, SlugFrame
      <3>3. CASE ~\E h \in StoredHosts \ {o.host} : host[h].slug
        <4>1. \A h \in Hosts : HasSlug(h) => h = o.host
          BY <3>3 DEF HasSlug, StoredHosts
        <4> QED
          BY <2>0, <2>1, <2>3, <4>1, SlugMoves, SlugFrame
      <3> QED
        BY <3>2, <3>3
    <2>4. CASE Step(s) = "setSlug"
      <3>1. SetSlug(s) /\ SetsSlug(o)
        BY <1>9, <2>0, <2>4, HandlerIs, AtAccount DEF SetsSlug
      <3>2. loose' = loose \cup {req[r].host : r \in Others(s, "slug", {"setSlug"})}
        BY <3>1 DEF SetSlug, Spoil
      <3>3. ASSUME NEW t \in Slots, SetsSlug(req'[t])
            PROVE  req'[t].host \in loose'
        <4>1. t # s /\ SetsSlug(req[t]) /\ req'[t].host = req[t].host
          BY <2>0, <2>4, <3>3, SlugMoves
        <4>2. t \in Others(s, "slug", {"setSlug"})
          BY <4>1, SlotTypes, AtAccount DEF Others, SetsSlug
        <4> QED
          BY <3>2, <4>1, <4>2
      <3>4. \A h \in Hosts : HasSlug(h)' => h = o.host \/ HasSlug(h)
        BY <1>9, <2>0, HostMoves DEF HasSlug
      <3>5. o.host \notin loose => \A h \in Hosts : HasSlug(h) => h = o.host
        BY <3>1 DEF SlugApart
      <3>6. \A g, h \in Hosts : HasSlug(g)' /\ HasSlug(h)' => g = h
        <4> TAKE g, h \in Hosts
        <4> HAVE HasSlug(g)' /\ HasSlug(h)'
        <4>1. CASE o.host \notin loose
          BY <3>4, <3>5, <4>1
        <4>2. CASE o.host \in loose
          <5>1. g # o.host /\ h # o.host
            BY <2>0, <4>2 DEF HasSlug
          <5> QED
            BY <3>4, <5>1 DEF SlugApart
        <4> QED
          BY <4>1, <4>2
      <3> QED
        BY <3>3, <3>6 DEF SlugApart
    <2> QED
      BY <2>2, <2>3, <2>4
  <1> QED
    BY <1>1, <1>2, <1>3, <1>4, <1>5, <1>6, <1>7, <1>8, <1>9, <1>10
       DEF Next, Environment

-----------------------------------------------------------------------------
(* Recovery letters *)

\* A request has a recovery letter to write after it has marked the entry.
LEMMA MailMoves ==
    ASSUME Typed, NEW s \in Slots, Moved(s)
    PROVE  /\ \A t \in Slots : Mails(req'[t]) =>
                 /\ req'[t].entry = req[t].entry
                 /\ Mails(req[t]) \/ (t = s /\ Step(s) = "mark")
           /\ \A t \in Slots \ {s} : Mails(req[t]) => Mails(req'[t]) /\ req'[t].entry = req[t].entry
  <1> DEFINE o == req[s]
             n == req'[s]
  <1>0. Proper(o) /\ Known(o) /\ Step(s) = Command(o) /\ o \in Request
    BY SlotTypes
  <1>1. \A t \in Slots : t # s => /\ Command(req'[t]) = Command(req[t])
                                  /\ req'[t].entry = req[t].entry
    BY DEF Moved, Alike, Command
  <1>2. n = Idle \/ (GoesOn(o, n) /\ Proper(n))
    BY DEF Moved, After
  <1>3. Mails(n) => n.entry = o.entry /\ (Mails(o) \/ Step(s) = "mark")
    <2> HAVE Mails(n)
    <2>1. GoesOn(o, n) /\ Proper(n)
      BY <1>2, IdleProper DEF Mails
    <2>2. (n.op = "join" /\ n.pc \in 8..10) \/ (n.op = "update" /\ n.pc \in 4..6)
      BY <2>1, AtGuest DEF Mails
    <2>3. \/ o.op = "join" /\ o.pc \in 7..9
          \/ o.op = "update" /\ o.pc \in 3..5
      BY <1>0, <2>1, <2>2 DEF GoesOn, Advances, Request
    <2>4. n.entry = o.entry
      BY <2>1, <2>3 DEF GoesOn
    <2>5. Mails(o) \/ Step(s) = "mark"
      <3>1. CASE o.op = "join" /\ o.pc \in 7..9
        <4>1. o.pc = 7 \/ o.pc = 8 \/ o.pc = 9
          BY <3>1
        <4> QED
          BY <1>0, <3>1, <4>1, AtGuest DEF Mails
      <3>2. CASE o.op = "update" /\ o.pc \in 3..5
        <4>1. o.pc = 3 \/ o.pc = 4 \/ o.pc = 5
          BY <3>2
        <4> QED
          BY <1>0, <3>2, <4>1, AtGuest DEF Mails
      <3> QED
        BY <2>3, <3>1, <3>2
    <2> QED
      BY <2>4, <2>5
  <1> QED
    BY <1>1, <1>3 DEF Mails

\* What neither marks an entry nor writes a recovery letter.
LEMMA RecoveryFrame ==
    ASSUME RecoveryMarked, marked \subseteq Entries, marked' = marked, unmailed \subseteq unmailed',
           \A e \in Entries, i \in Nat : IsRecovery(i, e)' <=> IsRecovery(i, e),
           \A s \in Slots : Mails(req'[s]) => Mails(req[s]) /\ req'[s].entry = req[s].entry,
           \A s \in Slots : Mails(req[s]) =>
               \/ Mails(req'[s]) /\ req'[s].entry = req[s].entry
               \/ req[s].entry \in unmailed'
    PROVE  RecoveryMarked'
  <1>1. \A s \in Slots : Mails(req'[s]) => req'[s].entry \in marked'
    BY DEF RecoveryMarked
  <1>2. \A s, t \in Slots : Mails(req'[s]) /\ Mails(req'[t]) /\ req'[s].entry = req'[t].entry => s = t
    BY DEF RecoveryMarked
  <1>3. \A e \in Entries, i \in Nat : IsRecovery(i, e)' =>
           e \in marked' /\ \A s \in Slots : Mails(req'[s]) => req'[s].entry # e
    BY DEF RecoveryMarked
  <1>4. \A e \in Entries, i, j \in Nat : IsRecovery(i, e)' /\ IsRecovery(j, e)' => i = j
    BY DEF RecoveryMarked
  <1>5. \A e \in marked' : \/ \E i \in Nat : IsRecovery(i, e)'
                           \/ e \in unmailed'
                           \/ \E s \in Slots : Mails(req'[s]) /\ req'[s].entry = e
    BY DEF RecoveryMarked
  <1> QED
    BY <1>1, <1>2, <1>3, <1>4, <1>5 DEF RecoveryMarked

\* Letters of the same kinds, for the same people.
LEMMA SameLetters ==
    ASSUME DOMAIN letters' = DOMAIN letters,
           \A i \in DOMAIN letters : /\ letters'[i].kind = letters[i].kind
                                     /\ letters'[i].of = letters[i].of
    PROVE  \A e \in Entries, i \in Nat : IsRecovery(i, e)' <=> IsRecovery(i, e)
  BY DEF IsRecovery

\* Commands keep the recovery letters apart.
LEMMA HandlerRecovery ==
    ASSUME Typed, RecoveryMarked, NEW s \in Slots, Handler(s)
    PROVE  RecoveryMarked'
  <1> DEFINE o == req[s]
             n == req'[s]
  <1>0. /\ Proper(o) /\ Known(o) /\ o \in Request /\ Step(s) = Command(o) /\ Keeps(s)
        /\ Moved(s) /\ marked \subseteq Entries /\ unmailed' = unmailed
    BY SlotTypes, HandlerKeeps, HandlerMoves DEF Typed, StoreTypes, Keeps
  <1>1. CASE Step(s) \in {"mailLink", "greet", "farewell", "farewellAgain"}
    <2>1. \/ letters' = letters
          \/ \E kind \in {"link", "welcome", "farewell"},
                of \in Links \cup Hosts \cup Entries : Post(kind, of)
      <3>1. CASE Step(s) = "mailLink"
        <4>1. MailLink(s) /\ o.link \in Links
          BY <1>0, <3>1, HandlerIs, KnownAt
        <4> QED
          BY <4>1 DEF MailLink
      <3>2. CASE Step(s) = "greet"
        <4>1. Greet(s) /\ o.host \in Hosts
          BY <1>0, <3>2, HandlerIs, AtSignIn DEF Known
        <4> QED
          BY <4>1 DEF Greet, mail
      <3>3. CASE Step(s) \in {"farewell", "farewellAgain"}
        <4>1. Farewell(s) /\ o.host \in Hosts
          BY <1>0, <3>3, HandlerIs, AtAccount DEF Known
        <4> QED
          BY <4>1 DEF Farewell, mail
      <3> QED
        BY <1>1, <3>1, <3>2, <3>3
    <2>2. \A e \in Entries, i \in Nat : IsRecovery(i, e)' <=> IsRecovery(i, e)
      <3>1. CASE letters' = letters
        BY <3>1 DEF IsRecovery
      <3>2. ASSUME NEW kind \in {"link", "welcome", "farewell"},
                   NEW of \in Links \cup Hosts \cup Entries, Post(kind, of)
            PROVE  \A e \in Entries, i \in Nat : IsRecovery(i, e)' <=> IsRecovery(i, e)
        <4>1. /\ DOMAIN letters = 1..Len(letters) /\ Len(letters) \in Nat
              /\ DOMAIN letters' = 1..(Len(letters) + 1)
              /\ letters'[Len(letters) + 1].kind # "recovery"
              /\ \A i \in DOMAIN letters : letters'[i] = letters[i]
          BY <3>2, PostTypes DEF Typed
        <4>2. \A i \in DOMAIN letters' : i \in DOMAIN letters \/ i = Len(letters) + 1
          BY <4>1
        <4>3. \A i \in DOMAIN letters : i \in DOMAIN letters'
          BY <4>1
        <4> QED
          BY <4>1, <4>2, <4>3 DEF IsRecovery
      <3> QED
        BY <2>1, <3>1, <3>2
    <2>3. ~Mails(o) /\ Step(s) # "mark"
      BY <1>0, <1>1 DEF Mails
    <2> QED
      BY <1>0, <1>1, <2>2, <2>3, MailMoves, RecoveryFrame DEF Keeps
  <1>2. CASE Step(s) \notin {"mailLink", "greet", "farewell", "farewellAgain", "mark", "token",
                            "mailToken", "unmark"}
    <2>1. ~Mails(o) /\ letters' = letters /\ marked' = marked
      BY <1>0, <1>2 DEF Mails, Keeps
    <2> QED
      BY <1>0, <1>2, <2>1, MailMoves, RecoveryFrame, SameLetters
  <1>3. CASE Step(s) = "token"
    <2>1. letters' = letters /\ marked' = marked /\ GenerateToken(s) /\ Continue(s)
      BY <1>0, <1>3, HandlerIs DEF Keeps, GenerateToken
    <2>2. o.entry = n.entry /\ Mails(n)
      <3>1. (o.op = "join" /\ o.pc = 8) \/ (o.op = "update" /\ o.pc = 4)
        BY <1>0, <1>3, AtGuest
      <3>2. Len(Steps["join"]) = 10 /\ Len(Steps["update"]) = 6
        BY DEF Steps, JoinSteps
      <3>3. n = Onward(o)
        BY <2>1 DEF Continue, Become, Typed, RequestTypes
      <3>0. o.pc # Len(Steps[o.op])
        <4>1. CASE o.op = "join" /\ o.pc = 8
          BY <3>2, <4>1
        <4>2. CASE o.op = "update" /\ o.pc = 4
          BY <3>2, <4>2
        <4> QED
          BY <3>1, <4>1, <4>2
      <3>4. n = [o EXCEPT !.pc = o.pc + 1]
        BY <3>0, <3>3 DEF Onward
      <3>5. n.entry = o.entry /\ n.op = o.op /\ n.pc = o.pc + 1
        BY <1>0, <3>4 DEF Request
      <3>6. Proper(n)
        BY <1>0, <3>1, <3>4, IdleProper DEF Moved, After
      <3> QED
        BY <3>1, <3>5, <3>6, AtGuest DEF Mails
    <2> QED
      BY <1>0, <1>3, <2>1, <2>2, MailMoves, RecoveryFrame, SameLetters
  <1>4. CASE Step(s) = "mark"
    <2>1. MarkRecovery(s) /\ letters' = letters /\ o.entry \in Entries /\ ~Mails(o)
      BY <1>0, <1>4, HandlerIs, KnownAt DEF Keeps, Mails
    <2>2. CASE o.entry \in marked
      <3>1. n = Idle /\ marked' = marked /\ ~Mails(Idle)
        BY <2>1, <2>2, FinishMoves, IdleProper DEF MarkRecovery, Mails
      <3> QED
        BY <1>0, <2>1, <3>1, MailMoves, RecoveryFrame, SameLetters
    <2>3. CASE o.entry \notin marked
      <3>1. marked' = marked \cup {o.entry} /\ Continue(s)
        BY <2>1, <2>3 DEF MarkRecovery
      <3>2. n.entry = o.entry /\ Mails(n)
        <4>1. (o.op = "join" /\ o.pc = 7) \/ (o.op = "update" /\ o.pc = 3)
          BY <1>0, <1>4, AtGuest
        <4>2. Len(Steps["join"]) = 10 /\ Len(Steps["update"]) = 6
          BY DEF Steps, JoinSteps
        <4>3. n = Onward(o)
          BY <3>1 DEF Continue, Become, Typed, RequestTypes
        <4>0. o.pc # Len(Steps[o.op])
          <5>1. CASE o.op = "join" /\ o.pc = 7
            BY <4>2, <5>1
          <5>2. CASE o.op = "update" /\ o.pc = 3
            BY <4>2, <5>2
          <5> QED
            BY <4>1, <5>1, <5>2
        <4>4. n = [o EXCEPT !.pc = o.pc + 1]
          BY <4>0, <4>3 DEF Onward
        <4>5. n.entry = o.entry /\ n.op = o.op /\ n.pc = o.pc + 1
          BY <1>0, <4>4 DEF Request
        <4>6. Proper(n)
          BY <1>0, <4>1, <4>4, IdleProper DEF Moved, After
        <4> QED
          BY <4>1, <4>5, <4>6, AtGuest DEF Mails
      <3>3. \A t \in Slots \ {s} : Mails(req'[t]) => Mails(req[t]) /\ req'[t].entry = req[t].entry
        BY <1>0, MailMoves
      <3>4. \A t \in Slots \ {s} : Mails(req[t]) => Mails(req'[t]) /\ req'[t].entry = req[t].entry
        BY <1>0, MailMoves
      <3>5. \A t \in Slots \ {s} : Mails(req[t]) => req[t].entry # o.entry
        BY <2>3 DEF RecoveryMarked
      <3>6. \A e \in Entries, i \in Nat : IsRecovery(i, e)' <=> IsRecovery(i, e)
        BY <2>1, SameLetters
      <3>7. \A e \in Entries, i \in Nat : IsRecovery(i, e) => e # o.entry
        BY <2>3 DEF RecoveryMarked
      <3>8. \A t \in Slots : Mails(req'[t]) => req'[t].entry \in marked'
        BY <3>1, <3>2, <3>3 DEF RecoveryMarked
      <3>9. \A t, r \in Slots : Mails(req'[t]) /\ Mails(req'[r]) /\ req'[t].entry = req'[r].entry
                                 => t = r
        BY <3>2, <3>3, <3>5 DEF RecoveryMarked
      <3>10. \A e \in Entries, i \in Nat : IsRecovery(i, e)' =>
               e \in marked' /\ \A t \in Slots : Mails(req'[t]) => req'[t].entry # e
        BY <3>1, <3>2, <3>3, <3>6, <3>7 DEF RecoveryMarked
      <3>11. \A e \in Entries, i, j \in Nat : IsRecovery(i, e)' /\ IsRecovery(j, e)' => i = j
        BY <3>6 DEF RecoveryMarked
      <3>12. \A e \in marked' : \/ \E i \in Nat : IsRecovery(i, e)'
                                \/ e \in unmailed'
                                \/ \E t \in Slots : Mails(req'[t]) /\ req'[t].entry = e
        <4> TAKE e \in marked'
        <4>1. CASE e = o.entry
          BY <3>2, <4>1
        <4>2. CASE e # o.entry
          <5>1. e \in marked /\ e \in Entries
            BY <1>0, <3>1, <4>2
          <5>2. CASE \E t \in Slots : Mails(req[t]) /\ req[t].entry = e
            BY <2>1, <3>4, <5>2
          <5> QED
            BY <1>0, <3>6, <5>1, <5>2 DEF RecoveryMarked
        <4> QED
          BY <4>1, <4>2
      <3> QED
        BY <3>8, <3>9, <3>10, <3>11, <3>12 DEF RecoveryMarked
    <2> QED
      BY <2>2, <2>3
  <1>5. CASE Step(s) = "mailToken"
    <2>1. /\ MailToken(s) /\ marked' = marked /\ o.entry \in Entries /\ Mails(o)
          /\ Post("recovery", o.entry) /\ n = Idle /\ ~Mails(Idle)
      BY <1>0, <1>5, HandlerIs, KnownAt, FinishMoves, IdleProper DEF Keeps, Mails, MailToken
    <2> DEFINE k == Len(letters) + 1
    <2>2. /\ DOMAIN letters = 1..Len(letters) /\ Len(letters) \in Nat
          /\ DOMAIN letters' = 1..k
          /\ letters'[k].kind = "recovery" /\ letters'[k].of = o.entry
          /\ \A i \in DOMAIN letters : letters'[i] = letters[i]
      BY <2>1, PostTypes DEF Typed
    <2>3. /\ k \in Nat /\ k \in DOMAIN letters' /\ k \notin DOMAIN letters
          /\ \A i \in DOMAIN letters' : i \in DOMAIN letters \/ i = k
          /\ \A i \in DOMAIN letters : i \in DOMAIN letters'
      BY <2>2
    <2> HIDE DEF k
    <2>4. \A e \in Entries, i \in Nat :
            IsRecovery(i, e)' <=> (IsRecovery(i, e) \/ (i = k /\ e = o.entry))
      BY <2>2, <2>3 DEF IsRecovery
    <2>5. \A t \in Slots \ {s} : Mails(req'[t]) => Mails(req[t]) /\ req'[t].entry = req[t].entry
      BY <1>0, MailMoves
    <2>6. \A t \in Slots \ {s} : Mails(req[t]) => Mails(req'[t]) /\ req'[t].entry = req[t].entry
      BY <1>0, MailMoves
    <2>7. \A t \in Slots : Mails(req'[t]) => t # s /\ Mails(req[t]) /\ req'[t].entry = req[t].entry
                                             /\ req[t].entry # o.entry
      BY <2>1, <2>5 DEF RecoveryMarked
    <2>8. \A i \in Nat : ~IsRecovery(i, o.entry)
      BY <2>1 DEF RecoveryMarked
    <2>9. \A t \in Slots : Mails(req'[t]) => req'[t].entry \in marked'
      BY <2>1, <2>7 DEF RecoveryMarked
    <2>10. \A t, r \in Slots : Mails(req'[t]) /\ Mails(req'[r]) /\ req'[t].entry = req'[r].entry
                               => t = r
      BY <2>7 DEF RecoveryMarked
    <2>11. \A e \in Entries, i \in Nat : IsRecovery(i, e)' =>
             e \in marked' /\ \A t \in Slots : Mails(req'[t]) => req'[t].entry # e
      BY <2>1, <2>4, <2>7 DEF RecoveryMarked
    <2>12. \A e \in Entries, i, j \in Nat : IsRecovery(i, e)' /\ IsRecovery(j, e)' => i = j
      BY <2>4, <2>8 DEF RecoveryMarked
    <2>13. \A e \in marked' : \/ \E i \in Nat : IsRecovery(i, e)'
                              \/ e \in unmailed'
                              \/ \E t \in Slots : Mails(req'[t]) /\ req'[t].entry = e
      <3> TAKE e \in marked'
      <3>1. e \in Entries /\ e \in marked
        BY <1>0, <2>1
      <3>2. CASE e = o.entry
        BY <2>3, <2>4, <3>1, <3>2
      <3>3. CASE e # o.entry
        BY <1>0, <2>4, <2>6, <3>1, <3>3 DEF RecoveryMarked
      <3> QED
        BY <3>2, <3>3
    <2> QED
      BY <2>9, <2>10, <2>11, <2>12, <2>13 DEF RecoveryMarked
  <1>6. CASE Step(s) = "unmark"
    <2>1. /\ UnmarkRecovery(s) /\ letters' = letters /\ Mails(o)
          /\ marked' = marked \ {o.entry} /\ Continue(s)
      BY <1>0, <1>6, HandlerIs DEF Keeps, Mails, UnmarkRecovery
    <2>2. n = Idle /\ ~Mails(Idle)
      <3>1. (o.op = "join" /\ o.pc = 10) \/ (o.op = "update" /\ o.pc = 6)
        BY <1>0, <1>6, AtGuest
      <3>2. Len(Steps["join"]) = 10 /\ Len(Steps["update"]) = 6
        BY DEF Steps, JoinSteps
      <3>3. n = Onward(o)
        BY <2>1 DEF Continue, Become, Typed, RequestTypes
      <3> QED
        BY <3>1, <3>2, <3>3, IdleProper DEF Onward, Mails
    <2>3. \A t \in Slots \ {s} : Mails(req'[t]) => Mails(req[t]) /\ req'[t].entry = req[t].entry
      BY <1>0, MailMoves
    <2>4. \A t \in Slots \ {s} : Mails(req[t]) => Mails(req'[t]) /\ req'[t].entry = req[t].entry
      BY <1>0, MailMoves
    <2>5. \A t \in Slots : Mails(req'[t]) => t # s /\ Mails(req[t]) /\ req'[t].entry = req[t].entry
                                             /\ req[t].entry # o.entry
      BY <2>1, <2>2, <2>3 DEF RecoveryMarked
    <2>6. \A e \in Entries, i \in Nat : IsRecovery(i, e)' <=> IsRecovery(i, e)
      BY <2>1, SameLetters
    <2>7. \A e \in Entries, i \in Nat : IsRecovery(i, e) => e # o.entry
      BY <2>1 DEF RecoveryMarked
    <2>8. \A t \in Slots : Mails(req'[t]) => req'[t].entry \in marked'
      BY <2>1, <2>5 DEF RecoveryMarked
    <2>9. \A t, r \in Slots : Mails(req'[t]) /\ Mails(req'[r]) /\ req'[t].entry = req'[r].entry
                               => t = r
      BY <2>5 DEF RecoveryMarked
    <2>10. \A e \in Entries, i \in Nat : IsRecovery(i, e)' =>
             e \in marked' /\ \A t \in Slots : Mails(req'[t]) => req'[t].entry # e
      BY <2>1, <2>5, <2>6, <2>7 DEF RecoveryMarked
    <2>11. \A e \in Entries, i, j \in Nat : IsRecovery(i, e)' /\ IsRecovery(j, e)' => i = j
      BY <2>6 DEF RecoveryMarked
    <2>12. \A e \in marked' : \/ \E i \in Nat : IsRecovery(i, e)'
                              \/ e \in unmailed'
                              \/ \E t \in Slots : Mails(req'[t]) /\ req'[t].entry = e
      <3> TAKE e \in marked'
      <3>1. e \in Entries /\ e \in marked /\ e # o.entry
        BY <1>0, <2>1
      <3> QED
        BY <1>0, <2>4, <2>6, <3>1 DEF RecoveryMarked
    <2> QED
      BY <2>8, <2>9, <2>10, <2>11, <2>12 DEF RecoveryMarked
  <1> QED
    BY <1>1, <1>2, <1>3, <1>4, <1>5, <1>6

\* Every step keeps the recovery letters apart.
LEMMA RecoveryNext ==
    ASSUME Typed, RecoveryMarked, [Next]_vars
    PROVE  RecoveryMarked'
  <1>0. marked \subseteq Entries
    BY DEF Typed, StoreTypes
  <1>1. CASE vars' = vars
    BY <1>0, <1>1, RecoveryFrame DEF vars, mongo, mail, history, IsRecovery
  <1>2. ASSUME NEW s \in Slots, Start(s)
        PROVE  RecoveryMarked'
    <2>1. /\ Begun(s) /\ marked' = marked /\ letters' = letters /\ unmailed' = unmailed
      BY <1>2, StartBegins DEF Begun, Unchanged, mongo, mail
    <2>2. ~Mails(req'[s]) /\ ~Mails(req[s])
      BY <2>1, SlotTypes, AtGuest DEF Begun, Mails
    <2>3. \A t \in Slots : t # s => req'[t] = req[t]
      BY <2>1 DEF Begun
    <2> QED
      BY <1>0, <2>1, <2>2, <2>3, SameLetters, RecoveryFrame
  <1>3. ASSUME NEW s \in Slots, CommandFails(s)
        PROVE  RecoveryMarked'
    <2> DEFINE o == req[s]
               n == req'[s]
    <2>1. /\ Moved(s) /\ marked' = marked /\ letters' = letters
          /\ unmailed' = unmailed \cup (IF At(s, "unmark") THEN {o.entry} ELSE {})
          /\ Step(s) \notin Local
      BY <1>3, FailMoves DEF CommandFails, Unchanged, mongo, mail
    <2>2. Step(s) = "mark" => n = Idle
      BY <1>3, FailMoves DEF AfterFailure, At, Ignored
    <2>3. ~Mails(Idle)
      BY IdleProper DEF Mails
    <2>4. Mails(o) => (Mails(n) /\ n.entry = o.entry) \/ o.entry \in unmailed'
      <3>1. CASE Step(s) = "unmark"
        BY <2>1, <3>1 DEF At
      <3>2. CASE Step(s) = "token"
        <4>1. /\ Proper(o) /\ o \in Request
              /\ (o.op = "join" /\ o.pc = 8) \/ (o.op = "update" /\ o.pc = 4)
          BY <3>2, SlotTypes, AtGuest
        <4>2. n = JumpedTo(o, "unmark")
          BY <1>3, <3>2, FailMoves DEF AfterFailure, At, Ignored
        <4>3. n = [o EXCEPT !.pc = IF o.op = "join" THEN 10 ELSE 6]
          BY <4>1, <4>2, Jumps DEF JumpedTo
        <4>4. n.entry = o.entry /\ n.op = o.op /\ n.pc = IF o.op = "join" THEN 10 ELSE 6
          BY <4>1, <4>3 DEF Request
        <4>5. Proper(n)
          BY <2>1, IdleProper DEF Moved, After
        <4> QED
          BY <4>1, <4>4, <4>5, AtGuest DEF Mails
      <3> QED
        BY <2>1, <3>1, <3>2, SlotTypes DEF Mails, Local
    <2>5. \A t \in Slots : Mails(req'[t]) => Mails(req[t]) /\ req'[t].entry = req[t].entry
      BY <2>1, <2>2, <2>3, MailMoves
    <2>6. \A t \in Slots : Mails(req[t]) =>
            (Mails(req'[t]) /\ req'[t].entry = req[t].entry) \/ req[t].entry \in unmailed'
      BY <2>1, <2>4, MailMoves
    <2> QED
      BY <1>0, <2>1, <2>5, <2>6, SameLetters, RecoveryFrame
  <1>4. CASE Letters
    <2>1. marked' = marked /\ req' = req /\ unmailed' = unmailed
      BY <1>4, LettersKeep DEF mongo
    <2> QED
      BY <1>0, <1>4, <2>1, LettersKeep, SameLetters, RecoveryFrame
  <1>5. CASE KeyExpires
    <2>1. req' = req /\ unmailed' = unmailed /\ marked' = marked /\ letters' = letters
      BY <1>5 DEF KeyExpires, mongo, mail
    <2> QED
      BY <1>0, <2>1, SameLetters, RecoveryFrame
  <1>6. CASE Crash
    <2>1. /\ marked' = marked
          /\ unmailed' = unmailed \cup {req[s].entry : s \in {r \in Slots :
                               Step(r) \in {"token", "mailToken", "unmark"}}}
      BY <1>6 DEF Crash, mongo
    <2>2. \A s \in Slots : ~Mails(req'[s])
      BY <1>6, CrashTyped, IdleProper DEF Mails
    <2>3. \A s \in Slots : Mails(req[s]) => req[s].entry \in unmailed'
      BY <2>1, SlotTypes DEF Mails
    <2> QED
      BY <1>0, <1>6, <2>1, <2>2, <2>3, CrashTyped, SameLetters, RecoveryFrame
  <1>7. ASSUME NEW e \in Entries, GetRecoveryToken(e) \/ EntryChanges(e)
        PROVE  RecoveryMarked'
    <2>1. req' = req /\ unmailed' = unmailed /\ marked' = marked /\ letters' = letters
      BY <1>7, EntryTyped
    <2> QED
      BY <1>0, <2>1, SameLetters, RecoveryFrame
  <1>8. ASSUME NEW k \in Contacts, LockLapses(k)
        PROVE  RecoveryMarked'
    <2>1. /\ unmailed' = unmailed /\ marked' = marked /\ letters' = letters
          /\ \A s \in Slots : Alike(req[s], req'[s])
      BY <1>8, LapseTyped DEF mongo, mail
    <2>2. \A s \in Slots : (Mails(req'[s]) <=> Mails(req[s])) /\ req'[s].entry = req[s].entry
      BY <2>1 DEF Alike, Mails, Command
    <2> QED
      BY <1>0, <2>1, <2>2, SameLetters, RecoveryFrame
  <1>9. ASSUME NEW k \in SUBSET Contacts, AddEntry(k)
        PROVE  RecoveryMarked'
    <2>1. /\ unmailed' = unmailed /\ marked' = marked /\ letters' = letters
          /\ \A s \in Slots : Alike(req[s], req'[s])
      BY <1>9, AddTyped DEF mail
    <2>2. \A s \in Slots : (Mails(req'[s]) <=> Mails(req[s])) /\ req'[s].entry = req[s].entry
      BY <2>1 DEF Alike, Mails, Command
    <2> QED
      BY <1>0, <2>1, <2>2, SameLetters, RecoveryFrame
  <1> QED
    BY <1>1, <1>2, <1>3, <1>4, <1>5, <1>6, <1>7, <1>8, <1>9, HandlerRecovery DEF Next, Environment

-----------------------------------------------------------------------------
(* Guests in the queue *)

\* A join has its lock after the command that takes it, and has passed a check
\* after the command that makes it.
LEMMA JoinMoves ==
    ASSUME Typed, NEW s \in Slots, Moved(s)
    PROVE  /\ \A t \in Slots : Joining(req'[t]) =>
                 /\ LockKey(req'[t]) = LockKey(req[t])
                 /\ Joining(req[t]) \/ (t = s /\ Step(s) = "lock")
           /\ \A t \in Slots, k \in Contacts : Passed(req'[t], k) =>
                 /\ req'[t].contacts = req[t].contacts
                 /\ Passed(req[t], k) \/ (t = s /\ Step(s) \in {"dupEmail", "dupPhone"})
  <1> DEFINE o == req[s]
             n == req'[s]
  <1>0. Proper(o) /\ Step(s) = Command(o) /\ o \in Request
    BY SlotTypes
  <1>1. \A t \in Slots : t # s => /\ req'[t].op = req[t].op /\ req'[t].pc = req[t].pc
                                  /\ req'[t].contacts = req[t].contacts
                                  /\ req[t].loose => req'[t].loose
    BY DEF Moved, Alike
  <1>2. n = Idle \/ GoesOn(o, n)
    BY DEF Moved, After
  <1>3. Idle.op # "join"
    BY IdleProper
  <1>4. ASSUME Joining(n)
        PROVE  LockKey(n) = LockKey(o) /\ (Joining(o) \/ Step(s) = "lock")
    <2>1. /\ o.op = "join" /\ n.contacts = o.contacts /\ ~o.loose /\ o.pc \in 1..6
      BY <1>0, <1>2, <1>3, <1>4 DEF Joining, GoesOn, Advances, Request
    <2>2. LockKey(n) = LockKey(o)
      BY <2>1 DEF LockKey
    <2>3. CASE o.pc = 1
      BY <1>0, <2>1, <2>2, <2>3, AtGuest
    <2>4. CASE o.pc # 1
      BY <1>4, <2>1, <2>2, <2>4 DEF Joining
    <2> QED
      BY <2>3, <2>4
  <1>5. ASSUME NEW k \in Contacts, Passed(n, k)
        PROVE  n.contacts = o.contacts /\ Step(s) \in {"dupEmail", "dupPhone"}
    <2>1. o.op = "join" /\ n.contacts = o.contacts /\ o.pc \in 2..3
      BY <1>0, <1>2, <1>3, <1>5 DEF Passed, GoesOn, Advances, Request
    <2>2. o.pc = 2 \/ o.pc = 3
      BY <2>1
    <2> QED
      BY <1>0, <2>1, <2>2, AtGuest
  <1>6. ASSUME NEW t \in Slots \ {s}
        PROVE  /\ Joining(req'[t]) => Joining(req[t]) /\ LockKey(req'[t]) = LockKey(req[t])
               /\ \A k \in Contacts : Passed(req'[t], k) =>
                     Passed(req[t], k) /\ req'[t].contacts = req[t].contacts
    BY <1>1 DEF Joining, Passed, LockKey
  <1> QED
    BY <1>4, <1>5, <1>6

\* What neither takes a lock nor lets a guest in.
LEMMA GuestsFrame ==
    ASSUME GuestsApart,
           \A e \in Entries, k \in Contacts : Holds(e, k)' => Holds(e, k),
           \A s \in Slots : Joining(req'[s]) =>
               /\ Joining(req[s]) /\ LockKey(req'[s]) = LockKey(req[s])
               /\ lock'[LockKey(req[s])] = lock[LockKey(req[s])],
           \A s \in Slots, k \in Contacts : Passed(req'[s], k) =>
               Passed(req[s], k) \/ \A e \in Entries : ~Holds(e, k)
    PROVE  GuestsApart'
  <1>1. \A s \in Slots : Joining(req'[s]) => lock'[LockKey(req'[s])] = s
    BY DEF GuestsApart
  <1>2. \A s \in Slots, k \in Contacts : Passed(req'[s], k) => \A e \in Entries : ~Holds(e, k)'
    BY DEF GuestsApart
  <1>3. \A k \in Contacts : \A e, f \in Entries : Holds(e, k)' /\ Holds(f, k)' => e = f
    BY DEF GuestsApart
  <1> QED
    BY <1>1, <1>2, <1>3 DEF GuestsApart

\* A guest in the queue who has a contact had it, or was let in with it.
LEMMA HoldsSame ==
    ASSUME entry' = entry, loose \subseteq loose'
    PROVE  \A e \in Entries, k \in Contacts : Holds(e, k)' => Holds(e, k)
  BY DEF Holds, InQueue

\* A guest is let in.
LEMMA InsertGuests ==
    ASSUME Typed, GuestsApart, NEW s \in Slots, InsertEntry(s)
    PROVE  GuestsApart'
  <1> DEFINE o == req[s]
             n == req'[s]
  <1>0. /\ Proper(o) /\ Known(o) /\ o \in Request /\ Step(s) = Command(o)
        /\ Step(s) = "insertEntry" /\ Moved(s) /\ entry \in [Entries -> Entry]
    BY SlotTypes, GuestMoves DEF InsertEntry, At, Typed, StoreTypes
  <1>1. o.op = "join" /\ o.pc = 4
    BY <1>0, AtGuest
  <1>2. PICK e \in Entries :
         /\ entry[e].st = "none"
         /\ entry' = [entry EXCEPT ![e] = [st |-> "live", contacts |-> o.contacts,
                                           joined |-> TRUE]]
         /\ loose' = IF o.loose THEN loose \cup {e} ELSE loose
         /\ req' = [r \in Slots |->
                IF r = s THEN Onward([req[s] EXCEPT !.entry = e])
                ELSE IF /\ r \in Others(s, "join", {"insertEntry"})
                        /\ req[r].contacts \cap req[s].contacts # {}
                        /\ LockKey(req[r]) # LockKey(req[s])
                     THEN [req[r] EXCEPT !.loose = TRUE] ELSE req[r]]
         /\ lock' = lock
    BY DEF InsertEntry, Spoil, redis
  <1>3. \A f \in Entries, k \in Contacts : Holds(f, k)' =>
          \/ f # e /\ Holds(f, k)
          \/ f = e /\ k \in o.contacts /\ ~o.loose
    <2>1. \A f \in Entries \ {e} : entry'[f] = entry[f]
      BY <1>0, <1>2
    <2>2. entry'[e].contacts = o.contacts
      BY <1>0, <1>2
    <2>3. loose \subseteq loose' /\ (o.loose => e \in loose')
      BY <1>2
    <2> QED
      BY <2>1, <2>2, <2>3 DEF Holds, InQueue
  <1>4. \A k \in o.contacts : ~o.loose => Passed(o, k) /\ k \in Contacts
    BY <1>0, <1>1 DEF Passed, Request, Contacts
  <1>5. \A t \in Slots : Joining(req'[t]) => Joining(req[t]) /\ LockKey(req'[t]) = LockKey(req[t])
    BY <1>0, JoinMoves
  <1>6. \A t \in Slots : Joining(req'[t]) => lock'[LockKey(req'[t])] = t
    BY <1>2, <1>5 DEF GuestsApart
  <1>7. \A k \in Contacts : \A f, g \in Entries : Holds(f, k)' /\ Holds(g, k)' => f = g
    BY <1>3, <1>4 DEF GuestsApart
  <1>8. ASSUME NEW t \in Slots, NEW k \in Contacts, Passed(req'[t], k), k \in o.contacts, ~o.loose
        PROVE  FALSE
    <2>1. Passed(req[t], k) /\ req'[t].contacts = req[t].contacts
      BY <1>0, <1>8, JoinMoves
    <2>2. t # s
      <3>1. n = Idle \/ GoesOn(o, n)
        BY <1>0 DEF Moved, After
      <3>2. ~Passed(n, k)
        BY <1>1, <3>1, IdleProper DEF Passed, GoesOn, Advances
      <3> QED
        BY <1>8, <3>2
    <2>3. req[t] \in Request /\ Proper(req[t]) /\ Step(t) = Command(req[t])
      BY SlotTypes
    <2>4. req[t].op = "join" /\ ~req[t].loose /\ k \in req[t].contacts /\ req[t].pc \in 3..4
          /\ (k = "phone" => req[t].pc = 4)
      BY <2>1 DEF Passed
    <2>5. LockKey(o) \in Contacts /\ LockKey(req[t]) \in Contacts
      BY <1>8, <2>4 DEF LockKey, Contacts
    <2>6. Joining(req[t]) /\ Joining(o)
      BY <1>0, <1>1, <1>8, <2>4, <2>5 DEF Joining
    <2>7. LockKey(o) # LockKey(req[t])
      BY <2>2, <2>6 DEF GuestsApart
    <2>8. k = "phone"
      BY <1>8, <2>4, <2>7 DEF LockKey, Contacts
    <2>9. Step(t) = "insertEntry"
      BY <2>3, <2>4, <2>8, AtGuest
    <2>10. /\ t \in Others(s, "join", {"insertEntry"})
           /\ req[t].contacts \cap o.contacts # {}
      BY <1>8, <2>2, <2>4, <2>9 DEF Others
    <2>11. req'[t] = [req[t] EXCEPT !.loose = TRUE]
      BY <1>2, <2>2, <2>7, <2>10
    <2> QED
      BY <1>8, <2>3, <2>11 DEF Passed, Request
  <1>9. \A t \in Slots, k \in Contacts : Passed(req'[t], k) => \A f \in Entries : ~Holds(f, k)'
    <2> TAKE t \in Slots, k \in Contacts
    <2> HAVE Passed(req'[t], k)
    <2> TAKE f \in Entries
    <2>1. Passed(req[t], k)
      BY <1>0, JoinMoves
    <2>2. ~Holds(f, k)
      BY <2>1 DEF GuestsApart
    <2> QED
      BY <1>3, <1>8, <2>2
  <1> QED
    BY <1>6, <1>7, <1>9 DEF GuestsApart

\* A guest is added by the host.
LEMMA AddGuests ==
    ASSUME Typed, GuestsApart, NEW K \in SUBSET Contacts, AddEntry(K)
    PROVE  GuestsApart'
  <1>0. entry \in [Entries -> Entry] /\ lock' = lock /\ \A t \in Slots : Alike(req[t], req'[t])
    BY AddTyped DEF Typed, StoreTypes, redis
  <1>1. PICK e \in Entries :
         /\ entry' = [entry EXCEPT ![e] = [st |-> "live", contacts |-> K, joined |-> FALSE]]
         /\ loose' = loose \/ loose' = loose \cup {e}
         /\ (\E f \in Entries : InQueue(f) /\ K \cap entry[f].contacts # {}) => e \in loose'
    BY AddTyped
  <1>2. \A f \in Entries, k \in Contacts : Holds(f, k)' =>
          \/ f # e /\ Holds(f, k)
          \/ f = e /\ k \in K /\ \A g \in Entries : ~Holds(g, k)
    <2>1. \A f \in Entries \ {e} : entry'[f] = entry[f]
      BY <1>0, <1>1
    <2>2. entry'[e].contacts = K
      BY <1>0, <1>1
    <2>3. \A k \in Contacts : Holds(e, k)' => k \in K /\ \A g \in Entries : ~Holds(g, k)
      BY <1>1, <2>2 DEF Holds
    <2>4. \A f \in Entries \ {e}, k \in Contacts : Holds(f, k)' => Holds(f, k)
      BY <1>1, <2>1 DEF Holds, InQueue
    <2> QED
      BY <2>3, <2>4
  <1>3. \A t \in Slots : Joining(req'[t]) => Joining(req[t]) /\ LockKey(req'[t]) = LockKey(req[t])
    BY <1>0 DEF Alike, Joining, LockKey
  <1>4. \A t \in Slots : Joining(req'[t]) => lock'[LockKey(req'[t])] = t
    BY <1>0, <1>3 DEF GuestsApart
  <1>5. \A k \in Contacts : \A f, g \in Entries : Holds(f, k)' /\ Holds(g, k)' => f = g
    BY <1>2 DEF GuestsApart
  <1>6. ASSUME NEW t \in Slots, NEW k \in Contacts, Passed(req'[t], k)
        PROVE  Passed(req[t], k) /\ k \notin K
    <2>1. Passed(req[t], k) /\ ~req'[t].loose
      BY <1>0, <1>6 DEF Alike, Passed
    <2>2. Proper(req[t])
      BY SlotTypes
    <2>3. /\ k = "email" => Command(req[t]) \in {"dupPhone", "insertEntry"}
          /\ k # "email" => Command(req[t]) = "insertEntry"
      BY <2>1, <2>2, AtGuest DEF Passed
    <2>4. k \in K => HasChecked(req[t], K)
      BY <2>1, <2>3 DEF Passed, HasChecked, Command
    <2> QED
      BY <2>1, <2>4, AddTyped
  <1>7. \A t \in Slots, k \in Contacts : Passed(req'[t], k) => \A f \in Entries : ~Holds(f, k)'
    BY <1>2, <1>6 DEF GuestsApart
  <1> QED
    BY <1>4, <1>5, <1>7 DEF GuestsApart

\* Commands keep guests apart.
LEMMA HandlerGuests ==
    ASSUME Typed, GuestsApart, NEW s \in Slots, Handler(s)
    PROVE  GuestsApart'
  <1> DEFINE o == req[s]
             n == req'[s]
  <1>0. /\ Proper(o) /\ Known(o) /\ o \in Request /\ Step(s) = Command(o) /\ Keeps(s)
        /\ Moved(s) /\ entry \in [Entries -> Entry] /\ loose \subseteq loose'
        /\ lock \in [Contacts -> Slots \cup {NoSlot}] /\ NoSlot \notin Slots
    BY SlotTypes, HandlerKeeps, HandlerMoves, AccountsAssumption DEF Typed, StoreTypes, Keeps
  <1>1. Step(s) \notin {"insertEntry", "updateEntry"} =>
          \A e \in Entries, k \in Contacts : Holds(e, k)' => Holds(e, k)
    BY <1>0, HoldsSame DEF Keeps
  <1>2. CASE Step(s) \notin {"insertEntry", "updateEntry", "lock", "unlock", "dupEmail", "dupPhone"}
    BY <1>0, <1>1, <1>2, JoinMoves, GuestsFrame DEF Keeps
  <1>3. CASE Step(s) = "insertEntry"
    BY <1>3, HandlerIs, InsertGuests
  <1>4. CASE Step(s) = "updateEntry"
    <2>1. UpdateEntry(s) /\ o.entry \in Entries /\ lock' = lock
      BY <1>0, <1>4, HandlerIs, KnownAt DEF Keeps
    <2>2. \A e \in Entries, k \in Contacts : Holds(e, k)' => Holds(e, k)
      <3> DEFINE had == entry[o.entry].contacts
      <3>1. PICK new \in SUBSET o.contacts :
               /\ entry' = [entry EXCEPT ![o.entry].contacts = (had \ o.contacts) \cup new]
               /\ new \subseteq had \/ o.entry \in loose'
        BY <2>1 DEF UpdateEntry, Spoil
      <3>2. \A e \in Entries : e # o.entry => entry'[e] = entry[e]
        BY <1>0, <3>1
      <3>3. /\ entry'[o.entry].st = entry[o.entry].st
            /\ entry'[o.entry].contacts = (had \ o.contacts) \cup new
        <4>1. entry[o.entry] \in Entry
          BY <1>0, <2>1
        <4> QED
          BY <1>0, <2>1, <3>1, <4>1 DEF Entry
      <3> HIDE DEF had
      <3>4. ASSUME NEW e \in Entries, e = o.entry, NEW k \in Contacts, Holds(e, k)'
            PROVE  Holds(e, k)
        <4>1. entry'[e].st \in {"live", "arrived"} /\ e \notin loose' /\ k \in entry'[e].contacts
          BY <3>4 DEF Holds, InQueue
        <4>2. k \in had
          BY <3>1, <3>3, <3>4, <4>1
        <4>3. entry[e].st \in {"live", "arrived"} /\ e \notin loose
          BY <1>0, <3>3, <3>4, <4>1
        <4> QED
          BY <3>4, <4>2, <4>3 DEF Holds, InQueue, had
      <3>5. \A e \in Entries : e # o.entry => \A k \in Contacts : Holds(e, k)' => Holds(e, k)
        BY <1>0, <3>2 DEF Holds, InQueue
      <3> QED
        BY <2>1, <3>4, <3>5
    <2> QED
      BY <1>0, <1>4, <2>1, <2>2, JoinMoves, GuestsFrame
  <1>5. CASE Step(s) = "lock"
    <2>1. AcquireJoinLock(s) /\ o.op = "join" /\ o.pc = 1
      BY <1>0, <1>5, HandlerIs, AtGuest
    <2>2. \A t \in Slots \ {s} : Joining(req'[t]) => Joining(req[t]) /\ LockKey(req'[t]) = LockKey(req[t])
      BY <1>0, JoinMoves
    <2>3. \A t \in Slots, k \in Contacts : Passed(req'[t], k) => Passed(req[t], k)
      BY <1>0, <1>5, JoinMoves
    <2>4. CASE LockKey(o) \in Contacts /\ lock[LockKey(o)] = NoSlot
      <3>1. lock' = [lock EXCEPT ![LockKey(o)] = s]
        BY <2>1, <2>4 DEF AcquireJoinLock, Contacts
      <3>2. \A t \in Slots \ {s} : Joining(req'[t]) => lock'[LockKey(req'[t])] = t
        <4> TAKE t \in Slots \ {s}
        <4> HAVE Joining(req'[t])
        <4>1. lock[LockKey(req[t])] = t /\ LockKey(req[t]) \in Contacts
          BY <2>2 DEF GuestsApart, Joining
        <4>2. LockKey(req[t]) # LockKey(o)
          BY <1>0, <2>4, <4>1
        <4> QED
          BY <1>0, <2>2, <3>1, <4>1, <4>2
      <3>3. Joining(n) => lock'[LockKey(n)] = s
        BY <1>0, <2>4, <3>1, JoinMoves
      <3>4. \A t \in Slots : Joining(req'[t]) => lock'[LockKey(req'[t])] = t
        BY <3>2, <3>3
      <3>5. \A k \in Contacts : \A e, f \in Entries : Holds(e, k)' /\ Holds(f, k)' => e = f
        BY <1>1, <1>5 DEF GuestsApart
      <3>6. \A t \in Slots, k \in Contacts : Passed(req'[t], k) => \A e \in Entries : ~Holds(e, k)'
        BY <1>1, <1>5, <2>3 DEF GuestsApart
      <3> QED
        BY <3>4, <3>5, <3>6 DEF GuestsApart
    <2>5. CASE ~(LockKey(o) \in Contacts /\ lock[LockKey(o)] = NoSlot)
      <3>1. lock' = lock /\ (n = Idle \/ LockKey(o) \notin Contacts)
        <4>1. LockKey(o) = "none" => lock' = lock /\ LockKey(o) \notin Contacts
          BY <2>1 DEF AcquireJoinLock, Contacts
        <4>2. LockKey(o) \in Contacts \cup {"none"}
          BY DEF LockKey, Contacts
        <4>3. LockKey(o) # "none" => lock' = lock /\ Finish(s)
          BY <2>1, <2>5, <4>2 DEF AcquireJoinLock
        <4> QED
          BY <4>1, <4>3, FinishMoves
      <3>2. ~Joining(n)
        <4>1. LockKey(o) \notin Contacts => ~Joining(n)
          BY <1>0, JoinMoves DEF Joining
        <4> QED
          BY <3>1, <4>1, IdleProper DEF Joining
      <3>3. \A t \in Slots : Joining(req'[t]) => Joining(req[t]) /\ LockKey(req'[t]) = LockKey(req[t])
        BY <2>2, <3>2
      <3> QED
        BY <1>1, <1>5, <2>3, <3>1, <3>3, GuestsFrame
    <2> QED
      BY <2>4, <2>5
  <1>6. CASE Step(s) = "unlock"
    <2>1. ReleaseJoinLock(s) /\ o.op = "join" /\ o.pc = 6
      BY <1>0, <1>6, HandlerIs, AtGuest
    <2>2. lock' = [k \in Contacts |-> IF k = LockKey(o) /\ lock[k] = s THEN NoSlot ELSE lock[k]]
      BY <2>1 DEF ReleaseJoinLock
    <2>3. ~Joining(n)
      <3>1. n = Idle \/ GoesOn(o, n)
        BY <1>0 DEF Moved, After
      <3> QED
        BY <2>1, <3>1, IdleProper DEF Joining, GoesOn, Advances
    <2>4. \A t \in Slots : Joining(req'[t]) =>
            t # s /\ Joining(req[t]) /\ LockKey(req'[t]) = LockKey(req[t])
      BY <1>0, <2>3, JoinMoves
    <2>5. \A t \in Slots : Joining(req'[t]) => lock'[LockKey(req[t])] = lock[LockKey(req[t])]
      BY <2>2, <2>4 DEF GuestsApart, Joining
    <2>6. \A t \in Slots, k \in Contacts : Passed(req'[t], k) => Passed(req[t], k)
      BY <1>0, <1>6, JoinMoves
    <2> QED
      BY <1>1, <1>6, <2>4, <2>5, <2>6, GuestsFrame
  <1>7. CASE Step(s) \in {"dupEmail", "dupPhone"}
    <2>1. CheckDuplicate(s) /\ o.op = "join" /\ lock' = lock /\ entry' = entry
          /\ (Step(s) = "dupEmail" => o.pc = 2) /\ (Step(s) = "dupPhone" => o.pc = 3)
      BY <1>0, <1>7, HandlerIs, AtGuest DEF Keeps
    <2> DEFINE j == IF Step(s) = "dupEmail" THEN "email" ELSE "phone"
    <2>2. \/ Jump(s, "unlock")
          \/ \E b \in BOOLEAN :
                /\ o.loose => b
                /\ ~b /\ j \in o.contacts => \A e \in Entries : j \in entry[e].contacts => ~InQueue(e)
                /\ Become(s, Onward([o EXCEPT !.loose = b]))
      BY <1>7, <2>1, CheckBecomes DEF Contacts
    <2>3. \A t \in Slots : Joining(req'[t]) => Joining(req[t]) /\ LockKey(req'[t]) = LockKey(req[t])
      BY <1>0, <1>7, JoinMoves
    <2>4. \A t \in Slots \ {s}, k \in Contacts : Passed(req'[t], k) => Passed(req[t], k)
      BY <1>0, JoinMoves
    <2>5. ASSUME NEW k \in Contacts, Passed(n, k)
          PROVE  Passed(o, k) \/ \A e \in Entries : ~Holds(e, k)
      <3>1. k \in o.contacts /\ ~o.loose /\ n.pc \in 3..4 /\ GoesOn(o, n)
        BY <1>0, <2>5, IdleProper, JoinMoves DEF Passed, Moved, After, GoesOn
      <3>2. CASE k = j
        <4>1. CASE Jump(s, "unlock")
          <5>1. n = JumpedTo(o, "unlock")
            BY <4>1 DEF Jump, Become, Typed, RequestTypes
          <5>2. n.pc = 6
            BY <1>0, <2>1, <5>1, Jumps DEF JumpedTo, Request
          <5> QED
            BY <3>1, <5>2
        <4>2. ASSUME NEW b \in BOOLEAN, o.loose => b, Become(s, Onward([o EXCEPT !.loose = b])),
                     ~b /\ j \in o.contacts =>
                         \A e \in Entries : j \in entry[e].contacts => ~InQueue(e)
              PROVE  \A e \in Entries : ~Holds(e, k)
          <5>1. n = Onward([o EXCEPT !.loose = b])
            BY <4>2 DEF Become, Typed, RequestTypes
          <5>2. n = Idle \/ n.loose = b
            BY <1>7, <4>2, <5>1, CheckAfter
          <5>3. n # Idle /\ ~n.loose
            BY <2>5, IdleProper DEF Passed
          <5> QED
            BY <3>1, <3>2, <4>2, <5>2, <5>3 DEF Holds
        <4> QED
          BY <2>2, <4>1, <4>2
      <3>3. CASE k # j
        <4>1. CASE Step(s) = "dupPhone"
          <5>1. k = "email" /\ o.pc = 3
            BY <2>1, <3>3, <4>1 DEF Contacts
          <5> QED
            BY <2>1, <3>1, <5>1 DEF Passed
        <4>2. CASE Step(s) = "dupEmail"
          <5>1. k = "phone" /\ o.pc = 2 /\ n.pc = 4
            BY <2>1, <2>5, <3>3, <4>2 DEF Contacts, Passed
          <5> QED
            BY <2>1, <3>1, <5>1 DEF GoesOn, Advances
        <4> QED
          BY <1>7, <4>1, <4>2
      <3> QED
        BY <3>2, <3>3
    <2> QED
      BY <1>0, <1>1, <1>7, <2>1, <2>3, <2>4, <2>5, GuestsFrame
  <1> QED
    BY <1>2, <1>3, <1>4, <1>5, <1>6, <1>7

\* Every step keeps guests apart.
LEMMA GuestsNext ==
    ASSUME Typed, GuestsApart, [Next]_vars
    PROVE  GuestsApart'
  <1>0. entry \in [Entries -> Entry]
    BY DEF Typed, StoreTypes
  <1>1. CASE vars' = vars
    BY <1>1, HoldsSame, GuestsFrame DEF vars, mongo, redis, history
  <1>2. ASSUME NEW s \in Slots, Start(s)
        PROVE  GuestsApart'
    <2>1. /\ Begun(s) /\ entry' = entry /\ loose' = loose /\ lock' = lock
      BY <1>2, StartBegins DEF Begun, Unchanged, mongo, redis
    <2>2. ~Joining(req'[s]) /\ \A k \in Contacts : ~Passed(req'[s], k)
      BY <2>1 DEF Begun, Joining, Passed
    <2>3. \A t \in Slots : t # s => req'[t] = req[t]
      BY <2>1 DEF Begun
    <2> QED
      BY <2>1, <2>2, <2>3, HoldsSame, GuestsFrame
  <1>3. ASSUME NEW s \in Slots, CommandFails(s)
        PROVE  GuestsApart'
    <2>1. /\ Moved(s) /\ entry' = entry /\ lock' = lock /\ loose \subseteq loose'
      BY <1>3, FailMoves DEF CommandFails, Unchanged, mongo, redis, Spoil
    <2>2. Step(s) = "lock" => req'[s] = Idle
      BY <1>3, FailMoves DEF AfterFailure, At, Ignored
    <2>3. ~Joining(Idle)
      BY IdleProper DEF Joining
    <2>4. Step(s) \in {"dupEmail", "dupPhone"} => req'[s].loose \/ req'[s] = Idle
      <3> HAVE Step(s) \in {"dupEmail", "dupPhone"}
      <3> DEFINE r == [req[s] EXCEPT !.loose = TRUE]
      <3>1. req'[s] = Onward(r)
        BY <1>3, FailMoves DEF AfterFailure, At, Ignored
      <3>2. r.loose /\ [r EXCEPT !.pc = r.pc + 1].loose
        BY SlotTypes DEF Request
      <3> QED
        BY <3>1, <3>2 DEF Onward
    <2>5. Step(s) \in {"dupEmail", "dupPhone"} => \A k \in Contacts : ~Passed(req'[s], k)
      BY <2>4, IdleProper DEF Passed
    <2>6. \A t \in Slots : Joining(req'[t]) => Joining(req[t]) /\ LockKey(req'[t]) = LockKey(req[t])
      BY <2>1, <2>2, <2>3, JoinMoves
    <2>7. \A t \in Slots, k \in Contacts : Passed(req'[t], k) => Passed(req[t], k)
      BY <2>1, <2>5, JoinMoves
    <2> QED
      BY <2>1, <2>6, <2>7, HoldsSame, GuestsFrame
  <1>4. CASE Letters
    BY <1>4, LettersKeep, HoldsSame, GuestsFrame DEF mongo, redis
  <1>5. CASE KeyExpires
    <2>1. req' = req /\ loose' = loose /\ entry' = entry /\ lock' = lock
      BY <1>5 DEF KeyExpires, mongo
    <2> QED
      BY <2>1, HoldsSame, GuestsFrame
  <1>6. CASE Crash
    <2>1. entry' = entry /\ lock' = lock /\ loose \subseteq loose'
      BY <1>6 DEF Crash, mongo, redis
    <2>2. \A s \in Slots : ~Joining(req'[s]) /\ \A k \in Contacts : ~Passed(req'[s], k)
      BY <1>6, CrashTyped, IdleProper DEF Joining, Passed
    <2> QED
      BY <2>1, <2>2, HoldsSame, GuestsFrame
  <1>7. ASSUME NEW e \in Entries, GetRecoveryToken(e) \/ EntryChanges(e)
        PROVE  GuestsApart'
    <2>1. /\ req' = req /\ lock' = lock
          /\ \/ entry' = entry /\ loose' = loose
             \/ \E st \in {"live", "arrived", "over"} :
                   /\ entry' = [entry EXCEPT ![e].st = st]
                   /\ loose' = loose \/ loose' = loose \cup {e}
                   /\ st = "over" \/ InQueue(e) \/ e \in loose'
      BY <1>7, EntryTyped
    <2>2. \A f \in Entries, k \in Contacts : Holds(f, k)' => Holds(f, k)
      <3>1. CASE entry' = entry /\ loose' = loose
        BY <3>1, HoldsSame
      <3>2. ASSUME NEW st \in {"live", "arrived", "over"},
                   entry' = [entry EXCEPT ![e].st = st],
                   loose' = loose \/ loose' = loose \cup {e},
                   st = "over" \/ InQueue(e) \/ e \in loose'
            PROVE  \A f \in Entries, k \in Contacts : Holds(f, k)' => Holds(f, k)
        <4>1. \A f \in Entries : f # e => entry'[f] = entry[f]
          BY <1>0, <3>2
        <4>2. entry'[e].st = st /\ entry'[e].contacts = entry[e].contacts
          BY <1>0, <3>2 DEF Entry
        <4>3. \A k \in Contacts : Holds(e, k)' => Holds(e, k)
          BY <3>2, <4>2 DEF Holds, InQueue
        <4>4. \A f \in Entries : f # e => \A k \in Contacts : Holds(f, k)' => Holds(f, k)
          BY <3>2, <4>1 DEF Holds, InQueue
        <4> QED
          BY <4>3, <4>4
      <3> QED
        BY <2>1, <3>1, <3>2
    <2> QED
      BY <2>1, <2>2, GuestsFrame
  <1>8. ASSUME NEW k \in Contacts, LockLapses(k)
        PROVE  GuestsApart'
    <2>1. /\ loose' = loose /\ entry' = entry /\ \A s \in Slots : Alike(req[s], req'[s])
          /\ lock[k] \in Slots /\ lock' = [lock EXCEPT ![k] = NoSlot]
          /\ (req[lock[k]].op = "join" /\ LockKey(req[lock[k]]) = k) => req'[lock[k]].loose
          /\ lock \in [Contacts -> Slots \cup {NoSlot}]
      BY <1>8, LapseTyped DEF mongo, Typed, StoreTypes
    <2>2. \A s \in Slots : Joining(req'[s]) => Joining(req[s]) /\ LockKey(req'[s]) = LockKey(req[s])
      BY <2>1 DEF Alike, Joining, LockKey
    <2>3. \A s \in Slots, c \in Contacts : Passed(req'[s], c) => Passed(req[s], c)
      BY <2>1 DEF Alike, Passed
    <2>4. ASSUME NEW s \in Slots, Joining(req'[s])
          PROVE  lock'[LockKey(req[s])] = lock[LockKey(req[s])]
      <3>1. /\ Joining(req[s]) /\ LockKey(req[s]) \in Contacts /\ lock[LockKey(req[s])] = s
        BY <2>2, <2>4 DEF GuestsApart, Joining
      <3>2. LockKey(req[s]) # k
        BY <2>1, <2>4, <3>1 DEF Joining
      <3> QED
        BY <2>1, <3>1, <3>2
    <2> QED
      BY <2>1, <2>2, <2>3, <2>4, HoldsSame, GuestsFrame
  <1>9. ASSUME NEW k \in SUBSET Contacts, AddEntry(k)
        PROVE  GuestsApart'
    BY <1>9, AddGuests
  <1> QED
    BY <1>1, <1>2, <1>3, <1>4, <1>5, <1>6, <1>7, <1>8, <1>9, HandlerGuests DEF Next, Environment

-----------------------------------------------------------------------------
(* Sessions *)

\* A session that a new token does not join keeps its requests.
RootsKept == \A t \in Tokens : root[t] # NoToken => root'[t] = root[t]

\* A request that does not move is with its session as it was.
LEMMA SessionSame ==
    ASSUME Typed, RootsKept, NEW u \in Slots, NEW r \in Tokens, Alike(req[u], req'[u])
    PROVE  /\ req'[u].token = req[u].token /\ req'[u].pc = req[u].pc
           /\ Rotates(u, r)' <=> Rotates(u, r)
           /\ Renews(u, r)' <=> Renews(u, r)
           /\ Answers(u, r)' <=> Answers(u, r)
           /\ SignsOut(u, r)' <=> SignsOut(u, r)
  <1>1. req'[u].token = req[u].token /\ req'[u].pc = req[u].pc /\ req'[u].op = req[u].op
        /\ Command(req'[u]) = Command(req[u])
    BY DEF Alike, Command
  <1>2. req[u].token # NoToken => root'[req[u].token] = root[req[u].token]
    BY SlotTypes DEF Typed, SessionsRooted, RootsKept, Request
  <1>3. Rotating(req[u]) \/ Refreshing(req[u]) \/ Answering(req[u]) \/ SigningOut(req[u])
           => req[u].token # NoToken
    BY DEF Typed, SessionsRooted, Rotating, Refreshing, Answering, SigningOut
  <1>4. /\ Rotating(req'[u]) <=> Rotating(req[u])
        /\ Refreshing(req'[u]) <=> Refreshing(req[u])
        /\ Answering(req'[u]) <=> Answering(req[u])
        /\ SigningOut(req'[u]) <=> SigningOut(req[u])
    BY <1>1 DEF Rotating, Refreshing, Answering, SigningOut
  <1> QED
    BY <1>1, <1>2, <1>3, <1>4 DEF Rotates, Renews, Answers, SignsOut

\* The positions of requests that hold a token.
LEMMA SessionAt ==
    ASSUME NEW o, Proper(o)
    PROVE  /\ Rotating(o) <=> o.op = "refresh" /\ Command(o) \in {"delToken", "issue"}
           /\ Rotating(o) => (o.pc = 2 <=> Command(o) = "delToken")
           /\ Refreshing(o) <=> o.op = "refresh" /\ Command(o) \in {"delToken", "issue", "answer"}
           /\ Answering(o) => Command(o) = "answer"
           /\ SigningOut(o) <=> o.op = "logout" /\ Command(o) = "delToken"
           /\ SigningOut(o) => o.pc = 1
  <1>1. o.pc \in 1..11
    BY DEF Proper, Request
  <1> QED
    BY <1>1, AtSession DEF Rotating, Refreshing, Answering, SigningOut

\* Free slots hold no token.
LEMMA IdleSession == ~Rotating(Idle) /\ ~Refreshing(Idle) /\ ~Answering(Idle) /\ ~SigningOut(Idle)
  BY IdleProper DEF Rotating, Refreshing, Answering, SigningOut

\* A request that moves holds a token only after a step of its session.
LEMMA SessionMoved ==
    ASSUME Typed, NEW s \in Slots, Moved(s)
    PROVE  /\ Rotating(req'[s]) => /\ Step(s) \in {"getToken", "delToken"}
                                   /\ req'[s].pc = 2 <=> Step(s) = "getToken"
           /\ Answering(req'[s]) => Step(s) = "issue"
           /\ ~SigningOut(req'[s])
           /\ req'[s] # Idle /\ Step(s) # "issue" => req'[s].token = req[s].token
           /\ \A u \in Slots : u # s => Alike(req[u], req'[u])
  <1> DEFINE o == req[s]
             n == req'[s]
  <1>0. /\ Proper(o) /\ o \in Request /\ Step(s) = Command(o) /\ o.pc \in 1..11
        /\ n = Idle \/ (GoesOn(o, n) /\ Proper(n))
    BY SlotTypes DEF Moved, After, Request
  <1>1. Rotating(n) => /\ Step(s) \in {"getToken", "delToken"}
                       /\ n.pc = 2 <=> Step(s) = "getToken"
    <2> HAVE Rotating(n)
    <2>1. o.op = "refresh" /\ n.pc = o.pc + 1 /\ n.pc \in 2..3
      BY <1>0, IdleSession DEF Rotating, GoesOn, Advances
    <2> QED
      BY <1>0, <2>1, AtSession
  <1>2. Answering(n) => Step(s) = "issue"
    <2> HAVE Answering(n)
    <2>1. GoesOn(o, n) /\ Proper(n)
      BY <1>0, IdleSession
    <2>2. \/ n.op = "refresh" /\ n.pc = 4
          \/ n.op = "verify" /\ n.pc = 8
          \/ n.op = "social" /\ n.pc = 6
      BY <2>1, AtSession DEF Answering
    <2>3. \/ o.op = "refresh" /\ o.pc = 3
          \/ o.op = "verify" /\ o.pc = 7
          \/ o.op = "social" /\ o.pc = 5
      BY <1>0, <2>1, <2>2 DEF GoesOn, Advances
    <2> QED
      BY <1>0, <2>3, AtSession
  <1>3. ~SigningOut(n)
    BY <1>0, IdleSession DEF SigningOut, GoesOn, Advances
  <1> QED
    BY <1>0, <1>1, <1>2, <1>3 DEF Moved, GoesOn

\* What keeps a session to one token: fewer tokens are live, and requests are with
\* it as they were.
LEMMA SessionFrame ==
    ASSUME NEW r \in Tokens, OneToken(r), LiveIn(r)' \subseteq LiveIn(r),
           r \in out' => r \in out,
           \A s \in Slots : Rotates(s, r)' =>
               Rotates(s, r) /\ req'[s].token = req[s].token /\ req'[s].pc = req[s].pc,
           \A s \in Slots : Answers(s, r)' => Answers(s, r) /\ req'[s].token = req[s].token,
           \A s \in Slots : SignsOut(s, r)' =>
               \/ SignsOut(s, r) /\ req'[s].token = req[s].token
               \/ Browses(r) /\ req'[s].token = cookie,
           Browses(r)' => Browses(r) /\ cookie' = cookie,
           Renewed(r) => Renewed(r)' \/ LiveIn(r)' = {}
    PROVE  OneToken(r)'
  <1>1. \A t, u \in LiveIn(r)' : t = u
    BY DEF OneToken
  <1>2. \A s \in Slots : Rotates(s, r)' =>
           LiveIn(r)' \subseteq IF req'[s].pc = 2 THEN {req'[s].token} ELSE {}
    BY DEF OneToken
  <1>3. \A s, t \in Slots : Rotates(s, r)' /\ Rotates(t, r)' => s = t
    BY DEF OneToken
  <1>4. r \in out' => LiveIn(r)' = {} /\ \A s \in Slots : ~Rotates(s, r)'
    BY DEF OneToken
  <1>5. \A s \in Slots : Answers(s, r)' =>
           LiveIn(r)' \subseteq {req'[s].token} /\ \A t \in Slots : ~Rotates(t, r)'
    BY DEF OneToken
  <1>6. \A s \in Slots : SignsOut(s, r)' => LiveIn(r)' \subseteq {req'[s].token} \/ Renewed(r)'
    BY DEF OneToken
  <1>7. Browses(r)' => LiveIn(r)' \subseteq {cookie'} \/ Renewed(r)'
    BY DEF OneToken
  <1> QED
    BY <1>1, <1>2, <1>3, <1>4, <1>5, <1>6, <1>7 DEF OneToken

\* So does one that has no live token left.
LEMMA SessionEmpty ==
    ASSUME NEW r \in Tokens, LiveIn(r)' = {},
           \A s, t \in Slots : Rotates(s, r)' /\ Rotates(t, r)' => s = t,
           r \in out' => \A s \in Slots : ~Rotates(s, r)',
           \A s \in Slots : Answers(s, r)' => \A t \in Slots : ~Rotates(t, r)'
    PROVE  OneToken(r)'
  BY DEF OneToken

\* What issues a token: a new one, which the answer will bring to the browser.
LEMMA IssueIs ==
    ASSUME Typed, NEW s \in Slots, IssueToken(s)
    PROVE  \E t \in Tokens :
             /\ root[t] = NoToken
             /\ refresh' = [refresh EXCEPT ![t] = req[s].host]
             /\ root' = [root EXCEPT ![t] = IF req[s].op = "refresh"
                                            THEN root[req[s].token] ELSE t]
             /\ req'[s].token = t /\ req'[s].op = req[s].op /\ Answering(req'[s])
             /\ req[s].op = "refresh" => Rotating(req[s]) /\ req[s].pc = 3 /\ Refreshing(req'[s])
  <1> DEFINE o == req[s]
             n == req'[s]
  <1>0. Proper(o) /\ o \in Request /\ Step(s) = Command(o) /\ Step(s) = "issue"
    BY SlotTypes DEF IssueToken, At
  <1>1. \/ o.op = "refresh" /\ o.pc = 3
        \/ o.op = "verify" /\ o.pc = 7
        \/ o.op = "social" /\ o.pc = 5
    BY <1>0, AtSession
  <1>2. PICK t \in Tokens :
            /\ root[t] = NoToken
            /\ refresh' = [refresh EXCEPT ![t] = o.host]
            /\ root' = [root EXCEPT ![t] = IF o.op = "refresh" THEN root[o.token] ELSE t]
            /\ Become(s, Onward([o EXCEPT !.token = t]))
    BY DEF IssueToken
  <1> DEFINE r == [o EXCEPT !.token = t]
             m == [r EXCEPT !.pc = r.pc + 1]
  <1>3. r \in Request /\ r.token = t /\ r.op = o.op /\ r.pc = o.pc
    BY <1>0 DEF Request
  <1>4. n = Onward(r)
    BY <1>2 DEF Become, Typed, RequestTypes
  <1> HIDE DEF r
  <1>5. r.pc # Len(Steps[r.op])
    <2>1. Len(Steps["refresh"]) = 4 /\ Len(Steps["verify"]) = 9 /\ Len(Steps["social"]) = 8
      BY DEF Steps, RefreshSteps
    <2>2. \/ r.op = "refresh" /\ r.pc = 3
          \/ r.op = "verify" /\ r.pc = 7
          \/ r.op = "social" /\ r.pc = 5
      BY <1>1, <1>3
    <2>3. CASE r.op = "refresh" /\ r.pc = 3
      BY <2>1, <2>3
    <2>4. CASE r.op = "verify" /\ r.pc = 7
      BY <2>1, <2>4
    <2>5. CASE r.op = "social" /\ r.pc = 5
      BY <2>1, <2>5
    <2> QED
      BY <2>2, <2>3, <2>4, <2>5
  <1>6. n = m
    BY <1>4, <1>5 DEF Onward
  <1>7. m.token = t /\ m.op = o.op /\ m.pc = o.pc + 1
    BY <1>3 DEF Request
  <1>8. Command(m) = "answer"
    BY <1>1, <1>7 DEF Command, Steps, RefreshSteps
  <1>9. Answering(n)
    BY <1>1, <1>6, <1>7, <1>8 DEF Answering
  <1>10. o.op = "refresh" => Rotating(o) /\ o.pc = 3 /\ Refreshing(n)
    BY <1>1, <1>6, <1>7 DEF Rotating, Refreshing
  <1> QED
    BY <1>2, <1>6, <1>7, <1>9, <1>10

\* A token that is new is with no request and not in the browser, and no session
\* has it for its first.
LEMMA NewToken ==
    ASSUME Typed, NEW t \in Tokens, root[t] = NoToken
    PROVE  /\ cookie # t /\ ~Browses(t) /\ t \notin out
           /\ \A u \in Slots : req[u].token # t
           /\ \A u \in Slots : ~Rotates(u, t) /\ ~Renews(u, t) /\ ~Answers(u, t) /\ ~SignsOut(u, t)
           /\ Session(t) = {}
  <1>0. /\ NoToken \notin Tokens /\ cookie \in Tokens \cup {NoToken}
        /\ \A u \in Tokens : root[u] # NoToken => root[root[u]] = root[u]
        /\ \A u \in out : root[u] = u
        /\ cookie # NoToken => root[cookie] # NoToken
        /\ \A u \in Slots : req[u].token # NoToken => root[req[u].token] # NoToken
    BY AccountsAssumption DEF Typed, StoreTypes, SessionsRooted
  <1>1. \A u \in Tokens : root[u] # t
    BY <1>0
  <1>2. \A u \in Slots : req[u].token \in Tokens \cup {NoToken}
    BY SlotTypes DEF Request
  <1>3. \A u \in Slots : (\/ Rotating(req[u]) \/ Refreshing(req[u])
                         \/ Answering(req[u]) \/ SigningOut(req[u])) => req[u].token \in Tokens
    BY <1>2 DEF Typed, SessionsRooted, Rotating, Refreshing, Answering, SigningOut
  <1> QED
    BY <1>0, <1>1, <1>2, <1>3 DEF Browses, Rotates, Renews, Answers, SignsOut, Session

\* What keeps a token that is not answered yet to its request.
LEMMA PrivateFrame ==
    ASSUME Typed, TokensPrivate,
           \A u \in Slots : Answering(req'[u]) =>
               /\ Answering(req[u]) /\ req'[u].token = req[u].token
               /\ cookie' # req[u].token,
           \A u \in Slots : req'[u].token \in {req[u].token, NoToken, cookie}
    PROVE  TokensPrivate'
  <1>1. \A u \in Slots : Answering(req[u]) => req[u].token # NoToken
    BY DEF Typed, SessionsRooted, Answering
  <1> QED
    BY <1>1 DEF TokensPrivate

\* Commands keep tokens private.
LEMMA HandlerPrivate ==
    ASSUME Typed, TokensPrivate, NEW s \in Slots, Handler(s)
    PROVE  TokensPrivate'
  <1> DEFINE o == req[s]
             n == req'[s]
  <1>0. /\ Proper(o) /\ o \in Request /\ Step(s) = Command(o) /\ Keeps(s) /\ Moved(s)
        /\ NoToken \notin Tokens /\ Idle.token = NoToken
        /\ \A u \in Slots : req[u].token \in Tokens \cup {NoToken}
    BY SlotTypes, HandlerKeeps, HandlerMoves, AccountsAssumption, IdleProper DEF Request
  <1>1. \A u \in Slots \ {s} : /\ req'[u].token = req[u].token
                               /\ Answering(req'[u]) => Answering(req[u])
    BY <1>0 DEF Moved, Alike, Answering, Command
  <1>2. CASE Step(s) \notin {"issue", "answer"}
    <2>1. ~Answering(n) /\ n.token \in {o.token, NoToken} /\ cookie' = cookie
      BY <1>0, <1>2, SessionMoved DEF Keeps
    <2>2. \A u \in Slots : Answering(req'[u]) =>
               /\ Answering(req[u]) /\ req'[u].token = req[u].token /\ cookie' # req[u].token
      BY <1>1, <2>1 DEF TokensPrivate
    <2>3. \A u \in Slots : req'[u].token \in {req[u].token, NoToken, cookie}
      BY <1>1, <2>1
    <2> QED
      BY <2>2, <2>3, PrivateFrame
  <1>3. CASE Step(s) = "answer"
    <2>1. Answer(s) /\ ~Answering(n) /\ n.token \in {o.token, NoToken}
      BY <1>0, <1>3, HandlerIs, SessionMoved
    <2>2. cookie' = NoToken \/ (cookie' = o.token /\ Answering(o))
      BY <1>0, <1>3, <2>1, AtSession DEF Answer, Answering
    <2>3. \A u \in Slots \ {s} : Answering(req[u]) => req[u].token # NoToken /\ req[u].token # o.token
      BY DEF TokensPrivate, Typed, SessionsRooted, Answering
    <2>4. \A u \in Slots : Answering(req'[u]) =>
               /\ Answering(req[u]) /\ req'[u].token = req[u].token /\ cookie' # req[u].token
      BY <1>1, <2>1, <2>2, <2>3
    <2>5. \A u \in Slots : req'[u].token \in {req[u].token, NoToken, cookie}
      BY <1>1, <2>1
    <2> QED
      BY <2>4, <2>5, PrivateFrame
  <1>4. CASE Step(s) = "issue"
    <2>1. PICK t \in Tokens : root[t] = NoToken /\ n.token = t
      BY <1>4, HandlerIs, IssueIs
    <2>2. cookie # t /\ \A u \in Slots : req[u].token # t
      BY <2>1, NewToken
    <2>3. cookie' = cookie
      BY <1>0, <1>4 DEF Keeps
    <2>4. ASSUME NEW u \in Slots, Answering(req'[u])
          PROVE  cookie' # req'[u].token /\ \A v \in Slots \ {u} : req'[v].token # req'[u].token
      <3>1. CASE u = s
        BY <1>1, <2>1, <2>2, <2>3, <3>1
      <3>2. CASE u # s
        BY <1>1, <2>1, <2>2, <2>3, <2>4, <3>2 DEF TokensPrivate
      <3> QED
        BY <3>1, <3>2
    <2> QED
      BY <2>4 DEF TokensPrivate
  <1> QED
    BY <1>2, <1>3, <1>4

\* Every step keeps tokens private.
LEMMA PrivateNext ==
    ASSUME Typed, TokensPrivate, [Next]_vars
    PROVE  TokensPrivate'
  <1>0. \A u \in Slots : Answering(req[u]) => cookie # req[u].token
    BY DEF TokensPrivate
  <1>1. CASE req' = req /\ cookie' = cookie
    BY <1>0, <1>1, PrivateFrame
  <1>2. ASSUME NEW s \in Slots, Start(s)
        PROVE  TokensPrivate'
    <2>1. Begun(s) /\ cookie' = cookie
      BY <1>2, StartBegins DEF Begun, Unchanged, browser
    <2>2. ~Answering(req'[s]) /\ req'[s].token \in {NoToken, cookie}
      BY <2>1, SessionAt, AtSession DEF Begun, Answering, Refreshing
    <2>3. \A t \in Slots : t # s => req'[t] = req[t]
      BY <2>1 DEF Begun
    <2> QED
      BY <1>0, <2>1, <2>2, <2>3, PrivateFrame
  <1>3. ASSUME NEW s \in Slots, CommandFails(s)
        PROVE  TokensPrivate'
    <2>1. Moved(s) /\ cookie' = cookie
      BY <1>3, FailMoves DEF CommandFails, Unchanged, browser
    <2>2. Step(s) = "issue" => req'[s] = Idle
      BY <1>3, FailMoves DEF AfterFailure, At, Ignored
    <2>3. ~Answering(req'[s]) /\ req'[s].token \in {req[s].token, NoToken}
      BY <2>1, <2>2, SessionMoved, IdleSession, IdleProper
    <2>4. \A u \in Slots \ {s} : /\ req'[u].token = req[u].token
                                 /\ Answering(req'[u]) => Answering(req[u])
      BY <2>1 DEF Moved, Alike, Answering, Command
    <2> QED
      BY <1>0, <2>1, <2>3, <2>4, PrivateFrame
  <1>4. CASE Letters
    BY <1>1, <1>4, LettersKeep DEF browser
  <1>5. CASE KeyExpires
    BY <1>1, <1>5 DEF KeyExpires, browser
  <1>6. CASE Crash
    BY <1>6, CrashTyped, IdleSession DEF TokensPrivate
  <1>7. ASSUME NEW e \in Entries, GetRecoveryToken(e) \/ EntryChanges(e)
        PROVE  TokensPrivate'
    BY <1>1, <1>7 DEF GetRecoveryToken, EntryChanges, browser
  <1>8. ASSUME NEW k \in Contacts, LockLapses(k)
        PROVE  TokensPrivate'
    <2>1. cookie' = cookie /\ \A s \in Slots : Alike(req[s], req'[s])
      BY <1>8, LapseTyped DEF LockLapses, browser
    <2>2. \A u \in Slots : /\ req'[u].token = req[u].token
                           /\ Answering(req'[u]) => Answering(req[u])
      BY <2>1 DEF Alike, Answering, Command
    <2> QED
      BY <1>0, <2>1, <2>2, PrivateFrame
  <1>9. ASSUME NEW k \in SUBSET Contacts, AddEntry(k)
        PROVE  TokensPrivate'
    <2>1. cookie' = cookie /\ \A s \in Slots : Alike(req[s], req'[s])
      BY <1>9, AddTyped DEF browser
    <2>2. \A u \in Slots : /\ req'[u].token = req[u].token
                           /\ Answering(req'[u]) => Answering(req[u])
      BY <2>1 DEF Alike, Answering, Command
    <2> QED
      BY <1>0, <2>1, <2>2, PrivateFrame
  <1> QED
    BY <1>1, <1>2, <1>3, <1>4, <1>5, <1>6, <1>7, <1>8, <1>9, HandlerPrivate
       DEF Next, Environment, vars, browser

\* A token read is the one live token of its session, and only one request deletes
\* it, unless the step has said so.
LEMMA GetRotates ==
    ASSUME Typed, TokensPrivate, SessionsRotate, NEW s \in Slots, GetToken(s)
    PROVE  SessionsRotate'
  <1> DEFINE o == req[s]
             n == req'[s]
  <1>0. /\ Proper(o) /\ o \in Request /\ Step(s) = Command(o) /\ Step(s) = "getToken" /\ Moved(s)
        /\ o.op = "refresh" /\ o.pc = 1 /\ Handler(s) /\ Keeps(s)
    BY SlotTypes, AtSession, SessionMoves, SessionKeeps DEF GetToken, At, Handler
  <1>1. /\ UNCHANGED <<refresh, root, out, cookie>> /\ loose \subseteq loose' /\ RootsKept
    BY <1>0 DEF Keeps, RootsKept
  <1>2. \A u \in Slots : u # s => Alike(req[u], req'[u])
    BY <1>0, SessionMoved
  <1>3. \A r \in Tokens : ~Rotates(s, r) /\ ~Renews(s, r) /\ ~Answers(s, r) /\ ~SignsOut(s, r)
    BY <1>0, SessionAt DEF Rotates, Renews, Answers, SignsOut
  <1>4. \A r \in Tokens : ~Answers(s, r)' /\ ~SignsOut(s, r)'
    BY <1>0, SessionMoved DEF Answers, SignsOut
  <1>5. o.token \in Tokens
    BY <1>0 DEF Typed, SessionsRooted, Request
  <1> SUFFICES ASSUME NEW r \in Tokens \ loose'
               PROVE  OneToken(r)'
    BY DEF SessionsRotate
  <1>6. OneToken(r) /\ LiveIn(r)' = LiveIn(r) /\ (Browses(r)' <=> Browses(r))
    BY <1>1 DEF SessionsRotate, LiveIn, Session, Browses
  <1>7. \A u \in Slots \ {s} :
            /\ req'[u].token = req[u].token /\ req'[u].pc = req[u].pc
            /\ Rotates(u, r)' <=> Rotates(u, r)
            /\ Renews(u, r)' <=> Renews(u, r)
            /\ Answers(u, r)' <=> Answers(u, r)
            /\ SignsOut(u, r)' <=> SignsOut(u, r)
    BY <1>1, <1>2, SessionSame
  <1>8. Renewed(r) => Renewed(r)'
    BY <1>3, <1>7 DEF Renewed
  <1>9. CASE ~Rotates(s, r)'
    BY <1>1, <1>3, <1>4, <1>6, <1>7, <1>8, <1>9, SessionFrame DEF Browses
  <1>10. CASE Rotates(s, r)'
    <2>1. /\ Rotating(n) /\ n.pc = 2 /\ n # Idle /\ n.token = o.token /\ root[o.token] = r
      BY <1>0, <1>1, <1>10, SessionMoved, IdleSession DEF Rotates
    <2>2. Renewed(r)'
      <3>1. Renews(s, r)'
        BY <1>10 DEF Rotates, Renews, Rotating, Refreshing
      <3> QED
        BY <3>1 DEF Renewed
    <2>3. refresh[o.token] # NoHost
      BY <2>1, FinishMoves DEF GetToken
    <2>4. ~\E u \in Others(s, "refresh", {"delToken"}) : req[u].token = o.token
      BY <2>1, <2>3 DEF GetToken, Spoil
    <2>5. o.token \in LiveIn(r) /\ \A t \in LiveIn(r) : t = o.token
      BY <1>5, <1>6, <2>1, <2>3 DEF LiveIn, Session, OneToken
    <2>6. \A u \in Slots : ~Rotates(u, r)
      <3> SUFFICES ASSUME NEW u \in Slots, Rotates(u, r)
                   PROVE  FALSE
        OBVIOUS
      <3>1. req[u].pc = 2 /\ req[u].token = o.token
        BY <1>6, <2>5 DEF OneToken
      <3>2. u # s /\ Step(u) = "delToken" /\ req[u].op = "refresh"
        BY <1>3, <3>1, SlotTypes, SessionAt DEF Rotates
      <3>3. u \in Others(s, "refresh", {"delToken"})
        BY <3>2 DEF Others
      <3> QED
        BY <2>4, <3>1, <3>3
    <2>7. \A u \in Slots : ~Answers(u, r)
      <3> SUFFICES ASSUME NEW u \in Slots, Answers(u, r)
                   PROVE  FALSE
        OBVIOUS
      <3>1. req[u].token = o.token
        BY <1>6, <2>5 DEF OneToken
      <3>2. u # s
        BY <1>3
      <3> QED
        BY <3>1, <3>2 DEF TokensPrivate, Answers
    <2>8. r \notin out'
      BY <1>1, <1>6, <2>5 DEF OneToken
    <2>9. \A u \in Slots : (Rotates(u, r)' <=> u = s) /\ ~Answers(u, r)'
      BY <1>4, <1>7, <1>10, <2>6, <2>7
    <2>10. LiveIn(r)' \subseteq {req'[s].token} /\ req'[s].pc = 2 /\ \A t, u \in LiveIn(r)' : t = u
      BY <1>6, <2>1, <2>5
    <2> QED
      BY <2>2, <2>8, <2>9, <2>10 DEF OneToken
  <1> QED
    BY <1>9, <1>10

\* What deletes a token leaves the session without one.
LEMMA DeleteRotates ==
    ASSUME Typed, SessionsRotate, NEW s \in Slots, DeleteToken(s)
    PROVE  SessionsRotate'
  <1> DEFINE o == req[s]
             n == req'[s]
  <1>0. /\ Proper(o) /\ o \in Request /\ Step(s) = Command(o) /\ Step(s) = "delToken" /\ Moved(s)
        /\ Keeps(s)
        /\ (o.op = "refresh" /\ o.pc = 2) \/ (o.op = "logout" /\ o.pc = 1)
    BY SlotTypes, AtSession, SessionMoves, SessionKeeps DEF DeleteToken, At
  <1>1. /\ UNCHANGED <<root, cookie>> /\ loose \subseteq loose' /\ RootsKept
    BY <1>0 DEF Keeps, RootsKept
  <1>2. /\ \A u \in Slots : u # s => Alike(req[u], req'[u])
        /\ ~Answering(n) /\ ~SigningOut(n) /\ (n # Idle => n.token = o.token)
    BY <1>0, SessionMoved
  <1>3. o.token \in Tokens /\ root[o.token] \in Tokens
    BY <1>0 DEF Typed, SessionsRooted, StoreTypes, Request
  <1>4. refresh' = [refresh EXCEPT ![o.token] = NoHost] /\ refresh \in [Tokens -> Hosts \cup {NoHost}]
    BY DEF DeleteToken, Typed, StoreTypes
  <1>5. /\ out' = IF o.op = "logout" THEN out \cup {root[o.token]} ELSE out
        /\ o.op = "logout" /\ root[o.token] \notin loose' =>
               ~\E u \in Others(s, "refresh", Holding) : root[req[u].token] = root[o.token]
    BY <1>3, AccountsAssumption DEF DeleteToken, Spoil
  <1> SUFFICES ASSUME NEW r \in Tokens \ loose'
               PROVE  OneToken(r)'
    BY DEF SessionsRotate
  <1>6. OneToken(r) /\ LiveIn(r)' = LiveIn(r) \ {o.token} /\ (Browses(r)' <=> Browses(r))
    BY <1>1, <1>3, <1>4 DEF SessionsRotate, LiveIn, Session, Browses
  <1>7. \A u \in Slots \ {s} :
            /\ req'[u].token = req[u].token /\ req'[u].pc = req[u].pc
            /\ Rotates(u, r)' <=> Rotates(u, r)
            /\ Renews(u, r)' <=> Renews(u, r)
            /\ Answers(u, r)' <=> Answers(u, r)
            /\ SignsOut(u, r)' <=> SignsOut(u, r)
    BY <1>1, <1>2, SessionSame
  <1>8. ~Answers(s, r)' /\ ~SignsOut(s, r)'
    BY <1>2 DEF Answers, SignsOut
  <1>9. Rotates(s, r)' => root[o.token] = r /\ o.op = "refresh"
    BY <1>0, <1>1, <1>2, IdleSession DEF Rotates, Rotating, Moved, After, GoesOn
  <1>10. CASE root[o.token] # r
    <2>1. ~Rotates(s, r)' /\ ~Renews(s, r) /\ (r \in out' => r \in out)
      BY <1>5, <1>9, <1>10 DEF Renews
    <2>2. Renewed(r) => Renewed(r)'
      BY <1>7, <2>1 DEF Renewed
    <2> QED
      BY <1>1, <1>6, <1>7, <1>8, <2>1, <2>2, SessionFrame DEF Browses
  <1>11. CASE root[o.token] = r /\ o.op = "refresh"
    <2>1. Rotates(s, r) /\ o.pc = 2 /\ out' = out
      BY <1>0, <1>5, <1>11 DEF Rotates, Rotating
    <2>2. LiveIn(r)' = {} /\ r \notin out' /\ \A u \in Slots : ~Answers(u, r)
      BY <1>6, <2>1 DEF OneToken
    <2>3. \A u \in Slots : Rotates(u, r)' => Rotates(u, r)
      BY <1>7, <2>1
    <2>4. \A u \in Slots : ~Answers(u, r)'
      BY <1>7, <1>8, <2>2
    <2>5. \A u, v \in Slots : Rotates(u, r)' /\ Rotates(v, r)' => u = v
      BY <1>6, <2>3 DEF OneToken
    <2> QED
      BY <2>2, <2>4, <2>5, SessionEmpty
  <1>12. CASE root[o.token] = r /\ o.op = "logout"
    <2>1. \A u \in Slots : ~Renews(u, r)
      <3> SUFFICES ASSUME NEW u \in Slots, Renews(u, r)
                   PROVE  FALSE
        OBVIOUS
      <3>1. req[u].op = "refresh" /\ Step(u) \in Holding /\ root[req[u].token] = r /\ u # s
        BY <1>12, SlotTypes, SessionAt DEF Renews, Holding
      <3> QED
        BY <1>5, <1>12, <3>1 DEF Others
    <2>2. SignsOut(s, r)
      BY <1>0, <1>12 DEF SignsOut, SigningOut
    <2>3. LiveIn(r)' = {}
      BY <1>6, <2>1, <2>2 DEF OneToken, Renewed
    <2>4. \A u \in Slots : ~Rotates(u, r)
      BY <2>1 DEF Rotates, Renews, Rotating, Refreshing
    <2>5. \A u \in Slots : ~Rotates(u, r)'
      BY <1>7, <1>9, <1>12, <2>4
    <2> QED
      BY <2>3, <2>5, SessionEmpty
  <1> QED
    BY <1>0, <1>10, <1>11, <1>12

\* A new token is the only one of its session.
LEMMA IssueRotates ==
    ASSUME Typed, SessionsRotate, NEW s \in Slots, IssueToken(s)
    PROVE  SessionsRotate'
  <1> DEFINE o == req[s]
             n == req'[s]
  <1>0. /\ Proper(o) /\ o \in Request /\ Step(s) = Command(o) /\ Step(s) = "issue" /\ Moved(s)
        /\ Keeps(s) /\ root \in [Tokens -> Tokens \cup {NoToken}]
        /\ refresh \in [Tokens -> Hosts \cup {NoHost}] /\ NoToken \notin Tokens
        /\ cookie \in Tokens \cup {NoToken}
    BY SlotTypes, SessionMoves, SessionKeeps, AccountsAssumption
       DEF IssueToken, At, Typed, StoreTypes
  <1>1. PICK t \in Tokens :
             /\ root[t] = NoToken
             /\ refresh' = [refresh EXCEPT ![t] = o.host]
             /\ root' = [root EXCEPT ![t] = IF o.op = "refresh" THEN root[o.token] ELSE t]
             /\ n.token = t /\ n.op = o.op /\ Answering(n)
             /\ o.op = "refresh" => Rotating(o) /\ o.pc = 3 /\ Refreshing(n)
    BY IssueIs
  <1> DEFINE q == root'[t]
  <1>2. /\ UNCHANGED <<out, cookie, loose>> /\ RootsKept
        /\ \A u \in Tokens \ {t} : root'[u] = root[u] /\ refresh'[u] = refresh[u]
    BY <1>0, <1>1 DEF Keeps, RootsKept
  <1>3. \A u \in Slots : u # s => Alike(req[u], req'[u])
    BY <1>0, SessionMoved
  <1>4. q = IF o.op = "refresh" THEN root[o.token] ELSE t
    BY <1>0, <1>1
  <1>5. /\ cookie # t /\ ~Browses(t) /\ t \notin out /\ Session(t) = {}
        /\ \A u \in Slots : ~Rotates(u, t) /\ ~Renews(u, t) /\ ~Answers(u, t) /\ ~SignsOut(u, t)
    BY <1>1, NewToken
  <1>6. /\ ~Rotating(n) /\ ~SigningOut(n)
    BY <1>0, SessionMoved
  <1> SUFFICES ASSUME NEW r \in Tokens \ loose
               PROVE  OneToken(r)'
    BY <1>2 DEF SessionsRotate
  <1>7. OneToken(r) /\ (Browses(r)' <=> Browses(r))
    BY <1>0, <1>2, <1>5 DEF SessionsRotate, Browses
  <1>8. \A u \in Slots \ {s} :
            /\ req'[u].token = req[u].token /\ req'[u].pc = req[u].pc
            /\ Rotates(u, r)' <=> Rotates(u, r)
            /\ Renews(u, r)' <=> Renews(u, r)
            /\ Answers(u, r)' <=> Answers(u, r)
            /\ SignsOut(u, r)' <=> SignsOut(u, r)
    BY <1>2, <1>3, SessionSame
  <1>9. ~Rotates(s, r)' /\ ~SignsOut(s, r)' /\ (Answers(s, r)' <=> q = r)
    BY <1>1, <1>6 DEF Rotates, SignsOut, Answers
  <1>10. /\ \A u \in LiveIn(r)' : u \in LiveIn(r) \/ (u = t /\ q = r)
    BY <1>2 DEF LiveIn, Session
  <1>11. CASE q # r
    <2>1. ~Renews(s, r)
      <3> SUFFICES ASSUME Renews(s, r)
                   PROVE  FALSE
        OBVIOUS
      <3>1. o.op = "refresh" /\ root[o.token] = r
        BY DEF Renews, Refreshing
      <3> QED
        BY <1>4, <1>11, <3>1
    <2>2. Renewed(r) => Renewed(r)'
      BY <1>8, <2>1 DEF Renewed
    <2>3. /\ LiveIn(r)' \subseteq LiveIn(r)
          /\ ~Answers(s, r)' /\ (r \in out' => r \in out) /\ (Browses(r)' => cookie' = cookie)
      BY <1>2, <1>9, <1>10, <1>11
    <2> QED
      BY <1>7, <1>8, <1>9, <2>2, <2>3, SessionFrame
  <1>12. CASE q = r /\ o.op = "refresh"
    <2>1. Rotates(s, r) /\ o.pc = 3
      BY <1>1, <1>4, <1>12 DEF Rotates
    <2>2. /\ LiveIn(r) = {} /\ r \notin out
          /\ \A u \in Slots : Rotates(u, r) => u = s
          /\ \A u \in Slots : ~Answers(u, r)
      BY <1>7, <2>1 DEF OneToken
    <2>3. LiveIn(r)' \subseteq {t}
      BY <1>10, <2>2
    <2>4. Renewed(r)'
      <3>1. Renews(s, r)'
        BY <1>1, <1>12 DEF Renews
      <3> QED
        BY <3>1 DEF Renewed
    <2>5. \A u \in Slots : ~Rotates(u, r)' /\ (Answers(u, r)' => u = s)
      BY <1>8, <1>9, <2>2
    <2>6. r \notin out'
      BY <1>2, <2>2
    <2> QED
      BY <1>1, <2>3, <2>4, <2>5, <2>6 DEF OneToken
  <1>13. CASE q = r /\ o.op # "refresh"
    <2>1. r = t
      BY <1>4, <1>13
    <2>2. LiveIn(r)' \subseteq {t}
      BY <1>5, <1>10, <2>1 DEF LiveIn
    <2>3. \A u \in Slots : ~Rotates(u, r)' /\ (Answers(u, r)' => u = s) /\ ~SignsOut(u, r)'
      BY <1>5, <1>8, <1>9, <2>1
    <2>4. r \notin out' /\ ~Browses(r)'
      BY <1>2, <1>5, <1>7, <2>1
    <2> QED
      BY <1>1, <2>2, <2>3, <2>4 DEF OneToken
  <1> QED
    BY <1>11, <1>12, <1>13

\* The answer brings the live token to the browser, or takes the cookie away.
LEMMA AnswerRotates ==
    ASSUME Typed, SessionsRotate, NEW s \in Slots, Answer(s)
    PROVE  SessionsRotate'
  <1> DEFINE o == req[s]
             n == req'[s]
  <1>0. /\ Proper(o) /\ o \in Request /\ Step(s) = Command(o) /\ Step(s) = "answer" /\ Moved(s)
        /\ Keeps(s) /\ n = Idle /\ NoToken \notin Tokens
    BY SlotTypes, SessionMoves, SessionKeeps, FinishMoves, AccountsAssumption DEF Answer, At
  <1>1. /\ UNCHANGED <<refresh, root, out>> /\ loose \subseteq loose' /\ RootsKept
    BY <1>0 DEF Keeps, RootsKept
  <1>2. \A u \in Slots : u # s => Alike(req[u], req'[u])
    BY <1>0, SessionMoved
  <1>3. /\ cookie' = NoToken \/ (cookie' = o.token /\ Answering(o))
        /\ Refreshing(o) => Answering(o) /\ o.op = "refresh"
    BY <1>0, AtSession DEF Answer, Answering, Refreshing
  <1>4. o.op = "refresh" /\ root[o.token] \notin loose' =>
               ~\E u \in Others(s, "logout", {"delToken"}) : root[req[u].token] = root[o.token]
    BY DEF Answer, Spoil
  <1> SUFFICES ASSUME NEW r \in Tokens \ loose'
               PROVE  OneToken(r)'
    BY DEF SessionsRotate
  <1>5. OneToken(r) /\ LiveIn(r)' = LiveIn(r) /\ out' = out
    BY <1>1 DEF SessionsRotate, LiveIn, Session
  <1>6. \A u \in Slots \ {s} :
            /\ req'[u].token = req[u].token /\ req'[u].pc = req[u].pc
            /\ Rotates(u, r)' <=> Rotates(u, r)
            /\ Renews(u, r)' <=> Renews(u, r)
            /\ Answers(u, r)' <=> Answers(u, r)
            /\ SignsOut(u, r)' <=> SignsOut(u, r)
    BY <1>1, <1>2, SessionSame
  <1>7. ~Rotates(s, r)' /\ ~Answers(s, r)' /\ ~SignsOut(s, r)'
    BY <1>0, IdleSession DEF Rotates, Answers, SignsOut
  <1>8. /\ \A t, u \in LiveIn(r)' : t = u
        /\ \A u \in Slots : Rotates(u, r)' =>
              LiveIn(r)' \subseteq IF req'[u].pc = 2 THEN {req'[u].token} ELSE {}
        /\ \A t, u \in Slots : Rotates(t, r)' /\ Rotates(u, r)' => t = u
        /\ r \in out' => LiveIn(r)' = {} /\ \A u \in Slots : ~Rotates(u, r)'
        /\ \A u \in Slots : Answers(u, r)' =>
              LiveIn(r)' \subseteq {req'[u].token} /\ \A t \in Slots : ~Rotates(t, r)'
    <2>1. \A u \in Slots : /\ Rotates(u, r)' => u # s /\ Rotates(u, r)
                           /\ Answers(u, r)' => u # s /\ Answers(u, r)
      BY <1>6, <1>7
    <2> QED
      BY <1>5, <1>6, <2>1 DEF OneToken
  <1>9. Browses(r)' => LiveIn(r)' \subseteq {cookie'}
    <2>1. Browses(r)' => Answers(s, r) /\ cookie' = o.token
      BY <1>1, <1>3 DEF Browses, Answers
    <2> QED
      BY <1>5, <2>1 DEF OneToken
  <1>10. \A u \in Slots : SignsOut(u, r)' => LiveIn(r)' \subseteq {req'[u].token} \/ Renewed(r)'
    <2> SUFFICES ASSUME NEW u \in Slots, SignsOut(u, r)'
                 PROVE  LiveIn(r)' \subseteq {req'[u].token} \/ Renewed(r)'
      OBVIOUS
    <2>1. u # s /\ SignsOut(u, r) /\ req'[u].token = req[u].token
      BY <1>6, <1>7
    <2>2. req[u].op = "logout" /\ Step(u) = "delToken" /\ root[req[u].token] = r
      BY <2>1, SlotTypes, SessionAt DEF SignsOut
    <2>3. ~Renews(s, r)
      <3> SUFFICES ASSUME Renews(s, r)
                   PROVE  FALSE
        OBVIOUS
      <3>1. o.op = "refresh" /\ root[o.token] = r
        BY DEF Renews, Refreshing
      <3>2. u \in Others(s, "logout", {"delToken"})
        BY <2>1, <2>2 DEF Others
      <3> QED
        BY <1>4, <2>2, <3>1, <3>2
    <2>4. Renewed(r) => Renewed(r)'
      BY <1>6, <2>3 DEF Renewed
    <2> QED
      BY <1>5, <2>1, <2>4 DEF OneToken
  <1> QED
    BY <1>8, <1>9, <1>10 DEF OneToken

\* A step that leaves every request with its session keeps the sessions.
LEMMA AlikeRotates ==
    ASSUME Typed, SessionsRotate, UNCHANGED <<root, out, cookie>>, loose \subseteq loose',
           \A t \in Tokens : refresh'[t] # NoHost => refresh[t] # NoHost,
           \A u \in Slots : Alike(req[u], req'[u])
    PROVE  SessionsRotate'
  <1> SUFFICES ASSUME NEW r \in Tokens \ loose'
               PROVE  OneToken(r)'
    BY DEF SessionsRotate
  <1>1. RootsKept /\ OneToken(r) /\ LiveIn(r)' \subseteq LiveIn(r) /\ (Browses(r)' <=> Browses(r))
    BY DEF SessionsRotate, LiveIn, Session, Browses, RootsKept
  <1>2. \A u \in Slots :
            /\ req'[u].token = req[u].token /\ req'[u].pc = req[u].pc
            /\ Rotates(u, r)' <=> Rotates(u, r)
            /\ Renews(u, r)' <=> Renews(u, r)
            /\ Answers(u, r)' <=> Answers(u, r)
            /\ SignsOut(u, r)' <=> SignsOut(u, r)
    BY <1>1, SessionSame
  <1>3. Renewed(r) => Renewed(r)'
    BY <1>2 DEF Renewed
  <1> QED
    BY <1>1, <1>2, <1>3, SessionFrame

\* So does a request that moves outside of its session, and one that gives up,
\* unless it held a live token.
LEMMA MovedRotates ==
    ASSUME Typed, SessionsRotate, NEW s \in Slots, Moved(s),
           UNCHANGED <<refresh, root, out, cookie>>, loose \subseteq loose',
           ~Rotating(req'[s]) /\ ~Answering(req'[s]),
           Refreshing(req[s]) =>
               \/ Rotating(req[s]) /\ req[s].pc = 3
               \/ root[req[s].token] \in loose'
    PROVE  SessionsRotate'
  <1> SUFFICES ASSUME NEW r \in Tokens \ loose'
               PROVE  OneToken(r)'
    BY DEF SessionsRotate
  <1>1. RootsKept /\ OneToken(r) /\ LiveIn(r)' = LiveIn(r) /\ (Browses(r)' <=> Browses(r))
    BY DEF SessionsRotate, LiveIn, Session, Browses, RootsKept
  <1>2. \A u \in Slots \ {s} :
            /\ req'[u].token = req[u].token /\ req'[u].pc = req[u].pc
            /\ Rotates(u, r)' <=> Rotates(u, r)
            /\ Renews(u, r)' <=> Renews(u, r)
            /\ Answers(u, r)' <=> Answers(u, r)
            /\ SignsOut(u, r)' <=> SignsOut(u, r)
    BY <1>1, SessionSame, SessionMoved
  <1>3. ~Rotates(s, r)' /\ ~Answers(s, r)' /\ ~SignsOut(s, r)'
    BY SessionMoved DEF Rotates, Answers, SignsOut
  <1>4. Renews(s, r) => LiveIn(r)' = {}
    <2>1. Renews(s, r) => Rotates(s, r) /\ req[s].pc = 3
      BY DEF Renews, Rotates
    <2> QED
      BY <1>1, <2>1 DEF OneToken
  <1>5. Renewed(r) => Renewed(r)' \/ LiveIn(r)' = {}
    BY <1>2, <1>4 DEF Renewed
  <1> QED
    BY <1>1, <1>2, <1>3, <1>5, SessionFrame

\* Every step keeps the sessions.
LEMMA SessionsNext ==
    ASSUME Typed, TokensPrivate, SessionsRotate, [Next]_vars
    PROVE  SessionsRotate'
  <1>0. \A u \in Slots : /\ req[u] \in Request /\ Proper(req[u]) /\ Step(u) = Command(req[u])
                         /\ Alike(req[u], req[u])
    BY SlotTypes DEF Alike
  <1>1. CASE UNCHANGED <<req, refresh, root, out, cookie, loose>>
    BY <1>0, <1>1, AlikeRotates
  <1>2. ASSUME NEW s \in Slots, Start(s)
        PROVE  SessionsRotate'
    <2>1. Begun(s) /\ UNCHANGED <<refresh, root, out, cookie, loose>>
      BY <1>2, StartBegins DEF Begun, Unchanged, redis, browser
    <2>2. \A u \in Slots \ {s} : Alike(req[u], req'[u])
      BY <1>0, <2>1 DEF Begun
    <2>3. /\ ~Rotating(req'[s]) /\ ~Answering(req'[s])
          /\ SigningOut(req'[s]) => req'[s].token = cookie /\ cookie # NoToken
      BY <2>1, AtSession DEF Begun, Rotating, Answering, SigningOut
    <2>4. ~Refreshing(req[s])
      BY <2>1 DEF Begun, Refreshing
    <2> SUFFICES ASSUME NEW r \in Tokens \ loose'
                 PROVE  OneToken(r)'
      BY DEF SessionsRotate
    <2>5. RootsKept /\ OneToken(r) /\ LiveIn(r)' = LiveIn(r) /\ (Browses(r)' <=> Browses(r))
      BY <2>1 DEF SessionsRotate, LiveIn, Session, Browses, RootsKept
    <2>6. \A u \in Slots \ {s} :
              /\ req'[u].token = req[u].token /\ req'[u].pc = req[u].pc
              /\ Rotates(u, r)' <=> Rotates(u, r)
              /\ Renews(u, r)' <=> Renews(u, r)
              /\ Answers(u, r)' <=> Answers(u, r)
              /\ SignsOut(u, r)' <=> SignsOut(u, r)
      BY <2>2, <2>5, SessionSame
    <2>7. /\ ~Rotates(s, r)' /\ ~Answers(s, r)' /\ ~Renews(s, r)
          /\ SignsOut(s, r)' => Browses(r) /\ req'[s].token = cookie
      BY <2>1, <2>3, <2>4 DEF Rotates, Answers, Renews, SignsOut, Browses
    <2>8. Renewed(r) => Renewed(r)'
      BY <2>6, <2>7 DEF Renewed
    <2> QED
      BY <2>1, <2>5, <2>6, <2>7, <2>8, SessionFrame
  <1>3. ASSUME NEW s \in Slots, Handler(s)
        PROVE  SessionsRotate'
    <2>1. Keeps(s) /\ Moved(s)
      BY <1>3, HandlerKeeps, HandlerMoves
    <2>2. CASE Step(s) \in {"getToken", "delToken", "issue", "answer"}
      BY <1>3, <2>2, HandlerIs, GetRotates, DeleteRotates, IssueRotates, AnswerRotates
    <2>3. CASE Step(s) \notin {"getToken", "delToken", "issue", "answer"}
      <3>1. ~Rotating(req'[s]) /\ ~Answering(req'[s]) /\ ~Refreshing(req[s])
        BY <1>0, <2>1, <2>3, SessionMoved, SessionAt
      <3> QED
        BY <2>1, <2>3, <3>1, MovedRotates DEF Keeps
    <2> QED
      BY <2>2, <2>3
  <1>4. ASSUME NEW s \in Slots, CommandFails(s)
        PROVE  SessionsRotate'
    <2>1. /\ Moved(s) /\ UNCHANGED <<refresh, root, out, cookie>>
          /\ loose' = loose \cup Spoilt(s) /\ Step(s) # "answer"
      BY <1>4, FailMoves DEF CommandFails, Unchanged, redis, browser, Spoil, Local
    <2>2. Step(s) \in {"getToken", "issue"} => req'[s] = Idle
      BY <1>4, FailMoves DEF AfterFailure, At, Ignored
    <2>3. Refreshing(req[s]) =>
              \/ Rotating(req[s]) /\ req[s].pc = 3
              \/ root[req[s].token] \in loose'
      <3>1. Step(s) = "delToken" => root[req[s].token] \in loose'
        BY <2>1 DEF Spoilt, At
      <3>2. Refreshing(req[s]) /\ Step(s) # "delToken" => Rotating(req[s]) /\ req[s].pc = 3
        BY <1>0, <2>1, SessionAt, AtSession
      <3> QED
        BY <3>1, <3>2
    <2>4. ~Answering(req'[s])
      BY <2>1, <2>2, SessionMoved, IdleSession
    <2>5. CASE ~Rotating(req'[s])
      BY <2>1, <2>3, <2>4, <2>5, MovedRotates
    <2>6. CASE Rotating(req'[s])
      <3> SUFFICES ASSUME NEW r \in Tokens \ loose'
                   PROVE  OneToken(r)'
        BY DEF SessionsRotate
      <3>1. /\ Step(s) = "delToken" /\ req'[s].token = req[s].token
            /\ root[req[s].token] # r
        BY <2>1, <2>2, <2>6, SessionMoved, IdleSession DEF Spoilt, At
      <3>2. RootsKept /\ OneToken(r) /\ LiveIn(r)' = LiveIn(r) /\ (Browses(r)' <=> Browses(r))
        BY <2>1 DEF SessionsRotate, LiveIn, Session, Browses, RootsKept
      <3>3. \A u \in Slots \ {s} :
                /\ req'[u].token = req[u].token /\ req'[u].pc = req[u].pc
                /\ Rotates(u, r)' <=> Rotates(u, r)
                /\ Renews(u, r)' <=> Renews(u, r)
                /\ Answers(u, r)' <=> Answers(u, r)
                /\ SignsOut(u, r)' <=> SignsOut(u, r)
        BY <2>1, <3>2, SessionSame, SessionMoved
      <3>4. ~Rotates(s, r)' /\ ~Answers(s, r)' /\ ~SignsOut(s, r)' /\ ~Renews(s, r)
        BY <2>1, <2>4, <3>1, SessionMoved DEF Rotates, Answers, SignsOut, Renews
      <3>5. Renewed(r) => Renewed(r)'
        BY <3>3, <3>4 DEF Renewed
      <3> QED
        BY <2>1, <3>2, <3>3, <3>4, <3>5, SessionFrame
    <2> QED
      BY <2>5, <2>6
  <1>5. CASE Letters
    BY <1>1, <1>5, LettersKeep DEF redis, browser
  <1>6. CASE KeyExpires
    <2>1. /\ UNCHANGED <<req, root, out, cookie, loose>>
          /\ \A t \in Tokens : refresh'[t] # NoHost => refresh[t] # NoHost
      BY <1>6 DEF KeyExpires, browser, Typed, StoreTypes
    <2> QED
      BY <1>0, <2>1, AlikeRotates
  <1>7. CASE Crash
    <2>1. /\ UNCHANGED <<refresh, root, out, cookie>>
          /\ \A u \in Slots : req[u].op = "refresh" /\ Step(u) \in Holding =>
                                  root[req[u].token] \in loose'
          /\ loose \subseteq loose'
      BY <1>7 DEF Crash, redis, browser
    <2> SUFFICES ASSUME NEW r \in Tokens \ loose'
                 PROVE  OneToken(r)'
      BY DEF SessionsRotate
    <2>2. OneToken(r) /\ LiveIn(r)' = LiveIn(r) /\ (Browses(r)' <=> Browses(r))
      BY <2>1 DEF SessionsRotate, LiveIn, Session, Browses
    <2>3. \A u \in Slots : ~Rotates(u, r)' /\ ~Answers(u, r)' /\ ~SignsOut(u, r)'
      BY <1>7, CrashTyped, IdleSession DEF Rotates, Answers, SignsOut
    <2>4. ~Renewed(r)
      BY <1>0, <2>1, SessionAt DEF Renewed, Renews, Holding
    <2> QED
      BY <2>1, <2>2, <2>3, <2>4, SessionFrame
  <1>8. ASSUME NEW e \in Entries, GetRecoveryToken(e) \/ EntryChanges(e)
        PROVE  SessionsRotate'
    <2>1. UNCHANGED <<req, refresh, root, out, cookie>> /\ loose \subseteq loose'
      BY <1>8 DEF GetRecoveryToken, EntryChanges, browser, Spoil
    <2> QED
      BY <1>0, <2>1, AlikeRotates
  <1>9. ASSUME NEW k \in Contacts, LockLapses(k)
        PROVE  SessionsRotate'
    BY <1>9, LapseTyped, AlikeRotates DEF LockLapses, browser
  <1>10. ASSUME NEW k \in SUBSET Contacts, AddEntry(k)
        PROVE  SessionsRotate'
    BY <1>0, <1>10, AddTyped, AlikeRotates DEF redis, browser
  <1> QED
    BY <1>1, <1>2, <1>3, <1>4, <1>5, <1>6, <1>7, <1>8, <1>9, <1>10
       DEF Next, Environment, vars, redis, browser, history

-----------------------------------------------------------------------------
(* The invariant, and what follows from it *)

\* At first there is no request, and nothing has been accepted, claimed, joined,
\* set or sent.
LEMMA InitParts ==
    ASSUME Init
    PROVE  IInv
  <1>0. Typed
    BY InitTyped
  <1>1. \A s \in Slots : /\ req[s].op = "none" /\ Command(req[s]) = "idle"
                         /\ req[s].token = NoToken
    <2>1. req = [s \in Slots |-> Idle]
      BY DEF Init
    <2> QED
      BY <2>1, IdleProper
  <1>2. LinksSpent
    <2>1. uses = [l \in Links |-> 0]
      BY DEF Init
    <2> QED
      BY <1>1, <2>1 DEF LinksSpent, LinkUsedOnce, Accepted, Asks
  <1>3. TokensPrivate
    BY <1>1 DEF TokensPrivate, Answering
  <1>4. SessionsRotate
    <2>1. PICK signedIn \in BOOLEAN :
             /\ refresh = [t \in Tokens |->
                    IF signedIn /\ t = First(Tokens) THEN First(Hosts) ELSE NoHost]
             /\ cookie = IF signedIn THEN First(Tokens) ELSE NoToken
      BY DEF Init
    <2>2. out = {}
      BY DEF Init
    <2>3. ASSUME NEW r \in Tokens
          PROVE  OneToken(r)
      <3>1. \A t \in LiveIn(r) : signedIn /\ t = First(Tokens) /\ cookie = t
        BY <2>1 DEF LiveIn, Session
      <3>2. \A s \in Slots : ~Rotates(s, r) /\ ~Answers(s, r) /\ ~SignsOut(s, r)
        BY <1>1 DEF Rotates, Rotating, Answers, Answering, SignsOut, SigningOut
      <3> QED
        BY <2>2, <3>1, <3>2 DEF OneToken
    <2> QED
      BY <2>3 DEF SessionsRotate
  <1>5. QueueOwned
    <2>1. owner = NoHost /\ NoHost \notin Hosts
      BY AccountsAssumption DEF Init
    <2> QED
      BY <1>1, <2>1 DEF QueueOwned, DropsHost, ReSyncs
  <1>6. GuestsApart
    <2>1. entry = [e \in Entries |-> NoEntryDoc] /\ NoEntryDoc.st = "none"
      BY DEF Init, NoEntryDoc
    <2> QED
      BY <1>1, <2>1 DEF GuestsApart, Joining, Passed, Holds, InQueue
  <1>7. SlugApart
    <2>1. PICK stored \in {{}, {First(Hosts)}} \cup {H \in SUBSET Hosts : Cardinality(H) = 2},
               i \in {NoIdent, First(Idents)} :
           host = [h \in Hosts |->
                IF h \notin stored THEN NoDoc
                ELSE IF h # First(Hosts) THEN [NoDoc EXCEPT !.st = "stored"]
                ELSE [NoDoc EXCEPT !.st = "stored", !.email = TRUE, !.ident = i]]
      BY DEF Init
    <2>2. /\ ~NoDoc.slug /\ ~[NoDoc EXCEPT !.st = "stored"].slug
          /\ ~[NoDoc EXCEPT !.st = "stored", !.email = TRUE, !.ident = i].slug
      BY DEF NoDoc
    <2>3. \A h \in Hosts : ~host[h].slug
      BY <2>1, <2>2
    <2> QED
      BY <1>1, <2>3 DEF SlugApart, HasSlug, SetsSlug
  <1>8. RecoveryMarked
    <2>1. marked = {}
      BY DEF Init
    <2>2. \A e \in Entries, i \in Nat : ~IsRecovery(i, e)
      <3>1. PICK asked \in BOOLEAN :
               letters = IF asked
                         THEN <<[kind |-> "link", of |-> First(Links), st |-> "delivered",
                                 tries |-> 0]>>
                         ELSE <<>>
        BY DEF Init
      <3> QED
        BY <3>1 DEF IsRecovery
    <2> QED
      BY <1>1, <2>1, <2>2 DEF RecoveryMarked, Mails
  <1> QED
    BY <1>0, <1>2, <1>3, <1>4, <1>5, <1>6, <1>7, <1>8 DEF IInv

\* Every reachable state has the inductive invariant: the types, and the parts.
THEOREM Invariance == Spec => []IInv
  <1>1. IInv /\ [Next]_vars => IInv'
    BY TypedNext, LinksNext, PrivateNext, SessionsNext, QueueNext, GuestsNext, SlugNext,
       RecoveryNext DEF IInv
  <1> QED
    BY <1>1, InitParts, PTL DEF Spec

\* A set without two different elements.
LEMMA AtMostOne ==
    ASSUME NEW S, \A x, y \in S : x = y
    PROVE  Cardinality(S) = 0 \/ (Cardinality(S) = 1 /\ S # {})
  <1>1. CASE S = {}
    BY <1>1, FS_EmptySet
  <1>2. CASE S # {}
    <2>1. PICK x \in S : S = {x}
      BY <1>2
    <2> QED
      BY <2>1, FS_Singleton
  <1> QED
    BY <1>1, <1>2

\* A magic link signs in once, and a session has at most one live refresh token and
\* none after it was signed out; but for what two requests at the same time, a
\* failed DEL or a lost answer have touched.
THEOREM SessionsAreSound == Spec => []SessionsSound
  <1>1. IInv => SessionsSound
    <2> SUFFICES ASSUME IInv, NEW r \in Tokens \ loose
                 PROVE  LET L == {t \in Session(r) : refresh[t] # NoHost}
                        IN  Cardinality(L) <= (IF r \in out THEN 0 ELSE 1)
      BY DEF IInv, LinksSpent, SessionsSound, OneTokenPerSession
    <2>1. OneToken(r)
      BY DEF IInv, SessionsRotate
    <2>2. /\ \A t, u \in LiveIn(r) : t = u
          /\ r \in out => LiveIn(r) = {}
      BY <2>1 DEF OneToken
    <2>3. Cardinality(LiveIn(r)) <= (IF r \in out THEN 0 ELSE 1)
      BY <2>2, AtMostOne, FS_EmptySet
    <2> QED
      BY <2>3 DEF LiveIn
  <1> QED
    BY <1>1, Invariance, PTL

\* A claimed queue belongs to an account that exists, and the token of its
\* anonymous host is gone or about to be deleted; unless the claim was overtaken or
\* failed half-way.
THEOREM ClaimIsSound == Spec => []ClaimSound
  <1>1. IInv => ClaimSound
    <2> SUFFICES ASSUME IInv, owner \in Hosts, "queue" \notin loose
                 PROVE  Stored(owner) /\ (anonKey => \E s \in Slots : At(s, "forget"))
      BY DEF ClaimSound
    <2>1. Stored(owner) /\ (anonKey => \E s \in Slots : Forgets(req[s]))
      BY DEF IInv, QueueOwned
    <2>2. \A s \in Slots : Forgets(req[s]) => At(s, "forget")
      BY SlotTypes, AtAccount DEF IInv, Forgets, At
    <2> QED
      BY <2>1, <2>2
  <1> QED
    BY <1>1, Invariance, PTL

\* Two guests in the queue, arrived or not, have no contact in common and two
\* accounts not both the slug; but for what two requests at the same time, a lost
\* lock, a failed check, an update, the host's own adding, an arrival or a return
\* have touched.
THEOREM ContactsHeldOnce == Spec => []HeldOnce
  <1>1. IInv => HeldOnce
    <2> SUFFICES ASSUME IInv
                 PROVE  HeldOnce
      OBVIOUS
    <2>1. ASSUME NEW e \in Entries \ loose, NEW f \in Entries \ loose, e # f, InQueue(e), InQueue(f),
                 NEW k \in entry[e].contacts, k \in entry[f].contacts
          PROVE  FALSE
      <3>1. k \in Contacts
        BY DEF IInv, Typed, StoreTypes, Entry
      <3>2. Holds(e, k) /\ Holds(f, k)
        BY <2>1 DEF Holds
      <3> QED
        BY <2>1, <3>1, <3>2 DEF IInv, GuestsApart
    <2>2. ASSUME NEW g \in StoredHosts \ loose, NEW h \in StoredHosts \ loose,
                 host[g].slug, host[h].slug
          PROVE  g = h
      BY <2>2 DEF IInv, SlugApart, HasSlug, StoredHosts
    <2> QED
      BY <2>1, <2>2 DEF HeldOnce
  <1> QED
    BY <1>1, Invariance, PTL

\* An entry gets one recovery letter at most, and an entry that is marked has got
\* it or is about to; unless the process stopped or the mark could not be taken
\* back.
THEOREM RecoveryIsSound == Spec => []RecoverySound
  <1>1. IInv => RecoverySound
    <2> SUFFICES ASSUME IInv, NEW e \in Entries
                 PROVE  /\ Cardinality({i \in DOMAIN letters :
                             letters[i].kind = "recovery" /\ letters[i].of = e}) <= 1
                        /\ e \in marked =>
                             \/ Posted("recovery", e) \/ e \in unmailed
                             \/ \E s \in Slots : /\ req[s].entry = e
                                                 /\ Step(s) \in {"token", "mailToken", "unmark"}
      BY DEF RecoverySound
    <2>0. RecoveryMarked /\ DOMAIN letters \subseteq Nat
      BY DEF IInv, Typed, MailTypes
    <2> DEFINE I == {i \in DOMAIN letters :
                        letters[i].kind = "recovery" /\ letters[i].of = e}
    <2>1. \A i, j \in I : i = j
      BY <2>0 DEF RecoveryMarked, IsRecovery
    <2>2. Cardinality(I) <= 1
      <3> HIDE DEF I
      <3> QED
        BY <2>1, AtMostOne
    <2>3. ASSUME e \in marked
          PROVE  \/ Posted("recovery", e) \/ e \in unmailed
                 \/ \E s \in Slots : /\ req[s].entry = e
                                     /\ Step(s) \in {"token", "mailToken", "unmark"}
      <3>1. \/ \E i \in Nat : IsRecovery(i, e)
            \/ e \in unmailed
            \/ \E s \in Slots : Mails(req[s]) /\ req[s].entry = e
        BY <2>0, <2>3 DEF RecoveryMarked
      <3>2. (\E i \in Nat : IsRecovery(i, e)) => Posted("recovery", e)
        BY DEF IsRecovery, Posted
      <3>3. \A s \in Slots : Mails(req[s]) => Step(s) \in {"token", "mailToken", "unmark"}
        BY SlotTypes DEF IInv, Mails
      <3> QED
        BY <3>1, <3>2, <3>3
    <2> QED
      BY <2>2, <2>3
  <1> QED
    BY <1>1, Invariance, PTL
=============================================================================
