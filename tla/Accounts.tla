------------------------------ MODULE Accounts ------------------------------
(***************************************************************************)
(* Who people are: hosts signing in by magic link or by a social identity, *)
(* their sessions, the claim of an anonymous queue and the deletion of an  *)
(* account; guests joining a queue under the join lock, or added to it by  *)
(* the host, and the recovery links they get; and the e-mail job that      *)
(* carries the letters of both.                                            *)
(*                                                                         *)
(* One e-mail address, one slug, one anonymous queue and one browser of a  *)
(* host stand for all; a request is a sequence of commands on MongoDB and  *)
(* Redis (Steps), and the requests in `req' interleave.                    *)
(***************************************************************************)
EXTENDS Naturals, Sequences, FiniteSets, FiniteSetsExt

CONSTANTS
    Hosts,          \* the ids of accounts, each is created at most once
    Idents,         \* the user ids at the social provider
    Links,          \* the tokens of magic links
    Tokens,         \* the refresh tokens
    Entries,        \* the ids of queue entries
    Slots,          \* slots for requests that are served concurrently
    NoHost, Deleted, NoIdent, NoLink, NoToken, NoEntry, NoSlot,
    MailCap,        \* the capacity of the e-mail job's channel
    MaxRetries,     \* maxRetries of the e-mail job
    Scenarios,      \* bound: each behaviour has the requests and events of one of these
    MaxTurns        \* bound: how many of them it has

Requests == {"askLink", "verify", "social", "refresh", "logout", "slug", "deleteMe",
             "claim", "anon", "join", "update", "recover"}
Events == {"addEntry", "recoveryToken", "presence", "lapse", "expire", "bounce", "fail", "crash"}

ASSUME AccountsAssumption ==
    /\ IsFiniteSet(Slots) /\ IsFiniteSet(Entries)
    /\ {} \notin {Hosts, Idents, Links, Tokens}
    /\ NoHost # Deleted /\ {NoHost, Deleted} \cap Hosts = {}
    /\ NoIdent \notin Idents /\ NoLink \notin Links /\ NoToken \notin Tokens
    /\ NoEntry \notin Entries /\ NoSlot \notin Slots
    /\ MailCap \in Nat \ {0} /\ MaxRetries \in Nat /\ MaxTurns \in Nat
    /\ Scenarios \subseteq SUBSET (Requests \cup Events)

VARIABLES
    \* MongoDB
    host,      \* the account documents
    owner,     \* host_id of the queue; NoHost while it is anonymous, Deleted when gone
    entry,     \* the entry documents
    marked,    \* entries with recovery_email_sent_at
    \* Redis
    link,      \* the magic:{token} keys
    refresh,   \* refresh:{token}: the host it is of, or NoHost
    anonKey,   \* anon_host:{queue} holds the hash of the anonymous host's token
    lock,      \* lock:join:{queue}:{contact}: its owner
    sess,      \* the session keys of entries
    recov,     \* how many recovery:{hash} keys each entry has
    \* the e-mail job
    letters,   \* every letter dispatched, and what has become of it
    outbox,    \* taskChan: indexes of letters
    \* the browser of the host
    cookie,    \* refresh_token
    access,    \* the host of access_token
    \* the server
    req,       \* the request in each slot
    \* history
    scenario, turns,
    root,      \* the first refresh token of the session that a token belongs to
    uses,      \* how often a magic link has been accepted
    out,       \* sessions, by their first token, that were signed out
    loose,     \* what a race or a failure that the code lets pass has touched
    unmailed   \* entries whose recovery letter a crash or a second failure ate

mongo == <<host, owner, entry, marked>>
redis == <<link, refresh, anonKey, lock, sess, recov>>
mail == <<letters, outbox>>
browser == <<cookie, access>>
history == <<scenario, turns, root, uses, out, loose, unmailed>>
vars == <<mongo, redis, mail, browser, req, history>>

Contacts == {"email", "phone"}

\* email: it has the e-mail address; ident: the social identity linked to it;
\* slug: it has the slug.
Host == [st : {"none", "stored", "gone"}, email : BOOLEAN,
         ident : Idents \cup {NoIdent}, slug : BOOLEAN]
NoDoc == [st |-> "none", email |-> FALSE, ident |-> NoIdent, slug |-> FALSE]

\* live: WAITING, CALLED or IDLE; over: SERVED, LEFT or SKIPPED.  joined: by the
\* guest herself, who is sent the token of the entry, and not added by the host.
Entry == [st : {"none", "live", "arrived", "over"}, contacts : SUBSET Contacts,
          joined : BOOLEAN]
NoEntryDoc == [st |-> "none", contacts |-> {}, joined |-> FALSE]

Letter == [kind : {"link", "welcome", "farewell", "recovery"},
           of : Links \cup Hosts \cup Entries,
           st : {"queued", "sending", "backoff", "delivered", "givenUp", "dropped", "lost"},
           tries : 0..MaxRetries]

\* Mutant: the new pair is issued before the old token is deleted.
RefreshStepsIssueFirst == <<"getToken", "issue", "delToken", "answer">>

RefreshSteps == <<"getToken", "delToken", "issue", "answer">>

\* Mutant: the duplicates are counted before the lock is taken.
JoinStepsCountFirst ==
    <<"dupEmail", "dupPhone", "lock", "insertEntry", "session", "unlock",
      "mark", "token", "mailToken", "unmark">>

JoinSteps == <<"lock", "dupEmail", "dupPhone", "insertEntry", "session", "unlock",
               "mark", "token", "mailToken", "unmark">>

\* The commands of each request, in order.  FindOrCreateHost welcomes the host
\* that it has created, and so does Verify.
Steps ==
  [askLink |-> <<"method", "storeLink", "mailLink">>,
   verify |-> <<"getLink", "delLink", "findEmail", "insertHost", "greet", "greet",
                "issue", "answer", "refind">>,
   social |-> <<"findIdent", "findEmail", "insertHost", "greet", "issue", "answer",
                "refind", "linkIdent">>,
   refresh |-> RefreshSteps,
   logout |-> <<"delToken", "answer">>,
   slug |-> <<"slugFree", "setSlug">>,
   deleteMe |-> <<"readMe", "farewell", "dropQueues", "dropHost", "farewellAgain", "answer">>,
   claim |-> <<"anonOwner", "claimer", "queue", "claim", "forget">>,
   anon |-> <<"anonOwner", "anonQueue", "resync">>,
   join |-> JoinSteps,
   update |-> <<"known", "updateEntry", "mark", "token", "mailToken", "unmark">>,
   recover |-> <<"claimToken", "rejoin">>,
   none |-> <<"idle">>]

\* host: the host that was found, or that asks; token: the refresh token sent,
\* then the one issued; verified: the provider vouches for the e-mail; loose: what
\* this request has checked has been overtaken.
Request ==
    [op : Requests \cup {"none"}, pc : 1..11, host : Hosts \cup {NoHost},
     token : Tokens \cup {NoToken}, link : Links \cup {NoLink},
     ident : Idents \cup {NoIdent}, verified : BOOLEAN,
     entry : Entries \cup {NoEntry}, contacts : SUBSET Contacts, loose : BOOLEAN]
Idle == [op |-> "none", pc |-> 1, host |-> NoHost, token |-> NoToken, link |-> NoLink,
         ident |-> NoIdent, verified |-> FALSE, entry |-> NoEntry, contacts |-> {},
         loose |-> FALSE]

TypeOK ==
    /\ host \in [Hosts -> Host]
    /\ owner \in Hosts \cup {NoHost, Deleted}
    /\ entry \in [Entries -> Entry]
    /\ marked \subseteq Entries /\ sess \subseteq Entries /\ unmailed \subseteq Entries
    /\ link \in [Links -> {"none", "live", "spent"}]
    /\ refresh \in [Tokens -> Hosts \cup {NoHost}]
    /\ anonKey \in BOOLEAN
    /\ lock \in [Contacts -> Slots \cup {NoSlot}]
    /\ recov \in [Entries -> Nat]
    /\ letters \in Seq(Letter)
    /\ outbox \in Seq(DOMAIN letters) /\ Len(outbox) <= MailCap
    /\ cookie \in Tokens \cup {NoToken} /\ access \in Hosts \cup {NoHost}
    /\ req \in [Slots -> Request]
    /\ \A s \in Slots : req[s].pc \in DOMAIN Steps[req[s].op]
    /\ scenario \in Scenarios /\ turns \in 0..MaxTurns
    /\ root \in [Tokens -> Tokens \cup {NoToken}]
    /\ uses \in [Links -> Nat]
    /\ out \subseteq Tokens
    /\ loose \subseteq Tokens \cup Links \cup Entries \cup Hosts \cup {"queue"}

\* Ids are alike: which one is the first does not matter.
First(S) == CHOOSE x \in S : TRUE

\* At first there is no account, or one or two of which the first has the e-mail
\* address, perhaps a linked identity, and may be signed in; a link has been
\* asked for, or not; the queue is anonymous.  Bound: what the scenario does not
\* touch is not there.
Init ==
    /\ scenario \in Scenarios
    /\ \E stored \in {{}, {First(Hosts)}} \cup {H \in SUBSET Hosts : Cardinality(H) = 2},
          i \in {NoIdent, First(Idents)}, signedIn \in BOOLEAN :
         /\ IF stored = {} THEN i = NoIdent /\ ~signedIn ELSE First(Hosts) \in stored
         /\ Cardinality(stored) = 2 => "slug" \in scenario
         /\ signedIn => scenario \cap {"refresh", "logout", "deleteMe", "claim"} # {}
         /\ i # NoIdent => "social" \in scenario
         /\ scenario \cap {"join", "update", "recover"} # {} => stored = {}
         /\ host = [h \in Hosts |->
                IF h \notin stored THEN NoDoc
                ELSE IF h # First(Hosts) THEN [NoDoc EXCEPT !.st = "stored"]
                ELSE [NoDoc EXCEPT !.st = "stored", !.email = TRUE, !.ident = i]]
         /\ refresh = [t \in Tokens |->
                IF signedIn /\ t = First(Tokens) THEN First(Hosts) ELSE NoHost]
         /\ root = [t \in Tokens |->
                IF signedIn /\ t = First(Tokens) THEN t ELSE NoToken]
         /\ cookie = IF signedIn THEN First(Tokens) ELSE NoToken
         /\ access = IF signedIn THEN First(Hosts) ELSE NoHost
    /\ \E asked \in BOOLEAN :
         /\ asked => "verify" \in scenario
         /\ link = [l \in Links |-> IF asked /\ l = First(Links) THEN "live" ELSE "none"]
         /\ letters = IF asked
                      THEN <<[kind |-> "link", of |-> First(Links), st |-> "delivered",
                              tries |-> 0]>>
                      ELSE <<>>
    /\ owner = NoHost /\ anonKey = TRUE
    /\ entry = [e \in Entries |-> NoEntryDoc]
    /\ marked = {} /\ sess = {} /\ recov = [e \in Entries |-> 0]
    /\ lock = [k \in Contacts |-> NoSlot]
    /\ outbox = <<>>
    /\ req = [s \in Slots |-> Idle]
    /\ turns = 0
    /\ uses = [l \in Links |-> 0] /\ out = {} /\ loose = {} /\ unmailed = {}
-----------------------------------------------------------------------------
(* Helpers *)

Step(s) == Steps[req[s].op][req[s].pc]
At(s, l) == Step(s) = l
Index(op, l) == Min({i \in DOMAIN Steps[op] : Steps[op][i] = l})

Onward(r) == IF r.pc = Len(Steps[r.op]) THEN Idle ELSE [r EXCEPT !.pc = @ + 1]
JumpedTo(r, l) == [r EXCEPT !.pc = Index(r.op, l)]
Become(s, r) == req' = [req EXCEPT ![s] = r]
Continue(s) == Become(s, Onward(req[s]))
Jump(s, l) == Become(s, JumpedTo(req[s], l))
Finish(s) == Become(s, Idle)

Ask(x) == x \in scenario
Turn == turns < MaxTurns /\ turns' = turns + 1

\* Spoil(X, c): if c, what is in X is from now on touched by a race or failure.
Spoil(X, c) == loose' = IF c THEN loose \cup X ELSE loose

\* Other requests of kind op that are about to take one of the steps L.
Others(s, op, L) == {r \in Slots \ {s} : req[r].op = op /\ Step(r) \in L}

Stored(h) == h \in Hosts /\ host[h].st = "stored"
Live(e) == entry[e].st = "live"
InQueue(e) == entry[e].st \in {"live", "arrived"}
StoredHosts == {h \in Hosts : Stored(h)}
WithEmail == {h \in StoredHosts : host[h].email}
WithIdent(i) == {h \in StoredHosts : host[h].ident = i}

\* The document that a request found, and none if there is none.
FoundIn(H) == IF H = {} THEN NoHost ELSE CHOOSE h \in H : TRUE

\* Job.Dispatch: a letter that finds the channel full is dropped.
Post(kind, of) ==
    LET full == Len(outbox) >= MailCap
    IN  /\ letters' = Append(letters, [kind |-> kind, of |-> of, tries |-> 0,
                                       st |-> IF full THEN "dropped" ELSE "queued"])
        /\ outbox' = IF full THEN outbox ELSE Append(outbox, Len(letters) + 1)

\* The letter of a kind has been sent, and arrived, at least once.
Posted(kind, of) == \E i \in DOMAIN letters : letters[i].kind = kind /\ letters[i].of = of
Arrived(kind, of) == \E i \in DOMAIN letters :
    letters[i].kind = kind /\ letters[i].of = of /\ letters[i].st = "delivered"

Unchanged == UNCHANGED <<mongo, redis, mail, browser>>
UnchangedHistory == UNCHANGED <<scenario, turns, root, uses, out, unmailed>>
-----------------------------------------------------------------------------
(* Requests begin *)

\* Slots are alike: a request takes the first one that is free.
Begin(s, op, r) ==
    /\ Ask(op) /\ req[s].op = "none"
    /\ s = CHOOSE t \in Slots : req[t].op = "none"
    /\ Turn
    /\ Become(s, [r EXCEPT !.op = op])
    /\ Unchanged /\ UNCHANGED <<root, uses, out, unmailed, scenario, loose>>

\* The token of a link is a new uuid.
FreshLinks == {l \in Links : link[l] = "none" /\ \A r \in Slots : req[r].link # l}

\* A link is followed from the letter, once or more; mail programs do so too.
StartSignIn(s) ==
    \/ \E l \in Links :
         \/ l \in FreshLinks /\ l = First(FreshLinks)
            /\ Begin(s, "askLink", [Idle EXCEPT !.link = l])
         \/ Arrived("link", l) /\ Begin(s, "verify", [Idle EXCEPT !.link = l, !.verified = TRUE])
    \/ \E i \in Idents, vouched \in BOOLEAN :
         Begin(s, "social", [Idle EXCEPT !.ident = i, !.verified = vouched])

\* What the browser does with its cookies, when it has them.
StartSession(s) ==
    \/ /\ cookie # NoToken
       /\ \/ Begin(s, "refresh", [Idle EXCEPT !.token = cookie])
          \/ Begin(s, "logout", [Idle EXCEPT !.token = cookie])
    \/ /\ access # NoHost
       /\ \/ Begin(s, "deleteMe", [Idle EXCEPT !.host = access])
          \/ Begin(s, "claim", [Idle EXCEPT !.host = access])
    \/ Begin(s, "anon", Idle)
    \/ \E h \in StoredHosts : Begin(s, "slug", [Idle EXCEPT !.host = h])

\* A guest joins with an e-mail address, a phone number or both; changes one or
\* both of them in her entry; or follows the link in the recovery letter.
StartGuest(s) ==
    \/ \E k \in SUBSET Contacts : Begin(s, "join", [Idle EXCEPT !.contacts = k])
    \/ \E e \in Entries, k \in SUBSET Contacts \ {{}} :
         entry[e].joined /\ Begin(s, "update", [Idle EXCEPT !.entry = e, !.contacts = k])
    \/ \E e \in Entries : /\ Arrived("recovery", e)
                          /\ Begin(s, "recover", [Idle EXCEPT !.entry = e])
-----------------------------------------------------------------------------
(* Signing in by magic link *)

\* CheckAuthMethod: an account with a social identity is sent to the provider.
CheckAuthMethod(s) ==
    /\ At(s, "method")
    /\ IF \E h \in WithEmail : host[h].ident # NoIdent THEN Finish(s) ELSE Continue(s)
    /\ Unchanged /\ UNCHANGED history

\* GenerateAndStoreMagicLink
StoreLink(s) ==
    /\ At(s, "storeLink")
    /\ link' = [link EXCEPT ![req[s].link] = "live"]
    /\ Continue(s)
    /\ UNCHANGED <<mongo, refresh, anonKey, lock, sess, recov, mail, browser, history>>

\* SendMagicLink
MailLink(s) ==
    /\ At(s, "mailLink")
    /\ Post("link", req[s].link)
    /\ Continue(s)
    /\ UNCHANGED <<mongo, redis, browser, history>>

\* VerifyMagicLink reads the key, and then deletes it: what two requests read
\* between the two is accepted twice.
GetLink(s) ==
    /\ At(s, "getLink")
    /\ IF link[req[s].link] = "live"
       THEN /\ uses' = [uses EXCEPT ![req[s].link] = @ + 1]
            /\ Spoil({req[s].link},
                     \E r \in Others(s, "verify", {"delLink"}) : req[r].link = req[s].link)
            /\ Continue(s)
       ELSE Finish(s) /\ UNCHANGED <<uses, loose>>
    /\ Unchanged /\ UNCHANGED <<scenario, turns, root, out, unmailed>>

DeleteLink(s) ==
    /\ At(s, "delLink")
    /\ link' = [link EXCEPT ![req[s].link] = "spent"]
    /\ Continue(s)
    /\ UNCHANGED <<mongo, refresh, anonKey, lock, sess, recov, mail, browser, history>>
-----------------------------------------------------------------------------
(* FindOrCreateHost and FindOrCreateHostBySocial *)

\* By the user id at the provider.
FindIdent(s) ==
    /\ At(s, "findIdent")
    /\ LET h == FoundIn(WithIdent(req[s].ident))
       IN  IF h # NoHost
           THEN Become(s, JumpedTo([req[s] EXCEPT !.host = h], "issue"))
           ELSE Continue(s)
    /\ Unchanged /\ UNCHANGED history

\* By the e-mail address; a social identity is linked to the account found,
\* unless the address is not verified or another identity is linked already.
FindEmail(s) ==
    /\ At(s, "findEmail")
    /\ LET h == FoundIn(IF req[s].verified THEN WithEmail ELSE {})
           found == [req[s] EXCEPT !.host = h]
       IN  IF h = NoHost THEN Continue(s)
           ELSE IF req[s].op = "verify" THEN Become(s, JumpedTo(found, "issue"))
           ELSE IF host[h].ident \in {NoIdent, req[s].ident}
               THEN Become(s, JumpedTo(found, "linkIdent"))
           ELSE Finish(s)
    /\ Unchanged /\ UNCHANGED history

\* The update goes by _id: it replaces an identity linked meanwhile, and finds
\* nothing when the account is gone; the unique index refuses an identity that
\* another account has.
LinkIdent(s) ==
    /\ At(s, "linkIdent")
    /\ LET h == req[s].host
       IN  IF WithIdent(req[s].ident) \ {h} # {}
           THEN Finish(s) /\ UNCHANGED host
           ELSE /\ host' = IF Stored(h) THEN [host EXCEPT ![h].ident = req[s].ident] ELSE host
                /\ Jump(s, "issue")
    /\ UNCHANGED <<owner, entry, marked, redis, mail, browser, history>>

\* The unique indexes refuse a second account with the address or the identity.
InsertHost(s) ==
    /\ At(s, "insertHost")
    /\ \/ /\ (req[s].verified => WithEmail = {})
          /\ (req[s].ident # NoIdent => WithIdent(req[s].ident) = {})
          /\ \E h \in Hosts :
               /\ host[h].st = "none" /\ h = CHOOSE g \in Hosts : host[g].st = "none"
               /\ host' = [host EXCEPT ![h] = [st |-> "stored", email |-> req[s].verified,
                                               ident |-> req[s].ident, slug |-> FALSE]]
               /\ Become(s, Onward([req[s] EXCEPT !.host = h]))
       \/ /\ \/ req[s].verified /\ WithEmail # {}
             \/ req[s].ident # NoIdent /\ WithIdent(req[s].ident) # {}
          /\ Jump(s, "refind")
          /\ UNCHANGED host
    /\ UNCHANGED <<owner, entry, marked, redis, mail, browser, history>>

\* After a duplicate key the one who was faster is found, by the address or by
\* the identity; a social sign-in that met the address fails.
Refind(s) ==
    /\ At(s, "refind")
    /\ LET h == FoundIn(IF req[s].op = "verify" THEN WithEmail ELSE WithIdent(req[s].ident))
       IN  IF h = NoHost THEN Finish(s)
           ELSE Become(s, JumpedTo([req[s] EXCEPT !.host = h], "issue"))
    /\ Unchanged /\ UNCHANGED history

\* SendWelcomeEmail
Greet(s) ==
    /\ At(s, "greet")
    /\ IF req[s].verified THEN Post("welcome", req[s].host) ELSE UNCHANGED mail
    /\ Continue(s)
    /\ UNCHANGED <<mongo, redis, browser, history>>
-----------------------------------------------------------------------------
(* Sessions *)

\* The steps of a refresh that holds a session in its hands.
Holding == {"delToken", "issue", "answer"}

\* RefreshTokenPair reads the token and then deletes it.
GetToken(s) ==
    /\ At(s, "getToken")
    /\ LET t == req[s].token
       IN  IF refresh[t] = NoHost
           THEN Finish(s) /\ UNCHANGED loose
           ELSE /\ Spoil({root[t]}, \E r \in Others(s, "refresh", {"delToken"}) :
                                        req[r].token = t)
                /\ Become(s, Onward([req[s] EXCEPT !.host = refresh[t]]))
    /\ Unchanged /\ UnchangedHistory

\* The DEL of a refresh, and of Logout, which a refresh may overtake.
DeleteToken(s) ==
    /\ At(s, "delToken")
    /\ LET t == req[s].token
           signsOut == req[s].op = "logout" /\ root[t] # NoToken
       IN  /\ refresh' = [refresh EXCEPT ![t] = NoHost]
           /\ out' = IF signsOut THEN out \cup {root[t]} ELSE out
           /\ Spoil({root[t]}, signsOut /\ \E r \in Others(s, "refresh", Holding) :
                                               root[req[r].token] = root[t])
    /\ Continue(s)
    /\ UNCHANGED <<mongo, link, anonKey, lock, sess, recov, mail, browser,
                   scenario, turns, root, uses, unmailed>>

\* IssueTokenPair: a new session, or the next token of the one refreshed.
IssueToken(s) ==
    /\ At(s, "issue")
    /\ \E t \in Tokens :
         /\ root[t] = NoToken /\ t = CHOOSE u \in Tokens : root[u] = NoToken
         /\ refresh' = [refresh EXCEPT ![t] = req[s].host]
         /\ root' = [root EXCEPT ![t] = IF req[s].op = "refresh"
                                        THEN root[req[s].token] ELSE t]
         /\ Become(s, Onward([req[s] EXCEPT !.token = t]))
    /\ UNCHANGED <<mongo, link, anonKey, lock, sess, recov, mail, browser,
                   scenario, turns, uses, out, loose, unmailed>>

\* The response sets the cookies, or clears them.
Answer(s) ==
    /\ At(s, "answer")
    /\ LET clears == req[s].op \in {"logout", "deleteMe"}
       IN  /\ cookie' = IF clears THEN NoToken ELSE req[s].token
           /\ access' = IF clears THEN NoHost ELSE req[s].host
    /\ Spoil({root[req[s].token]},
             req[s].op = "refresh" /\ \E r \in Others(s, "logout", {"delToken"}) :
                 root[req[r].token] = root[req[s].token])
    /\ Finish(s)
    /\ UNCHANGED <<mongo, redis, mail>> /\ UnchangedHistory
-----------------------------------------------------------------------------
(* The account, and the claim of the anonymous queue *)

\* UpdateHost counts the accounts that have the slug, and then sets it; there is
\* no unique index.
SlugFree(s) ==
    /\ At(s, "slugFree")
    /\ IF \E h \in StoredHosts \ {req[s].host} : host[h].slug
       THEN Finish(s) ELSE Continue(s)
    /\ Unchanged /\ UNCHANGED history

SetSlug(s) ==
    /\ At(s, "setSlug")
    /\ host' = IF Stored(req[s].host) THEN [host EXCEPT ![req[s].host].slug = TRUE] ELSE host
    /\ Spoil({req[r].host : r \in Others(s, "slug", {"setSlug"})}, TRUE)
    /\ Continue(s)
    /\ UNCHANGED <<owner, entry, marked, redis, mail, browser>> /\ UnchangedHistory

\* DeleteMe reads the account before it calls DeleteHost; verified: it has the
\* address to write to.
ReadMe(s) ==
    /\ At(s, "readMe")
    /\ Become(s, Onward([req[s] EXCEPT !.verified = req[s].host \in WithEmail]))
    /\ Unchanged /\ UNCHANGED history

\* DeleteHost writes before it deletes, and DeleteMe writes again afterwards.
Farewell(s) ==
    /\ \/ At(s, "farewell") /\ IF req[s].host \in WithEmail
                               THEN Post("farewell", req[s].host) ELSE UNCHANGED mail
       \/ At(s, "farewellAgain") /\ IF req[s].verified
                               THEN Post("farewell", req[s].host) ELSE UNCHANGED mail
    /\ Continue(s)
    /\ UNCHANGED <<mongo, redis, browser, history>>

DropQueues(s) ==
    /\ At(s, "dropQueues")
    /\ owner' = IF owner = req[s].host THEN Deleted ELSE owner
    /\ Continue(s)
    /\ UNCHANGED <<host, entry, marked, redis, mail, browser, history>>

\* The entries, the subscription and the refresh tokens stay.
DropHost(s) ==
    /\ At(s, "dropHost")
    /\ host' = IF Stored(req[s].host)
               THEN [host EXCEPT ![req[s].host] = [NoDoc EXCEPT !.st = "gone"]] ELSE host
    /\ Continue(s)
    /\ UNCHANGED <<owner, entry, marked, redis, mail, browser, history>>

\* VerifyAnonymousOwnership: HostOwner goes on to the queue without the key,
\* Claim does not.
AnonOwner(s) ==
    /\ At(s, "anonOwner")
    /\ IF (req[s].op = "claim") = anonKey THEN Continue(s) ELSE Finish(s)
    /\ Unchanged /\ UNCHANGED history

Claimer(s) ==
    /\ At(s, "claimer")
    /\ IF Stored(req[s].host) THEN Continue(s) ELSE Finish(s)
    /\ Unchanged /\ UNCHANGED history

GetQueue(s) ==
    /\ At(s, "queue")
    /\ IF owner # Deleted THEN Continue(s) ELSE Finish(s)
    /\ Unchanged /\ UNCHANGED history

\* ClaimQueue sets the host by _id.  A deletion of the account may have passed
\* the queue already, and HostOwner may just have found it anonymous.
ClaimQueue(s) ==
    /\ At(s, "claim")
    /\ owner' = IF owner = Deleted THEN Deleted ELSE req[s].host
    /\ Spoil({"queue"}, \/ ~Stored(req[s].host)
                        \/ \E r \in Others(s, "deleteMe", {"dropHost"}) :
                               req[r].host = req[s].host)
    /\ req' = [r \in Slots |->
           IF r = s THEN Onward(req[s])
           ELSE IF r \in Others(s, "anon", {"resync"}) THEN [req[r] EXCEPT !.loose = TRUE]
           ELSE req[r]]
    /\ UNCHANGED <<host, entry, marked, redis, mail, browser>> /\ UnchangedHistory

\* DeleteAnonHostToken
ForgetAnonHost(s) ==
    /\ At(s, "forget")
    /\ anonKey' = FALSE
    /\ Continue(s)
    /\ UNCHANGED <<mongo, link, refresh, lock, sess, recov, mail, browser, history>>

\* Mutant: HostOwner takes any queue that is stored.
AnonQueueAny(s) ==
    /\ At(s, "anonQueue")
    /\ IF owner # Deleted THEN Continue(s) ELSE Finish(s)
    /\ Unchanged /\ UNCHANGED history

\* HostOwner, when the key is gone: the queue must still be anonymous.
AnonQueue(s) ==
    /\ At(s, "anonQueue")
    /\ IF owner = NoHost THEN Continue(s) ELSE Finish(s)
    /\ Unchanged /\ UNCHANGED history

\* ReSyncAnonymousSession; the queue may have been claimed since it was read.
ReSync(s) ==
    /\ At(s, "resync")
    /\ anonKey' = TRUE
    /\ Spoil({"queue"}, owner # NoHost /\ req[s].loose)
    /\ Continue(s)
    /\ UNCHANGED <<mongo, link, refresh, lock, sess, recov, mail, browser>>
    /\ UnchangedHistory
-----------------------------------------------------------------------------
(* Guests *)

\* The contact that the join is locked by, and none without a contact.
LockKey(r) == IF "email" \in r.contacts THEN "email"
              ELSE IF "phone" \in r.contacts THEN "phone" ELSE "none"

\* Lock.Acquire: SET NX with a TTL of five seconds.
AcquireJoinLock(s) ==
    /\ At(s, "lock")
    /\ LET k == LockKey(req[s])
       IN  IF k = "none" THEN Continue(s) /\ UNCHANGED lock
           ELSE IF lock[k] = NoSlot THEN lock' = [lock EXCEPT ![k] = s] /\ Continue(s)
           ELSE Finish(s) /\ UNCHANGED lock
    /\ UNCHANGED <<mongo, link, refresh, anonKey, sess, recov, mail, browser, history>>

\* A contact that a guest in the queue has is refused; guests who have arrived
\* are not counted.
CheckDuplicate(s) ==
    /\ \E k \in Contacts :
         /\ At(s, IF k = "email" THEN "dupEmail" ELSE "dupPhone")
         /\ LET held == {e \in Entries : k \in req[s].contacts \cap entry[e].contacts}
            IN  IF \E e \in held : Live(e)
                THEN Jump(s, "unlock")
                ELSE Become(s, Onward([req[s] EXCEPT
                         !.loose = @ \/ \E e \in held : InQueue(e)]))
    /\ Unchanged /\ UNCHANGED history

\* CreateEntryForQueue.  Joins that hold another lock and have a contact in
\* common may have checked before it.
InsertEntry(s) ==
    /\ At(s, "insertEntry")
    /\ \E e \in Entries :
         /\ entry[e].st = "none" /\ e = CHOOSE f \in Entries : entry[f].st = "none"
         /\ entry' = [entry EXCEPT ![e] = [st |-> "live", contacts |-> req[s].contacts,
                                           joined |-> TRUE]]
         /\ Spoil({e}, req[s].loose)
         /\ req' = [r \in Slots |->
                IF r = s THEN Onward([req[s] EXCEPT !.entry = e])
                ELSE IF /\ r \in Others(s, "join", {"insertEntry"})
                        /\ req[r].contacts \cap req[s].contacts # {}
                        /\ LockKey(req[r]) # LockKey(req[s])
                     THEN [req[r] EXCEPT !.loose = TRUE] ELSE req[r]]
    /\ UNCHANGED <<host, owner, marked, redis, mail, browser>> /\ UnchangedHistory

\* SetUserSession
SetSession(s) ==
    /\ At(s, "session")
    /\ sess' = sess \cup {req[s].entry}
    /\ Continue(s)
    /\ UNCHANGED <<mongo, link, refresh, anonKey, lock, recov, mail, browser, history>>

\* A guest who has joined with an e-mail address gets a recovery letter.
AfterJoin(r) == IF r.entry # NoEntry /\ "email" \in r.contacts THEN Onward(r) ELSE Idle

\* Lock.Release, the deferred call of JoinQueue: only the owner's lock is deleted.
ReleaseJoinLock(s) ==
    /\ At(s, "unlock")
    /\ lock' = [k \in Contacts |-> IF k = LockKey(req[s]) /\ lock[k] = s
                                   THEN NoSlot ELSE lock[k]]
    /\ Become(s, AfterJoin(req[s]))
    /\ UNCHANGED <<mongo, link, refresh, anonKey, sess, recov, mail, browser, history>>

\* SessionExists, which restores the session of an entry that is not over.
SessionKnown(s) ==
    /\ At(s, "known")
    /\ LET e == req[s].entry
       IN  IF e \in sess \/ entry[e].st # "over"
           THEN sess' = sess \cup {e} /\ Continue(s)
           ELSE Finish(s) /\ UNCHANGED sess
    /\ UNCHANGED <<mongo, link, refresh, anonKey, lock, recov, mail, browser, history>>

\* UpdateEntry sets the contacts that were given, to the ones at issue or to
\* others, with no duplicate check; with an e-mail address a recovery letter is due.
UpdateEntry(s) ==
    /\ At(s, "updateEntry")
    /\ \E new \in SUBSET req[s].contacts :
         LET had == entry[req[s].entry].contacts
         IN  /\ entry' = [entry EXCEPT ![req[s].entry].contacts =
                              (had \ req[s].contacts) \cup new]
             /\ Spoil({req[s].entry}, ~(new \subseteq had))
    /\ IF "email" \in req[s].contacts THEN Continue(s) ELSE Finish(s)
    /\ UNCHANGED <<host, owner, marked, redis, mail, browser>> /\ UnchangedHistory
-----------------------------------------------------------------------------
(* The recovery letter and its link *)

\* Mutant: the entry is marked whether it was before or not.
MarkRecoveryAgain(s) ==
    /\ At(s, "mark")
    /\ marked' = marked \cup {req[s].entry}
    /\ Continue(s)
    /\ UNCHANGED <<host, owner, entry, redis, mail, browser, history>>

\* DispatchRecoveryEmail: once for an entry, marked before the letter is sent.
MarkRecovery(s) ==
    /\ At(s, "mark")
    /\ IF req[s].entry \in marked
       THEN Finish(s) /\ UNCHANGED marked
       ELSE marked' = marked \cup {req[s].entry} /\ Continue(s)
    /\ UNCHANGED <<host, owner, entry, redis, mail, browser, history>>

\* GenerateToken
GenerateToken(s) ==
    /\ At(s, "token")
    /\ recov' = [recov EXCEPT ![req[s].entry] = @ + 1]
    /\ Continue(s)
    /\ UNCHANGED <<mongo, link, refresh, anonKey, lock, sess, mail, browser, history>>

\* SendSessionRecovery
MailToken(s) ==
    /\ At(s, "mailToken")
    /\ Post("recovery", req[s].entry)
    /\ Finish(s)
    /\ UNCHANGED <<mongo, redis, browser, history>>

\* After a token that could not be stored: the entry is not marked any more.
UnmarkRecovery(s) ==
    /\ At(s, "unmark")
    /\ marked' = marked \ {req[s].entry}
    /\ Continue(s)
    /\ UNCHANGED <<host, owner, entry, redis, mail, browser, history>>

\* GetRecoveryToken: another token, for the guest at the screen.
GetRecoveryToken(e) ==
    /\ Ask("recoveryToken") /\ Turn
    /\ entry[e].joined
    /\ recov' = [recov EXCEPT ![e] = @ + 1]
    /\ UNCHANGED <<mongo, link, refresh, anonKey, lock, sess, mail, browser, req,
                   scenario, root, uses, out, loose, unmailed>>

\* ClaimToken: GETDEL.
ClaimToken(s) ==
    /\ At(s, "claimToken")
    /\ IF recov[req[s].entry] > 0
       THEN recov' = [recov EXCEPT ![req[s].entry] = @ - 1] /\ Continue(s)
       ELSE Finish(s) /\ UNCHANGED recov
    /\ UNCHANGED <<mongo, link, refresh, anonKey, lock, sess, mail, browser, history>>

\* RejoinByID: the session is restored, or dropped if the entry is over.
Rejoin(s) ==
    /\ At(s, "rejoin")
    /\ sess' = IF entry[req[s].entry].st = "over" THEN sess \ {req[s].entry}
               ELSE sess \cup {req[s].entry}
    /\ Continue(s)
    /\ UNCHANGED <<mongo, link, refresh, anonKey, lock, recov, mail, browser, history>>
-----------------------------------------------------------------------------
(* The e-mail job *)

IsLetter(i, st) == i \in DOMAIN letters /\ letters[i].st = st
SetLetter(i, st) == letters' = [letters EXCEPT ![i].st = st]

\* The worker starts a goroutine for each letter.
TakeLetter ==
    /\ outbox # <<>>
    /\ SetLetter(Head(outbox), "sending")
    /\ outbox' = Tail(outbox)
    /\ UNCHANGED <<mongo, redis, browser, req, history>>

\* processTask: SendImmediate
LetterSent(i) ==
    /\ IsLetter(i, "sending")
    /\ SetLetter(i, "delivered")
    /\ UNCHANGED <<mongo, redis, outbox, browser, req, history>>

\* Mutant: one try too many.
LetterFailsOffByOne(i) ==
    /\ Ask("bounce") /\ Turn
    /\ IsLetter(i, "sending")
    /\ \/ /\ letters[i].tries <= MaxRetries
          /\ letters' = [letters EXCEPT ![i].st = "backoff", ![i].tries = @ + 1]
       \/ /\ letters[i].tries > MaxRetries
          /\ SetLetter(i, "givenUp")
    /\ UNCHANGED <<mongo, redis, outbox, browser, req,
                   scenario, root, uses, out, loose, unmailed>>

\* The provider fails: another try after a pause, unless there were enough.
LetterFails(i) ==
    /\ Ask("bounce") /\ Turn
    /\ IsLetter(i, "sending")
    /\ \/ /\ letters[i].tries < MaxRetries
          /\ letters' = [letters EXCEPT ![i].st = "backoff", ![i].tries = @ + 1]
       \/ /\ letters[i].tries = MaxRetries
          /\ SetLetter(i, "givenUp")
    /\ UNCHANGED <<mongo, redis, outbox, browser, req,
                   scenario, root, uses, out, loose, unmailed>>

\* Mutant: a letter to be tried again is dropped when the channel is full.
RetryDropping(i) ==
    /\ IsLetter(i, "backoff")
    /\ IF Len(outbox) < MailCap
       THEN outbox' = Append(outbox, i) /\ SetLetter(i, "queued")
       ELSE SetLetter(i, "dropped") /\ UNCHANGED outbox
    /\ UNCHANGED <<mongo, redis, browser, req, history>>

\* After the pause the goroutine waits until the channel has a place.
Retry(i) ==
    /\ IsLetter(i, "backoff")
    /\ Len(outbox) < MailCap
    /\ outbox' = Append(outbox, i)
    /\ SetLetter(i, "queued")
    /\ UNCHANGED <<mongo, redis, browser, req, history>>
-----------------------------------------------------------------------------
(* What happens around the requests *)

\* What an entry of QueueSession may become: arrived, over, or, by a timer or a
\* confirmation that goes by _id, live again.
EntryChanges(e) ==
    /\ Ask("presence") /\ Turn
    /\ \/ Live(e) /\ entry' = [entry EXCEPT ![e].st = "arrived"] /\ UNCHANGED <<sess, loose>>
       \/ /\ InQueue(e)
          /\ entry' = [entry EXCEPT ![e].st = "over"]
          /\ sess' = sess \ {e} /\ UNCHANGED loose
       \/ /\ entry[e].st \in {"arrived", "over"}
          /\ entry' = [entry EXCEPT ![e].st = "live"]
          /\ Spoil({e}, ~InQueue(e)) /\ UNCHANGED sess
    /\ UNCHANGED <<host, owner, marked, link, refresh, anonKey, lock, recov, mail, browser,
                   req, scenario, root, uses, out, unmailed>>

\* The join r has looked for a contact of K, and not found it.
HasChecked(r, K) == \/ Steps[r.op][r.pc] = "dupPhone" /\ "email" \in r.contacts \cap K
                    \/ Steps[r.op][r.pc] = "insertEntry" /\ r.contacts \cap K # {}

\* The host adds a guest: no lock, no duplicate check, no session and no letter.
\* Joins that have checked a contact of hers go on to insert it.
AddEntry(k) ==
    /\ Ask("addEntry") /\ Turn
    /\ \E e \in Entries :
         /\ entry[e].st = "none" /\ e = CHOOSE f \in Entries : entry[f].st = "none"
         /\ entry' = [entry EXCEPT ![e] = [st |-> "live", contacts |-> k, joined |-> FALSE]]
         /\ Spoil({e}, \E f \in Entries : InQueue(f) /\ k \cap entry[f].contacts # {})
    /\ req' = [r \in Slots |-> IF HasChecked(req[r], k)
                              THEN [req[r] EXCEPT !.loose = TRUE] ELSE req[r]]
    /\ UNCHANGED <<host, owner, marked, redis, mail, browser,
                   scenario, root, uses, out, unmailed>>

\* Five seconds have passed: the owner goes on without the lock.
LockLapses(k) ==
    /\ Ask("lapse") /\ Turn
    /\ lock[k] # NoSlot
    /\ lock' = [lock EXCEPT ![k] = NoSlot]
    /\ req' = [req EXCEPT ![lock[k]].loose =
           @ \/ (req[lock[k]].op = "join" /\ LockKey(req[lock[k]]) = k)]
    /\ UNCHANGED <<mongo, link, refresh, anonKey, sess, recov, mail, browser,
                   scenario, root, uses, out, loose, unmailed>>

\* Fifteen minutes, a day, seven days.
KeyExpires ==
    /\ Ask("expire") /\ Turn
    /\ \/ /\ \E l \in Links : link[l] = "live" /\ link' = [link EXCEPT ![l] = "spent"]
          /\ UNCHANGED <<refresh, anonKey, sess, recov>>
       \/ /\ \E t \in Tokens : /\ refresh[t] # NoHost
                               /\ refresh' = [refresh EXCEPT ![t] = NoHost]
          /\ UNCHANGED <<link, anonKey, sess, recov>>
       \/ anonKey /\ anonKey' = FALSE /\ UNCHANGED <<link, refresh, sess, recov>>
       \/ /\ \E e \in sess : sess' = sess \ {e}
          /\ UNCHANGED <<link, refresh, anonKey, recov>>
       \/ /\ \E e \in Entries : recov[e] > 0 /\ recov' = [recov EXCEPT ![e] = @ - 1]
          /\ UNCHANGED <<link, refresh, anonKey, sess>>
    /\ UNCHANGED <<mongo, lock, mail, browser, req, scenario, root, uses, out, loose, unmailed>>

\* Steps that are no commands, and failures that nobody looks at.
Local == {"mailLink", "greet", "mailToken", "answer", "farewellAgain", "idle"}
Ignored == {"delLink", "delToken", "readMe", "farewell", "dropQueues", "forget", "resync",
            "unmark", "rejoin"}

\* What is left of a request whose command has failed.  FindOrCreateHost takes
\* an error for `not found'; HostOwner then looks at the queue; a count that
\* could not be read is 0; an entry without a session key is an error for the
\* guest.
AfterFailure(s) ==
    LET r == req[s]
    IN  CASE Step(s) \in Ignored -> Onward(r)
          [] At(s, "findEmail") /\ r.op = "verify" -> Onward(r)
          [] At(s, "anonOwner") /\ r.op = "anon" -> Onward(r)
          [] Step(s) \in {"dupEmail", "dupPhone"} -> Onward([r EXCEPT !.loose = TRUE])
          [] Step(s) \in {"insertEntry", "session"} ->
                 JumpedTo([r EXCEPT !.entry = NoEntry], "unlock")
          [] At(s, "unlock") -> AfterJoin(r)
          [] At(s, "token") -> JumpedTo(r, "unmark")
          [] OTHER -> Idle

Spoilt(s) == CASE At(s, "delLink") -> {req[s].link}
               [] At(s, "delToken") -> {root[req[s].token]}
               [] At(s, "dropQueues") \/ At(s, "forget") -> {"queue"}
               [] OTHER -> {}

\* A command fails without effect.
CommandFails(s) ==
    /\ Ask("fail") /\ Step(s) \notin Local /\ Turn
    /\ Become(s, AfterFailure(s))
    /\ Spoil(Spoilt(s), TRUE)
    /\ unmailed' = unmailed \cup (IF At(s, "unmark") THEN {req[s].entry} ELSE {})
    /\ Unchanged /\ UNCHANGED <<scenario, root, uses, out>>

\* The process stops: its requests and letters are lost.
Crash ==
    /\ Ask("crash") /\ Turn
    /\ letters' = [i \in DOMAIN letters |->
           IF letters[i].st \in {"queued", "sending", "backoff"}
           THEN [letters[i] EXCEPT !.st = "lost"] ELSE letters[i]]
    /\ outbox' = <<>>
    /\ req' = [s \in Slots |-> Idle]
    /\ loose' = loose \cup {root[req[s].token] : s \in {r \in Slots :
                    req[r].op = "refresh" /\ Step(r) \in Holding}}
                \cup {req[s].link : s \in {r \in Slots : At(r, "delLink")}}
                \cup (IF \E s \in Slots : At(s, "forget") THEN {"queue"} ELSE {})
    /\ unmailed' = unmailed \cup {req[s].entry : s \in {r \in Slots :
                    Step(r) \in {"token", "mailToken", "unmark"}}}
    /\ UNCHANGED <<mongo, redis, browser, scenario, root, uses, out>>
-----------------------------------------------------------------------------
(* The specification *)

Start(s) == StartSignIn(s) \/ StartSession(s) \/ StartGuest(s)

Handler(s) ==
    \/ CheckAuthMethod(s) \/ StoreLink(s) \/ MailLink(s) \/ GetLink(s) \/ DeleteLink(s)
    \/ FindIdent(s) \/ FindEmail(s) \/ LinkIdent(s) \/ InsertHost(s) \/ Refind(s) \/ Greet(s)
    \/ GetToken(s) \/ DeleteToken(s) \/ IssueToken(s) \/ Answer(s)
    \/ SlugFree(s) \/ SetSlug(s) \/ ReadMe(s) \/ Farewell(s) \/ DropQueues(s) \/ DropHost(s)
    \/ AnonOwner(s) \/ Claimer(s) \/ GetQueue(s) \/ ClaimQueue(s) \/ ForgetAnonHost(s)
    \/ AnonQueue(s) \/ ReSync(s)
    \/ AcquireJoinLock(s) \/ CheckDuplicate(s) \/ InsertEntry(s) \/ SetSession(s)
    \/ ReleaseJoinLock(s) \/ SessionKnown(s) \/ UpdateEntry(s)
    \/ MarkRecovery(s) \/ GenerateToken(s) \/ MailToken(s) \/ UnmarkRecovery(s)
    \/ ClaimToken(s) \/ Rejoin(s)

Letters == TakeLetter \/ \E i \in DOMAIN letters : LetterSent(i) \/ LetterFails(i) \/ Retry(i)

Environment ==
    \/ KeyExpires \/ Crash
    \/ \E e \in Entries : GetRecoveryToken(e) \/ EntryChanges(e)
    \/ \E k \in SUBSET Contacts : AddEntry(k)
    \/ \E k \in Contacts : LockLapses(k)
    \/ \E s \in Slots : CommandFails(s)

Next == (\E s \in Slots : Start(s) \/ Handler(s)) \/ Letters \/ Environment

Spec == Init /\ [][Next]_vars

\* The worker and its goroutines go on, whatever the requests do.
Fairness == /\ WF_vars(TakeLetter)
            /\ WF_vars(\E i \in DOMAIN letters : LetterSent(i))
            /\ WF_vars(\E i \in DOMAIN letters : Retry(i))

FairSpec == Spec /\ Fairness
-----------------------------------------------------------------------------
(* Properties *)

\* A magic link signs in once, unless two requests followed it at the same time
\* or it could not be deleted.
LinkUsedOnce == \A l \in Links : uses[l] <= 1 \/ l \in loose

Session(r) == {t \in Tokens : root[t] = r}

\* A session has at most one refresh token, and none after it was signed out,
\* unless two requests rotated or ended it at the same time, a DEL failed or the
\* answer was lost in a crash.
OneTokenPerSession ==
    \A r \in Tokens \ loose :
        Cardinality({t \in Session(r) : refresh[t] # NoHost}) <= (IF r \in out THEN 0 ELSE 1)

SessionsSound == LinkUsedOnce /\ OneTokenPerSession

\* A claimed queue belongs to an account that exists, and the anonymous host has
\* no power over it any more, unless the claim was overtaken by the deletion of
\* the account or by a request of the anonymous host, or failed half-way.
ClaimSound ==
    owner \in Hosts /\ "queue" \notin loose =>
        /\ Stored(owner)
        /\ anonKey => \E s \in Slots : At(s, "forget")

\* Two guests in the queue, arrived or not, have no contact in common, and two
\* accounts not both the slug.  It is not so of a guest who joined without her
\* lock, unchecked, at the same time under another lock, while the host added the
\* contact, or when the one who has it had arrived; whom the host added with a
\* contact in use; who took the contact later, or came back; nor of a slug that
\* two set at the same time.
HeldOnce ==
    /\ \A e, f \in Entries \ loose : e # f /\ InQueue(e) /\ InQueue(f) =>
           entry[e].contacts \cap entry[f].contacts = {}
    /\ \A g, h \in StoredHosts \ loose : host[g].slug /\ host[h].slug => g = h

\* An entry gets one recovery letter, whatever it does with its address, and is
\* marked only if it got one, or is about to; unless the process stopped between
\* the two or the mark could not be taken back.
RecoverySound ==
    \A e \in Entries :
        /\ Cardinality({i \in DOMAIN letters :
                          letters[i].kind = "recovery" /\ letters[i].of = e}) <= 1
        /\ e \in marked => \/ Posted("recovery", e) \/ e \in unmailed
                           \/ \E s \in Slots : /\ req[s].entry = e
                                               /\ Step(s) \in {"token", "mailToken", "unmark"}

\* A letter that found the channel full was never accepted.
Settled(l) == \/ l.st \in {"delivered", "givenUp", "lost"}
              \/ l.st = "dropped" /\ l.tries = 0

\* No letter is for ever under way: each one that the job has accepted arrives or
\* is given up after the last try, unless the process stops.
LettersSettle == []<>(\A i \in DOMAIN letters : Settled(letters[i]))
=============================================================================
