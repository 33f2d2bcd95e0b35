------------------------------- MODULE SDLite -------------------------------
(***************************************************************************)
(* The request server of SD_Lite.ino: GET /, GET /config and POST, PUT and *)
(* DELETE /cycles over the card files /config/<uuid>.json, from the boot   *)
(* of the board to the answer of each request.                             *)
(*                                                                         *)
(* loop() serves one request at a time and a handler runs to its end, so   *)
(* no two handlers interleave.  What can come between two steps of a       *)
(* handler is the power going away, and each step that touches the card    *)
(* can fail; a handler is therefore split at its card accesses, and `phase'*)
(* says how far it got.                                                    *)
(***************************************************************************)
EXTENDS CycleConfig, FiniteSets

CONSTANTS
  Users,        \* the uuids that can name a card file
  Enrolled,     \* those with a readable /auth/<uuid>.json on the card
  NoUser,       \* a request with no user name in its Authorization header
  Factory,      \* the name www_username holds before the first request
  Ids,          \* the cycle ids a client can send
  NoId,         \* a request without an id
  TextId,       \* an id that std::stoi does not accept
  NoBody,       \* a request without a body
  Malformed,    \* a body that is not JSON
  Provisioned,  \* what a card may hold for a user before the first boot
  Torn,         \* a file cut short while it was being rewritten
  Absent,       \* no file
  Nothing,      \* configDoc when no document is parsed
  MaxCounter,   \* bound of the model: no POST once cycle_counter got here
  MaxFaults     \* bound of the model: how many hardware faults happen

ASSUME SDLiteAssumption ==
  /\ Enrolled \subseteq Users /\ NoUser \notin Users /\ Factory \in Users
  /\ Ids \subseteq Nat /\ 0 \notin Ids
  /\ NoId \notin Nat /\ TextId \notin Nat /\ NoId # TextId
  /\ NoBody \notin Bodies /\ Malformed \notin Bodies /\ NoBody # Malformed
  /\ Torn \notin Documents /\ Absent \notin Documents /\ Torn # Absent
  /\ Nothing \notin Documents /\ Nothing \notin {Torn, Absent}
  /\ Provisioned \subseteq Documents \cup {Absent}
  /\ \A doc \in Provisioned : doc # Absent => WellFormed(doc)
  /\ MaxCounter \in Nat /\ MaxFaults \in Nat

VARIABLES
  card,         \* what each user's configuration file holds
  boot,         \* the board: without power, halted in setup(), or in loop()
  phase,        \* how far the running handler got
  request,      \* the request it serves
  www_username, \* the global that names the files a handler opens
  configDoc,    \* the configuration as parsed from the card
  wrote,        \* how much of the rewrite print() put on the card
  answers,      \* the status codes sent for this request
  before,       \* history: the card when the request arrived
  faults        \* how many hardware faults have happened

handler == <<phase, request, configDoc, wrote, answers, before>>
vars == <<card, boot, handler, www_username, faults>>

-----------------------------------------------------------------------------
(* Requests. *)

Request(op, id, body) ==
  [op : {op}, user : Users \cup {NoUser}, secret : {"right", "wrong"},
   id : id, body : body]

\* What a client can ask: its configuration, the page (GET /), or a change.
Changes == {"POST", "PUT", "DELETE"}

Requests ==
  Request("GET", {NoId}, {NoBody})
    \cup Request("PAGE", {NoId}, {NoBody})
    \cup Request("POST", {NoId}, Bodies \cup {NoBody, Malformed})
    \cup Request("PUT", Ids \cup {NoId, TextId}, Bodies)
    \cup Request("PUT", {NoId}, {NoBody, Malformed})
    \cup Request("DELETE", Ids \cup {NoId, TextId}, {NoBody})

NoRequest ==
  [op |-> "none", user |-> NoUser, secret |-> "wrong", id |-> NoId, body |-> NoBody]

Readable(u) == card[u] \in Documents

\* The document this request writes back, for a request that found its cycle.
Edited(r, doc) ==
  CASE r.op = "POST"   -> Added(doc, r.body)
    [] r.op = "PUT"    -> Updated(doc, r.id, r.body)
    [] r.op = "DELETE" -> Removed(doc, r.id)

\* Nothing of a handler survives its end or the end of the power.
HandlerGone ==
  /\ phase' = "idle"
  /\ request' = NoRequest
  /\ configDoc' = Nothing
  /\ wrote' = "nothing"
  /\ answers' = <<>>
  /\ before' = Nothing

Fault ==
  /\ faults < MaxFaults
  /\ faults' = faults + 1

Answer(status) ==
  /\ answers' = Append(answers, status)
  /\ phase' = "answered"

\* What a step inside a handler leaves alone.
Same(variables) == UNCHANGED <<variables, boot, request, before>>

-----------------------------------------------------------------------------
(* setup(), the power and loop(). *)

Init ==
  /\ card \in [Users -> Provisioned]
  /\ boot = "down"
  /\ phase = "idle"
  /\ request = NoRequest
  /\ www_username = Factory
  /\ configDoc = Nothing
  /\ wrote = "nothing"
  /\ answers = <<>>
  /\ before = Nothing
  /\ faults = 0

Boot ==
  /\ boot = "down"
  /\ boot' = "serving"
  /\ www_username' = Factory
  /\ UNCHANGED <<card, handler, faults>>

\* The card does not mount, and setup() returns before it opens the server, or
\* the access point does not start, and setup() spins.
BootHalts ==
  /\ boot = "down"
  /\ boot' = "halted"
  /\ Fault
  /\ UNCHANGED <<card, handler, www_username>>

\* Only somebody at the plug gets the board out of there.
PowerCycle ==
  /\ boot = "halted"
  /\ boot' = "down"
  /\ UNCHANGED <<card, handler, www_username, faults>>

PowerLoss ==
  /\ boot = "serving"
  /\ boot' = "down"
  /\ Fault
  /\ HandlerGone
  /\ UNCHANGED <<card, www_username>>

CounterAtBound(r) ==
  /\ r.op = "POST"
  /\ r.user \in Users
  /\ Readable(r.user)
  /\ card[r.user].counter >= MaxCounter

Arrive ==
  \E r \in Requests :
    /\ boot = "serving"
    /\ phase = "idle"
    /\ ~ CounterAtBound(r)
    /\ request' = r
    /\ before' = card
    /\ phase' = "authenticate"
    /\ UNCHANGED <<card, boot, www_username, configDoc, wrote, answers, faults>>

\* loop() comes round with nothing left to serve.
Rest ==
  /\ boot = "serving"
  /\ phase = "answered"
  /\ HandlerGone
  /\ UNCHANGED <<card, boot, www_username, faults>>

-----------------------------------------------------------------------------
(* One request, from checkAuthenFromSD() to the answer. *)

\* Mutant: the user name global is set only if no request has set it yet.
AuthenticateUnderLastName ==
  /\ phase = "authenticate"
  /\ request.user \in Enrolled
  /\ request.secret = "right"
  /\ www_username' = IF www_username = NoUser THEN request.user ELSE www_username
  /\ phase' = "check"
  /\ UNCHANGED answers
  /\ Same(<<card, configDoc, wrote, faults>>)

\* checkAuthenFromSD() when the password file was read: the password decides.
AuthenticateFromFile ==
  /\ phase = "authenticate"
  /\ request.user \in Enrolled
  /\ www_username' = request.user
  /\ \/ request.secret = "right" /\ phase' = "check" /\ UNCHANGED answers
     \/ request.secret = "wrong" /\ Answer(401)
  /\ Same(<<card, configDoc, wrote, faults>>)

\* No password file, or it cannot be read: the buffer readFile() leaves alone
\* is uninitialised, and what the parser makes of it is anybody's guess.
AuthenticateFromGarbage ==
  /\ phase = "authenticate"
  /\ request.user \in Users
  /\ www_username' = request.user
  /\ \/ request.user \notin Enrolled /\ UNCHANGED faults
     \/ request.user \in Enrolled /\ Fault
  /\ \/ phase' = "check" /\ UNCHANGED answers
     \/ Answer(401)
  /\ Same(<<card, configDoc, wrote>>)

AuthenticateNobody ==
  /\ phase = "authenticate"
  /\ request.user = NoUser
  /\ www_username' = NoUser
  /\ Answer(401)
  /\ Same(<<card, configDoc, wrote, faults>>)

\* An empty body is answered twice: the first 400 has no return, the parser then
\* refuses the empty text.
RefuseBody ==
  /\ phase = "check"
  /\ request.op \in {"POST", "PUT"}
  /\ \/ request.body = NoBody /\ answers' = <<400, 400>>
     \/ request.body = Malformed /\ answers' = <<400>>
     \/ request.op = "PUT" /\ request.id = NoId /\ request.body \in Bodies
          /\ answers' = <<400>>
  /\ phase' = "answered"
  /\ Same(<<card, www_username, configDoc, wrote, faults>>)

\* DELETE without an id answers 400 and goes on.
Check ==
  /\ phase = "check"
  /\ request.op \in {"POST", "PUT"} => request.body \in Bodies
  /\ request.op = "PUT" => request.id # NoId
  /\ answers' = IF request.op = "DELETE" /\ request.id = NoId THEN <<400>> ELSE <<>>
  /\ phase' = "load"
  /\ Same(<<card, www_username, configDoc, wrote, faults>>)

\* GET /config sends the file's text, or the empty string when there is none to
\* read, and never looks at what it says.
ServeConfig ==
  /\ phase = "load"
  /\ request.op = "GET"
  /\ Answer(200)
  /\ Same(<<card, www_username, configDoc, wrote, faults>>)

\* GET / streams the page, if the card has it to read.
ServePage ==
  /\ phase = "load"
  /\ request.op = "PAGE"
  /\ Answer(200) \/ Answer(404)
  /\ Same(<<card, www_username, configDoc, wrote, faults>>)

\* Mutant: the parse error of the configuration is not looked at.
LoadUnchecked ==
  /\ phase = "load"
  /\ request.op \in Changes
  /\ configDoc' = card[www_username]
  /\ phase' = "edit"
  /\ Same(<<card, www_username, wrote, answers, faults>>)

\* Mutant: a configuration that does not parse passes for an empty one.
LoadOrStartAfresh ==
  /\ phase = "load"
  /\ request.op \in Changes
  /\ configDoc' = IF Readable(www_username) THEN card[www_username]
                  ELSE [counter |-> 0, cycles |-> <<>>]
  /\ phase' = "edit"
  /\ Same(<<card, www_username, wrote, answers, faults>>)

Load ==
  /\ phase = "load"
  /\ request.op \in Changes
  /\ Readable(www_username)
  /\ configDoc' = card[www_username]
  /\ phase' = "edit"
  /\ Same(<<card, www_username, wrote, answers, faults>>)

\* The file is missing, torn, or the card does not read this time.
LoadFails ==
  /\ phase = "load"
  /\ request.op \in Changes
  /\ \/ ~ Readable(www_username) /\ UNCHANGED faults
     \/ Readable(www_username) /\ Fault
  /\ Answer(500)
  /\ Same(<<card, www_username, configDoc, wrote>>)

\* Mutant: the counter that was raised before the limit is checked is saved too.
RefuseAfterCounting ==
  /\ phase = "edit"
  /\ request.op = "POST"
  /\ ~ HasRoom(configDoc)
  /\ card' = [card EXCEPT ![www_username].counter = @ + 1]
  /\ Answer(400)
  /\ Same(<<www_username, configDoc, wrote, faults>>)

\* The list is full, or no cycle has the id.
Refuse ==
  /\ phase = "edit"
  /\ \/ request.op = "POST" /\ ~ HasRoom(configDoc) /\ Answer(400)
     \/ request.op = "PUT" /\ request.id \notin IdsOf(configDoc) /\ Answer(404)
     \/ request.op = "DELETE" /\ request.id \notin IdsOf(configDoc)
          /\ (request.id \in {NoId, TextId} => configDoc.cycles = <<>>)
          /\ Answer(404)
  /\ Same(<<card, www_username, configDoc, wrote, faults>>)

\* Mutant: the id is converted after the file was opened for the rewrite.
AbortAfterOpening ==
  /\ phase = "edit"
  /\ request.op = "DELETE"
  /\ request.id \in {NoId, TextId}
  /\ configDoc.cycles # <<>>
  /\ card' = [card EXCEPT ![www_username] = Torn]
  /\ boot' = "down"
  /\ HandlerGone
  /\ UNCHANGED <<www_username, faults>>

\* Mutant: an uncaught exception halts the board instead of restarting it.
AbortHalts ==
  /\ phase = "edit"
  /\ request.op = "DELETE"
  /\ request.id \in {NoId, TextId}
  /\ configDoc.cycles # <<>>
  /\ boot' = "halted"
  /\ HandlerGone
  /\ UNCHANGED <<card, www_username, faults>>

\* std::stoi throws, nothing catches it, and the board restarts.
AbortOnId ==
  /\ phase = "edit"
  /\ request.op = "DELETE"
  /\ request.id \in {NoId, TextId}
  /\ configDoc.cycles # <<>>
  /\ boot' = "down"
  /\ HandlerGone
  /\ UNCHANGED <<card, www_username, faults>>

Accepted ==
  \/ request.op = "POST" /\ HasRoom(configDoc)
  \/ request.op \in {"PUT", "DELETE"} /\ request.id \in IdsOf(configDoc)

\* fs.open(path, FILE_WRITE) cuts the file to nothing before a byte is written.
OpenForWrite ==
  /\ phase = "edit"
  /\ Accepted
  /\ card' = [card EXCEPT ![www_username] = Torn]
  /\ phase' = "opened"
  /\ Same(<<www_username, configDoc, wrote, answers, faults>>)

OpenFails ==
  /\ phase = "edit"
  /\ Accepted
  /\ Fault
  /\ Answer(500)
  /\ Same(<<card, www_username, configDoc, wrote>>)

\* Mutant: the buffer the document is serialised into can be too small for it.
PrintTruncated ==
  /\ phase = "opened"
  /\ wrote' \in {"all", "part"}
  /\ phase' = "printed"
  /\ Same(<<card, www_username, configDoc, answers, faults>>)

\* file.print() tells only none from some.  What close() then fails to flush is
\* the same loss as a print() cut short: reported as success, torn on the card.
PrintFile ==
  /\ phase = "opened"
  /\ \/ wrote' = "all" /\ UNCHANGED faults
     \/ wrote' \in {"part", "none"} /\ Fault
  /\ phase' = "printed"
  /\ Same(<<card, www_username, configDoc, answers>>)

CloseFile ==
  /\ phase = "printed"
  /\ card' = IF wrote = "all"
             THEN [card EXCEPT ![www_username] = Edited(request, configDoc)]
             ELSE card
  /\ phase' = "closed"
  /\ Same(<<www_username, configDoc, wrote, answers, faults>>)

\* Mutant: writeFile's result is ignored.
RespondSuccess ==
  /\ phase = "closed"
  /\ Answer(200)
  /\ Same(<<card, www_username, configDoc, wrote, faults>>)

\* Mutant: the branch of a failed write sends nothing.
RespondOnSuccessOnly ==
  /\ phase = "closed"
  /\ wrote # "none"
  /\ Answer(200)
  /\ Same(<<card, www_username, configDoc, wrote, faults>>)

Respond ==
  /\ phase = "closed"
  /\ Answer(IF wrote = "none" THEN 500 ELSE 200)
  /\ Same(<<card, www_username, configDoc, wrote, faults>>)

HandlerStep ==
  \/ AuthenticateFromFile \/ AuthenticateFromGarbage \/ AuthenticateNobody
  \/ RefuseBody \/ Check
  \/ ServeConfig \/ ServePage \/ Load \/ LoadFails
  \/ Refuse \/ AbortOnId
  \/ OpenForWrite \/ OpenFails \/ PrintFile \/ CloseFile \/ Respond
  \/ Rest

Next ==
  \/ Boot \/ BootHalts \/ PowerCycle \/ PowerLoss
  \/ Arrive
  \/ HandlerStep

Spec == Init /\ [][Next]_vars

\* loop() polls the server for ever, the handlers never wait for anything, and
\* the power comes back after it went.
FairSpec == Spec /\ WF_vars(HandlerStep) /\ WF_vars(Boot)

-----------------------------------------------------------------------------
(* What the server is for. *)

Requested == Requests \cup {NoRequest}

Statuses == {200, 400, 401, 404, 500}

AnswerLists ==
  {<<>>} \cup {<<status>> : status \in Statuses} \cup {<<400, status>> : status \in Statuses}

CardFiles == [Users -> Documents \cup {Absent, Torn}]

\* The variables hold what the code's variables can hold: in particular a file
\* name global that outlives the request that set it, and at most two answers.
TypeOK ==
  /\ card \in CardFiles
  /\ boot \in {"down", "halted", "serving"}
  /\ phase \in {"idle", "authenticate", "check", "load", "edit",
                "opened", "printed", "closed", "answered"}
  /\ request \in Requested
  /\ www_username \in Users \cup {NoUser}
  /\ configDoc \in Documents \cup {Nothing}
  /\ wrote \in {"nothing", "all", "part", "none"}
  /\ answers \in AnswerLists
  /\ before \in CardFiles \cup {Nothing}
  /\ faults \in 0 .. MaxFaults

\* Every configuration the card can still read is well formed: the limit of
\* cycles holds and ids are distinct, in order, and were issued by the counter,
\* through any sequence of requests, failed writes and restarts.
ConfigSound == \A u \in Users : Readable(u) => WellFormed(card[u])

\* What the card amounts to for each user: while a rewrite that can still succeed
\* is under way, the document it replaces; otherwise the file.
Stored ==
  [u \in Users |->
     IF /\ u = www_username
        /\ phase = "opened" \/ (phase = "printed" /\ wrote = "all")
     THEN configDoc ELSE card[u]]

TornFiles == {u \in Users : Stored[u] = Torn}

\* Each lost configuration cost a hardware fault of its own: no request, bad
\* body, uncaught exception or restart tears a file by itself, and one fault
\* never takes two files.
LossesAreCounted == Cardinality(TornFiles) <= faults

\* Once a request has been refused with 400, 401 or 404 the card is and stays as
\* it was when the request came, the DELETE without an id that goes on after its
\* 400 included.
RefusedNeverEdits ==
  (\E i \in DOMAIN answers : answers[i] \in {400, 401, 404}) => card = before

\* The status tells the client what became of the card: 200 means exactly the
\* requested edit of exactly the requester's file, or that the card took a part of
\* the text and lost the rest, which the code cannot tell; 500 means no edit, and
\* a torn file only if nothing of the text was written.
AnswerTellsOutcome ==
  phase = "answered" /\ request.op \in Changes =>
    LET user    == request.user
        outcome == Last(answers)
        with(content) == [before EXCEPT ![user] = content]
    IN  /\ outcome = 200 =>
             \/ wrote = "all" /\ card = with(Edited(request, before[user]))
             \/ wrote = "part" /\ card = with(Torn)
        /\ outcome = 500 =>
             card = IF wrote = "none" THEN with(Torn) ELSE before

\* A request changes no file but that of the user it names, although the path
\* comes from a global the requests share.
OnlyOwnFile == [][\A u \in Users : card'[u] # card[u] => u = request.user]_vars

\* An id is never given out twice to the same user: the counter never goes back,
\* and an id that was not in the list enters it only by exceeding the counter.
NoIdReuse ==
  [][\A u \in Users : Stored[u] \in Documents /\ Stored'[u] \in Documents =>
       /\ Stored'[u].counter >= Stored[u].counter
       /\ \A id \in IdsOf(Stored'[u]) \ IdsOf(Stored[u]) : id > Stored[u].counter]_vars

\* The firmware neither creates a configuration nor repairs one: a file that is
\* missing or was torn stays so, whatever is asked and however often it restarts.
LostStaysLost ==
  [][\A u \in Users : Stored[u] \notin Documents => Stored'[u] = Stored[u]]_vars

-----------------------------------------------------------------------------
(* Why the invariants above hold: what is true between the steps of a handler. *)

\* Whom a handler serves, and what the checks it passed have established.
ServedInv ==
  /\ phase # "idle" => boot = "serving" /\ request \in Requests /\ before \in CardFiles
  /\ phase \in {"check", "load", "edit", "opened", "printed", "closed"} =>
       www_username = request.user /\ request.user \in Users
  /\ phase \in {"load", "edit", "opened", "printed", "closed"} =>
       (request.op \in {"POST", "PUT"} => request.body \in Bodies)
  /\ phase \in {"edit", "opened", "printed", "closed"} =>
       /\ request.op \in Changes
       /\ configDoc \in Documents /\ WellFormed(configDoc)
  /\ phase \in {"opened", "printed", "closed"} => Accepted
  /\ phase \in {"idle", "authenticate", "check", "load", "edit", "opened"} =>
       wrote = "nothing"
  /\ phase \in {"printed", "closed"} => wrote # "nothing"

\* How the card relates to the card the request found.
CardInv ==
  /\ phase \in {"authenticate", "check", "load", "edit"} => before = card
  /\ phase \in {"edit", "opened", "printed", "closed"} =>
       before[request.user] = configDoc
  /\ phase \in {"opened", "printed"} => card = [before EXCEPT ![request.user] = Torn]
  /\ phase = "closed" =>
       card = [before EXCEPT ![request.user] =
                 IF wrote = "all" THEN Edited(request, configDoc) ELSE Torn]

\* What has been sent before the handler ends: only a DELETE without an id has
\* had an answer, and it finds no cycle to delete.
AnswersInv ==
  /\ phase \in {"idle", "authenticate", "check", "opened", "printed", "closed"} =>
       answers = <<>>
  /\ phase \in {"load", "edit"} =>
       \/ answers = <<>>
       \/ answers = <<400>> /\ request.op = "DELETE" /\ request.id = NoId

Inv ==
  /\ TypeOK
  /\ ConfigSound
  /\ ServedInv
  /\ CardInv
  /\ AnswersInv
  /\ RefusedNeverEdits
  /\ AnswerTellsOutcome

\* The server with its crashes, torn writes and retries is a store whose
\* documents change by whole edits.
Promise == INSTANCE CycleStore WITH store <- Stored

ImplementsCycleStore == Promise!StoreSpec

\* A request is answered, or the board restarts: it never hangs in a handler.
EveryRequestEnds == phase # "idle" ~> phase = "idle"

\* The board always comes back to serve, unless a hardware fault at boot halted
\* it for good.
KeepsServing ==
  \/ []<>(boot = "serving" /\ phase = "idle")
  \/ <>[](boot = "halted" /\ faults > 0)
=============================================================================
