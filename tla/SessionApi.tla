----------------------------- MODULE SessionApi -----------------------------
(***************************************************************************)
(* The protected endpoints of the API as a browser sees them: the session  *)
(* a cookie names, the CSRF token that has to agree with it, the consent   *)
(* version, and the single cookie jar all tabs share.  Sources:            *)
(* api/v1/routes/anonymous_sessions.py, core/security.py,                  *)
(* core/exceptions.py, services/anonymous_identity.py and the fetch calls  *)
(* of apps/web/src/lib/api/client.ts.                                      *)
(*                                                                         *)
(* A request is one atomic step here (its transactions are ProfileStore's  *)
(* subject); what is not atomic is the browser: a call takes its cookie    *)
(* when it is issued and its answer arrives some time after the server     *)
(* decided, in any order, or never.  Operators named Mut_... are seeded    *)
(* bugs the specification never uses.                                      *)
(***************************************************************************)
EXTENDS Integers, FiniteSets

CONSTANTS
    Tabs, Games, Reactions,
    Sessions,      \* tokens the server can issue; each is issued once
    Prefs,         \* preference sets that can be saved, besides NoPrefs
    MaxVersion,    \* bound: consent versions are 1 .. MaxVersion
    NoSession, NoPrefs, NoReaction, NoGame

ASSUME NamesAssumption ==
    NoSession \notin Sessions /\ NoGame \notin Games /\ MaxVersion \in Nat \ {0}

Versions == 1 .. MaxVersion

VARIABLES
    row,           \* Sessions -> "unused", "live" or "over" (expired, revoked or deleted)
    consent,       \* Sessions -> users.consent_version
    prefs,         \* Sessions -> the saved preference set
    feedback,      \* Sessions -> Games -> the saved reaction
    version,       \* settings.consent_version
    jar,           \* the session cookie of the browser
    net            \* calls the tabs have issued and not settled

server  == <<row, consent, prefs, feedback, version>>
apiVars == <<server, jar, net>>

Feedback   == [Games -> Reactions \cup {NoReaction}]
NoFeedback == [g \in Games |-> NoReaction]

\* Requests that carry X-CSRF-Token and are checked before the database is used.
Protected == {"delete", "putPrefs", "clearPrefs", "putFeedback", "clearFeedback", "recommend"}
\* Requests that need the consent to be current.
Owned == {"getPrefs", "listFeedback"} \cup (Protected \ {"delete"})
Ops == {"create", "me"} \cup Protected \cup Owned

\* kind: the outcome the client tells apart.  "expired" is a 401 that clears the cookie,
\* "unauthorized" one that does not; "failed" stands for 403, 404, 422, 5xx, an
\* unreadable answer and a network error, which the client treats alike.
Reply(kind, session) ==
    [kind |-> kind, session |-> session, current |-> version, sets |-> FALSE,
     prefs |-> NoPrefs, feedback |-> NoFeedback]
NoReply == [kind |-> "none", session |-> NoSession, current |-> 0, sets |-> FALSE,
            prefs |-> NoPrefs, feedback |-> NoFeedback]
Failed  == [NoReply EXCEPT !.kind = "failed"]

Kinds == {"ok", "lapsed", "unauthorized", "expired", "outdated", "stale", "failed"}

Replies == [kind : Kinds \cup {"none"}, session : Sessions \cup {NoSession},
            current : Versions \cup {0}, sets : BOOLEAN,
            prefs : Prefs \cup {NoPrefs}, feedback : Feedback]

\* The answer replaces the cookie, removes it, or leaves it alone.
ClearsCookie(c, reply) == reply.kind = "expired" \/ (c.op = "delete" /\ reply.kind = "ok")
JarAfter(c, reply) == IF ClearsCookie(c, reply) THEN NoSession
                      ELSE IF reply.sets THEN reply.session ELSE jar

Usable(s) == s # NoSession /\ row[s] = "live"

-----------------------------------------------------------------------------
Mut_CreateAnyVersion(c) ==
    IF c.cookie # NoSession /\ ~Usable(c.cookie) THEN "expired"
    ELSE IF c.cookie # NoSession /\ c.csrf # c.cookie THEN "failed"
    ELSE IF c.cookie = NoSession /\ \A s \in Sessions : row[s] # "unused" THEN "failed"
    ELSE "ok"

\* create_or_reconsent: the version first, then the cookie, then the CSRF token.  The
\* bound on Sessions shows as a failure to allocate a token.
CreateVerdict(c) ==
    IF c.version # version THEN "outdated"
    ELSE IF c.cookie # NoSession /\ ~Usable(c.cookie) THEN "expired"
    ELSE IF c.cookie # NoSession /\ c.csrf # c.cookie THEN "failed"
    ELSE IF c.cookie = NoSession /\ \A s \in Sessions : row[s] # "unused" THEN "failed"
    ELSE "ok"

Mut_CookieSuffices(c) ==
    IF c.cookie = NoSession THEN "unauthorized"
    ELSE IF ~Usable(c.cookie) THEN "expired"
    ELSE IF c.op \in Owned /\ consent[c.cookie] # version THEN "outdated"
    ELSE "ok"

\* _protected_credential, then resolve_active(_for_update); bootstrap and delete accept
\* an outdated consent.
SessionVerdict(c) ==
    IF c.cookie = NoSession THEN "unauthorized"
    ELSE IF c.op \in Protected /\ c.csrf # c.cookie THEN "failed"
    ELSE IF ~Usable(c.cookie) THEN "expired"
    ELSE IF c.op \in Owned /\ consent[c.cookie] # version THEN "outdated"
    ELSE "ok"

\* A context without content is refused; a saved one may name what the catalog has lost.
BodyVerdicts(c) ==
    CASE c.op = "putPrefs" /\ c.prefs = NoPrefs -> {"failed"}
      [] c.op = "recommend" /\ prefs[c.cookie] = NoPrefs -> {"failed"}
      [] c.op = "recommend" -> {"ok", "stale"}
      [] OTHER -> {"ok"}

Verdicts(c) == LET first == IF c.op = "create" THEN CreateVerdict(c) ELSE SessionVerdict(c)
               IN  IF first = "ok" THEN BodyVerdicts(c) ELSE {first}

\* What the answer says of session s once the call has had its effect.
Snapshot(s, sets) == [Reply("ok", s) EXCEPT !.sets = sets, !.prefs = prefs'[s],
                                            !.feedback = feedback'[s]]

\* The call is answered; nobody waits for a detached one any more.
AnswerWith(c, reply) ==
    net' = (net \ {c}) \cup
           (IF c.stage = "detached" THEN {} ELSE {[c EXCEPT !.stage = "served", !.reply = reply]})

-----------------------------------------------------------------------------
\* Effects of a call that is let through.

CreateSession(c) ==
    /\ c.cookie = NoSession
    /\ \E s \in Sessions :
         /\ row[s] = "unused"
         /\ row' = [row EXCEPT ![s] = "live"]
         /\ consent' = [consent EXCEPT ![s] = version]
         /\ UNCHANGED <<prefs, feedback>>
         /\ AnswerWith(c, Snapshot(s, TRUE))

\* The cookie is set again only when the consent is really renewed.
Reconsent(c) ==
    /\ c.cookie # NoSession
    /\ consent' = [consent EXCEPT ![c.cookie] = version]
    /\ UNCHANGED <<row, prefs, feedback>>
    /\ AnswerWith(c, Snapshot(c.cookie, consent[c.cookie] # version))

DeleteSession(c) ==
    /\ row' = [row EXCEPT ![c.cookie] = "over"]
    /\ prefs' = [prefs EXCEPT ![c.cookie] = NoPrefs]
    /\ feedback' = [feedback EXCEPT ![c.cookie] = NoFeedback]
    /\ UNCHANGED consent
    /\ AnswerWith(c, Reply("ok", c.cookie))

SetPreferences(c) ==
    /\ prefs' = [prefs EXCEPT ![c.cookie] = IF c.op = "putPrefs" THEN c.prefs ELSE NoPrefs]
    /\ UNCHANGED <<row, consent, feedback>>
    /\ AnswerWith(c, Snapshot(c.cookie, FALSE))

SetFeedback(c) ==
    /\ feedback' = [feedback EXCEPT ![c.cookie][c.game] =
                      IF c.op = "putFeedback" THEN c.reaction ELSE NoReaction]
    /\ UNCHANGED <<row, consent, prefs>>
    /\ AnswerWith(c, Snapshot(c.cookie, FALSE))

\* The session of GET /me carries its status: the consent is current or it is not.
Read(c) ==
    /\ UNCHANGED <<row, consent, prefs, feedback>>
    /\ AnswerWith(c, [Snapshot(c.cookie, FALSE) EXCEPT
                        !.kind = IF c.op = "me" /\ consent[c.cookie] # version
                                 THEN "lapsed" ELSE "ok"])

Effect(c) == \/ c.op = "create" /\ (CreateSession(c) \/ Reconsent(c))
             \/ c.op = "delete" /\ DeleteSession(c)
             \/ c.op \in {"putPrefs", "clearPrefs"} /\ SetPreferences(c)
             \/ c.op \in {"putFeedback", "clearFeedback"} /\ SetFeedback(c)
             \/ c.op \in {"me", "getPrefs", "listFeedback", "recommend"} /\ Read(c)

\* The server handles a call; a refusal changes nothing.
Serve(c) ==
    /\ c \in net /\ c.stage # "served"
    /\ \E verdict \in Verdicts(c) :
         \/ verdict = "ok" /\ Effect(c)
         \/ /\ verdict # "ok"
            /\ UNCHANGED <<row, consent, prefs, feedback>>
            /\ AnswerWith(c, Reply(verdict, c.cookie))
    /\ UNCHANGED <<version, jar>>

-----------------------------------------------------------------------------

\* The API is redeployed with the next consent notice.
Upgrade ==
    /\ version < MaxVersion
    /\ version' = version + 1
    /\ UNCHANGED <<row, consent, prefs, feedback, jar, net>>

\* A session passes expires_at or is revoked; maintenance then removes its data.
EndSession(s) ==
    /\ row[s] = "live"
    /\ row' = [row EXCEPT ![s] = "over"]
    /\ UNCHANGED <<consent, prefs, feedback, version, jar, net>>

\* Max-Age: the browser forgets the cookie of a session that is over.
LapseCookie ==
    /\ jar # NoSession /\ row[jar] = "over"
    /\ jar' = NoSession
    /\ UNCHANGED <<server, net>>

\* Nobody has opted in yet, or the browser already holds the session "first".
ApiInit(first, saved, liked) ==
    /\ row = [s \in Sessions |-> IF s = first THEN "live" ELSE "unused"]
    /\ consent = [s \in Sessions |-> 1]
    /\ prefs = [s \in Sessions |-> IF s = first THEN saved ELSE NoPrefs]
    /\ feedback = [s \in Sessions |-> IF s = first THEN liked ELSE NoFeedback]
    /\ version = 1
    /\ jar = first
    /\ net = {}
=============================================================================
