--------------------------- MODULE PersistentFlow ---------------------------
(***************************************************************************)
(* The opt-in panel of /recommendations: browser tabs that share a cookie, *)
(* each with its own React state, against the endpoints of SessionApi.     *)
(* Source: features/recommendations/persistent-recommendation-flow.tsx,    *)
(* with the buttons of consent-panel.tsx and feedback-controls.tsx.        *)
(*                                                                         *)
(* tab[t] is the state and the refs of the component.  An async handler is *)
(* the action that issues its first call and one action per answer it      *)
(* awaits: what follows an await, up to the next one, is atomic.  A load   *)
(* of the feedback list is one call here; FeedbackPages has its pages.     *)
(*                                                                         *)
(* Operators named Mut_... are seeded bugs the specification never uses.   *)
(***************************************************************************)
EXTENDS SessionApi

CONSTANTS
    MaxClicks,   \* bound: user actions in all tabs, page loads included
    MaxLost,     \* bound: fetches that fail without an answer of the server
    Starts       \* saved profiles to start from: [session, prefs, feedback]

ASSUME StartsAssumption ==
    Starts \subseteq [session : Sessions \cup {NoSession}, prefs : Prefs \cup {NoPrefs},
                      feedback : Feedback]

VARIABLES
    tab,         \* Tabs -> the state and refs of the component
    clicks,      \* user actions so far
    lost,        \* fetches that have failed without an answer
    switched     \* history: tabs behind whose back the browser got another cookie since they
                 \* last asked for a session

vars == <<apiVars, tab, clicks, lost, switched>>

NoLifecycle == [id |-> NoSession, version |-> 0]
NoShown     == [session |-> NoSession, prefs |-> NoPrefs, prefsOf |-> NoSession,
                feedback |-> NoFeedback, feedbackOf |-> NoSession]
NoResult    == [session |-> NoSession, prefs |-> NoPrefs, feedback |-> NoFeedback]
NoLoad      == [task |-> "none", session |-> NoSession, prefs |-> NoReply, list |-> NoReply]

Tasks == {"bootstrap", "consent", "clear", "preferences", "generate", "saveFeedback", "clearFeedback"}

States == {"bootstrapping", "stateless", "active", "consent_outdated",
           "consent_contract_mismatch", "error"}

\* Memory of a page that has just been loaded with the consent notice v and mounts.
Mounted(v, epoch) ==
    [ui |-> "bootstrapping", busy |-> TRUE, pending |-> NoGame, epoch |-> epoch,
     session |-> NoLifecycle, shown |-> NoShown, personal |-> NoResult, load |-> NoLoad,
     assured |-> {}, page |-> v, doubt |-> FALSE]

Mut_BusyOnly(w) == w.busy
MutationPending(w) == w.busy \/ w.pending # NoGame

-----------------------------------------------------------------------------
\* Calls, and the way their answers come back.

Call(t, w, task, op) ==
    [tab |-> t, epoch |-> w.epoch, task |-> task, op |-> op, stage |-> "sent",
     cookie |-> jar, csrf |-> NoSession, version |-> w.page, prefs |-> NoPrefs,
     game |-> NoGame, reaction |-> NoReaction, reply |-> NoReply]

Signed(call, w) == [call EXCEPT !.csrf = w.session.id]

\* A click: the tab changes and its first call leaves.
Click(t, w, calls) ==
    /\ clicks < MaxClicks
    /\ clicks' = clicks + 1
    /\ tab' = [tab EXCEPT ![t] = w]
    /\ net' = net \cup calls
    /\ switched' = IF \E x \in calls : x.op \in {"me", "create"} THEN switched \ {t}
                   ELSE switched
    /\ UNCHANGED <<server, jar, lost>>

\* What a fetch can settle with: the server's answer once there is one, or a failure, of
\* a call that never arrived, that was served, or that the server still works on.
Outcomes(c) == (IF lost < MaxLost THEN {Failed} ELSE {})
               \cup (IF c.stage = "served" THEN {c.reply} ELSE {})

\* The browser stores the cookie of the answer, then the continuation runs; the calls it
\* issues take the cookie from the jar as it is by then.
Settle(c, reply, w, calls) ==
    /\ jar' = JarAfter(c, reply)
    /\ tab' = [tab EXCEPT ![c.tab] =
                 [w EXCEPT !.doubt = @ \/ (reply.kind = "failed" /\ c.op \notin {"me", "recommend"})]]
    /\ \E left \in IF reply = Failed /\ c.stage = "sent" /\ c.op \in Protected \cup {"create"}
                   THEN {{}, {[c EXCEPT !.stage = "detached"]}} ELSE {{}} :
         net' = (net \ {c}) \cup left \cup {[x EXCEPT !.cookie = jar'] : x \in calls}
    /\ lost' = IF reply = Failed THEN lost + 1 ELSE lost
    /\ switched' = IF jar' \in {jar, NoSession} THEN switched
                   ELSE {t \in Tabs : t # c.tab \/ c.epoch # tab[t].epoch}
    /\ UNCHANGED <<server, clicks>>

Mut_AnyEpoch(c, task) == c.task = task
\* c is awaited by the handler "task" of a tab whose epoch has not moved on.
Awaited(c, task) == c.task = task /\ c.epoch = tab[c.tab].epoch

\* finally { if (requestEpoch === epoch.current) setBusy(false) }
Idle(c, w)    == IF w.epoch = c.epoch THEN [w EXCEPT !.busy = FALSE] ELSE w
Unpended(c, w) == IF w.epoch = c.epoch THEN [w EXCEPT !.pending = NoGame] ELSE w

-----------------------------------------------------------------------------
Mut_ResultSurvives(w) ==
    [w EXCEPT !.epoch = @ + 1, !.shown = NoShown, !.session = NoLifecycle,
              !.pending = NoGame, !.assured = {}, !.busy = FALSE, !.load = NoLoad]
Mut_BusySurvives(w) ==
    [w EXCEPT !.epoch = @ + 1, !.shown = NoShown, !.session = NoLifecycle,
              !.personal = NoResult, !.pending = NoGame, !.assured = {}, !.load = NoLoad]

ClearRouteMemory(w) ==
    [w EXCEPT !.epoch = @ + 1, !.shown = NoShown, !.session = NoLifecycle,
              !.personal = NoResult, !.pending = NoGame, !.assured = {}, !.busy = FALSE,
              !.load = NoLoad]

\* setDurable(null) and what goes with it.
Unshown(w) == [w EXCEPT !.shown = NoShown, !.personal = NoResult, !.pending = NoGame,
                        !.assured = {}]

SessionFailure(w, reply, fallback) ==
    CASE reply.kind \in {"unauthorized", "expired"} ->
           [ClearRouteMemory(w) EXCEPT !.ui = "stateless"]
      [] reply.kind = "outdated" /\ fallback = "stateless" ->
           [Unshown(w) EXCEPT !.ui = "consent_contract_mismatch"]
      [] reply.kind = "outdated" /\ fallback # "stateless" ->
           [Unshown(w) EXCEPT !.ui = "consent_outdated",
                              !.session = IF @ = NoLifecycle THEN @
                                          ELSE [@ EXCEPT !.version = reply.current]]
      [] reply.kind = "stale" -> [w EXCEPT !.personal = NoResult, !.ui = "active"]
      [] OTHER -> [w EXCEPT !.ui = fallback]

-----------------------------------------------------------------------------
\* History, for ShownIsStored: another call of the tab of c may still have its effect.
Unsettled(c) == \E x \in net \ {c} : x.tab = c.tab /\ x.stage # "served" /\ x.op \in Protected

\* rehydrate: both requests leave at once, with whatever cookie the jar holds.
Lifecycle(reply) == [id |-> reply.session, version |-> reply.current]

Rehydrating(w, task, reply, doubt) ==
    [w EXCEPT !.session = Lifecycle(reply), !.doubt = doubt,
              !.load = [NoLoad EXCEPT !.task = task, !.session = reply.session]]
RehydrateCalls(t, w, task) == {Call(t, w, task, "getPrefs"), Call(t, w, task, "listFeedback")}

Arrived(w, c, reply) == IF c.op = "getPrefs" THEN [w EXCEPT !.load.prefs = reply]
                        ELSE [w EXCEPT !.load.list = reply]
Complete(w) == w.load.prefs # NoReply /\ w.load.list # NoReply

Rehydrated(w) ==
    [w EXCEPT !.ui = "active", !.personal = NoResult, !.pending = NoGame, !.assured = {},
              !.load = NoLoad,
              !.shown = [session |-> w.load.session,
                         prefs |-> w.load.prefs.prefs, prefsOf |-> w.load.prefs.session,
                         feedback |-> w.load.list.feedback, feedbackOf |-> w.load.list.session]]

-----------------------------------------------------------------------------
\* bootstrap: on mount, and "Try again".
Retry(t) ==
    LET w == [tab[t] EXCEPT !.epoch = @ + 1, !.busy = TRUE, !.ui = "bootstrapping",
                            !.load = NoLoad]
    IN  /\ tab[t].ui = "error" /\ ~MutationPending(tab[t])
        /\ Click(t, w, {Call(t, w, "bootstrap", "me")})

\* The page is loaded again, from a web deployment that may be older or newer.
Reload(t) ==
    \E v \in Versions :
        LET w == Mounted(v, tab[t].epoch + 1)
        IN  Click(t, w, {Call(t, w, "bootstrap", "me")})

BootstrapAnswered(c, reply) ==
    /\ Awaited(c, "bootstrap") /\ c.op = "me"
    /\ LET w == tab[c.tab]
       IN  CASE reply.kind = "ok" ->
                  Settle(c, reply, Rehydrating(w, "bootstrap", reply, Unsettled(c)),
                         RehydrateCalls(c.tab, w, "bootstrap"))
             [] reply.kind = "lapsed" ->
                  Settle(c, reply,
                         [Unshown(w) EXCEPT !.session = Lifecycle(reply), !.busy = FALSE,
                                            !.ui = "consent_outdated"], {})
             [] OTHER -> Settle(c, reply, Idle(c, SessionFailure(w, reply, "error")), {})

\* One of the two requests of rehydrate settles; Promise.all rejects with the first failure
\* and ignores what comes after it.
RehydrateAnswered(c, reply) ==
    /\ c.op \in {"getPrefs", "listFeedback"} /\ c.task \in {"bootstrap", "consent"}
    /\ Awaited(c, c.task)
    /\ LET w == tab[c.tab]
           got == Arrived(w, c, reply)
           failed == [w EXCEPT !.load = NoLoad]
       IN  CASE w.load.task # c.task -> Settle(c, reply, w, {})
             [] w.load.task = c.task /\ reply.kind = "ok" ->
                  Settle(c, reply, IF Complete(got)
                                   THEN Idle(c, Rehydrated(got)) ELSE got, {})
             [] w.load.task = c.task /\ reply.kind # "ok" /\ c.task = "bootstrap" ->
                  Settle(c, reply, Idle(c, SessionFailure(failed, reply, "error")), {})
             [] OTHER -> Settle(c, reply, Idle(c, [failed EXCEPT !.ui = "error"]), {})

\* consent: "Enable saved personalization" has no token, "Continue" sends the one it has.
Enable(t) ==
    LET w == [tab[t] EXCEPT !.busy = TRUE]
    IN  /\ tab[t].ui = "stateless" /\ ~MutationPending(tab[t])
        /\ Click(t, w, {Call(t, w, "consent", "create")})

Continue(t) ==
    LET w == tab[t]
    IN  /\ w.ui = "consent_outdated" /\ ~MutationPending(w)
        /\ IF w.session # NoLifecycle /\ w.session.version # w.page
           THEN Click(t, [w EXCEPT !.ui = "error"], {})
           ELSE Click(t, [w EXCEPT !.busy = TRUE], {Signed(Call(t, w, "consent", "create"), w)})

ConsentAnswered(c, reply) ==
    /\ Awaited(c, "consent") /\ c.op = "create"
    /\ LET w == tab[c.tab]
           fallback == IF c.csrf = NoSession THEN "stateless" ELSE "consent_outdated"
       IN  IF reply.kind = "ok"
           THEN Settle(c, reply, Rehydrating(w, "consent", reply, Unsettled(c)),
                       RehydrateCalls(c.tab, w, "consent"))
           ELSE Settle(c, reply, Idle(c, SessionFailure(w, reply, fallback)), {})

-----------------------------------------------------------------------------
\* clearAllData
Clear(t) ==
    LET w == [tab[t] EXCEPT !.epoch = @ + 1, !.busy = TRUE, !.load = NoLoad]
    IN  /\ tab[t].ui \in {"active", "consent_outdated", "error"}
        /\ tab[t].session # NoLifecycle /\ ~MutationPending(tab[t])
        /\ Click(t, w, {Signed(Call(t, w, "clear", "delete"), w)})

ClearAnswered(c, reply) ==
    /\ Awaited(c, "clear")
    /\ LET w == tab[c.tab]
       IN  IF reply.kind = "ok"
           THEN Settle(c, reply, [ClearRouteMemory(w) EXCEPT !.ui = "stateless"], {})
           ELSE Settle(c, reply, Idle(c, SessionFailure(w, reply, w.ui)), {})

-----------------------------------------------------------------------------
\* The workspace is rendered while durable is set and the state is active.
Workspace(t) == tab[t].shown # NoShown /\ tab[t].ui = "active" /\ ~MutationPending(tab[t])

SavePreferences(t) ==
    /\ Workspace(t)
    /\ LET w == [tab[t] EXCEPT !.busy = TRUE]
           call == Signed(Call(t, w, "preferences", "putPrefs"), w)
       IN  \E draft \in Prefs \cup {NoPrefs} : Click(t, w, {[call EXCEPT !.prefs = draft]})

ClearPreferences(t) ==
    /\ Workspace(t)
    /\ LET w == [tab[t] EXCEPT !.busy = TRUE]
       IN  Click(t, w, {Signed(Call(t, w, "preferences", "clearPrefs"), w)})

PreferencesAnswered(c, reply) ==
    /\ Awaited(c, "preferences")
    /\ LET w == tab[c.tab]
           saved == [w EXCEPT !.personal = NoResult,
                              !.shown = [@ EXCEPT !.prefs = reply.prefs, !.prefsOf = reply.session]]
       IN  Settle(c, reply, Idle(c, IF reply.kind = "ok" THEN saved
                                    ELSE SessionFailure(w, reply, "active")), {})

FeedbackTasks == {"saveFeedback", "clearFeedback"}

\* "Generate saved recommendations", and the generation a feedback change ends with.
HasSavedContext(w) == w.shown.prefs # NoPrefs

Generate(t) ==
    /\ Workspace(t) /\ HasSavedContext(tab[t])
    /\ LET w == [tab[t] EXCEPT !.busy = TRUE]
       IN  Click(t, w, {Signed(Call(t, w, "generate", "recommend"), w)})

Generated(w, reply) == [w EXCEPT !.personal = [session |-> reply.session, prefs |-> reply.prefs,
                                               feedback |-> reply.feedback]]

GenerationAnswered(c, reply) ==
    /\ c.op = "recommend" /\ c.task \in {"generate"} \cup FeedbackTasks /\ Awaited(c, c.task)
    /\ LET w == tab[c.tab]
           done == IF reply.kind = "ok" THEN Generated(w, reply)
                   ELSE SessionFailure(w, reply, "active")
       IN  Settle(c, reply, IF c.task = "generate" THEN Idle(c, done) ELSE Unpended(c, done), {})

-----------------------------------------------------------------------------
\* saveFeedback and clearFeedback: the change, the list again, a new generation.
SaveFeedback(t) ==
    /\ Workspace(t)
    /\ \E g \in Games, reaction \in Reactions \cup {NoReaction} :
         /\ tab[t].personal # NoResult \/ tab[t].shown.feedback[g] # NoReaction
         /\ LET w == [tab[t] EXCEPT !.pending = g, !.assured = @ \ {g}]
                call == Signed(Call(t, w, "saveFeedback", "putFeedback"), w)
            IN  Click(t, w, {[call EXCEPT !.game = g, !.reaction = reaction]})

ClearFeedback(t) ==
    /\ Workspace(t)
    /\ \E g \in Games :
         /\ tab[t].shown.feedback[g] # NoReaction
         /\ LET w == [tab[t] EXCEPT !.pending = g]
            IN  Click(t, w, {[Signed(Call(t, w, "clearFeedback", "clearFeedback"), w) EXCEPT !.game = g]})

\* catch: the message of a failed save says that the last saved feedback is still shown, also
\* when the failure has just cleared the tab.
FeedbackFailed(c, w, reply) ==
    LET after == SessionFailure(w, reply, "active")
    IN  Unpended(c, [after EXCEPT !.assured = IF c.task = "saveFeedback" THEN @ \cup {c.game}
                                              ELSE @ \ {c.game}])

FeedbackAnswered(c, reply) ==
    /\ c.op \in {"putFeedback", "clearFeedback"} /\ Awaited(c, c.task)
    /\ LET w == tab[c.tab]
           refresh == [Call(c.tab, w, c.task, "listFeedback") EXCEPT !.game = c.game]
       IN  IF reply.kind = "ok"
           THEN Settle(c, reply, [w EXCEPT !.personal = NoResult], {refresh})
           ELSE Settle(c, reply, FeedbackFailed(c, w, reply), {})

RefreshAnswered(c, reply) ==
    /\ c.op = "listFeedback" /\ c.task \in FeedbackTasks /\ Awaited(c, c.task)
    /\ LET w == tab[c.tab]
           fresh == [w EXCEPT !.shown = [@ EXCEPT !.feedback = reply.feedback,
                                                  !.feedbackOf = reply.session],
                              !.assured = @ \ {c.game}]
       IN  IF reply.kind = "ok"
           THEN Settle(c, reply, fresh, {Signed(Call(c.tab, w, c.task, "recommend"), w)})
           ELSE Settle(c, reply, FeedbackFailed(c, w, reply), {})

-----------------------------------------------------------------------------
\* The answer of an earlier epoch, or of the page before a reload: the cookie still counts.
LateAnswer(c, reply) ==
    /\ c.epoch # tab[c.tab].epoch
    /\ Settle(c, reply, tab[c.tab], {})

Receive ==
    \E c \in {x \in net : x.stage # "detached"} : \E reply \in Outcomes(c) :
        \/ BootstrapAnswered(c, reply)   \/ RehydrateAnswered(c, reply)
        \/ ConsentAnswered(c, reply)     \/ ClearAnswered(c, reply)
        \/ PreferencesAnswered(c, reply) \/ GenerationAnswered(c, reply)
        \/ FeedbackAnswered(c, reply)    \/ RefreshAnswered(c, reply)
        \/ LateAnswer(c, reply)

User == \E t \in Tabs :
    \/ Retry(t) \/ Reload(t) \/ Enable(t) \/ Continue(t) \/ Clear(t)
    \/ SavePreferences(t) \/ ClearPreferences(t) \/ Generate(t)
    \/ SaveFeedback(t) \/ ClearFeedback(t)

Handle == (\E c \in net : Serve(c)) /\ UNCHANGED <<tab, clicks, lost, switched>>

Environment == (Upgrade \/ LapseCookie \/ \E s \in Sessions : EndSession(s))
               /\ UNCHANGED <<tab, clicks, lost, switched>>

\* A tab that has loaded: nothing saved, or the profile of the session in the cookie jar.
Loaded(start) ==
    [Mounted(1, 1) EXCEPT
       !.busy = FALSE,
       !.ui = IF start.session = NoSession THEN "stateless" ELSE "active",
       !.session = IF start.session = NoSession THEN NoLifecycle
                   ELSE [id |-> start.session, version |-> 1],
       !.shown = IF start.session = NoSession THEN NoShown
                 ELSE [session |-> start.session, prefs |-> start.prefs,
                       prefsOf |-> start.session, feedback |-> start.feedback,
                       feedbackOf |-> start.session]]

Init ==
    /\ \E start \in Starts : /\ ApiInit(start.session, start.prefs, start.feedback)
                             /\ tab = [t \in Tabs |-> Loaded(start)]
    /\ clicks = 0
    /\ lost = 0
    /\ switched = {}

Next == User \/ Receive \/ Handle \/ Environment

\* The server answers, and a fetch settles with the answer or with an error.
Spec == Init /\ [][Next]_vars /\ WF_vars(Handle) /\ WF_vars(Receive)

-----------------------------------------------------------------------------
(***************************************************************************)
(* Properties                                                              *)
(***************************************************************************)

CallRecords ==
    [tab : Tabs, epoch : Nat, task : Tasks, op : Ops, stage : {"sent", "served", "detached"},
     cookie : Sessions \cup {NoSession}, csrf : Sessions \cup {NoSession}, version : Versions,
     prefs : Prefs \cup {NoPrefs}, game : Games \cup {NoGame},
     reaction : Reactions \cup {NoReaction}, reply : Replies]

ShownProfiles == [session : Sessions \cup {NoSession}, prefs : Prefs \cup {NoPrefs},
                  prefsOf : Sessions \cup {NoSession}, feedback : Feedback,
                  feedbackOf : Sessions \cup {NoSession}]

Memories ==
    [ui : States, busy : BOOLEAN, pending : Games \cup {NoGame}, epoch : Nat,
     session : [id : Sessions \cup {NoSession}, version : Versions \cup {0}],
     shown : ShownProfiles,
     personal : [session : Sessions \cup {NoSession}, prefs : Prefs \cup {NoPrefs},
                 feedback : Feedback],
     load : [task : {"none", "bootstrap", "consent"}, session : Sessions \cup {NoSession},
             prefs : Replies, list : Replies],
     assured : SUBSET Games, page : Versions, doubt : BOOLEAN]

TypeOK ==
    /\ row \in [Sessions -> {"unused", "live", "over"}]
    /\ consent \in [Sessions -> Versions] /\ version \in Versions
    /\ prefs \in [Sessions -> Prefs \cup {NoPrefs}]
    /\ feedback \in [Sessions -> Feedback]
    /\ jar \in Sessions \cup {NoSession}
    /\ net \subseteq CallRecords
    /\ tab \in [Tabs -> Memories]
    /\ clicks \in Nat /\ lost \in Nat /\ switched \subseteq Tabs

\* The workspace is there exactly while the panel says that saved personalization is
\* active, and recommendations shown as saved ones were made for the session it shows:
\* every way a session is lost takes what it showed with it, whatever the other tabs did
\* to the cookie in the meantime.
ShownBelongs(w) ==
    /\ IF w.ui = "active"
       THEN w.shown.session \in Sessions /\ w.shown.session = w.session.id
       ELSE w.shown = NoShown /\ w.personal = NoResult
    /\ w.personal # NoResult => w.personal.session = w.session.id
ShownBelongsToActiveSession == \A t \in Tabs : ShownBelongs(tab[t])

\* The calls whose answers tab t listens to, and those of them that rehydrate it.
Heard(t) == {c \in net : c.tab = t /\ c.epoch = tab[t].epoch /\ c.stage # "detached"}
Rehydrates(c) == c.op \in {"getPrefs", "listFeedback"} /\ c.task \in {"bootstrap", "consent"}

\* A load has the session of the tab and happens in a state without workspace.
LoadFits(w) ==
    w.load.task # "none" =>
        /\ w.load.session \in Sessions /\ w.load.session = w.session.id
        /\ MutationPending(w)
        /\ w.ui \in IF w.load.task = "bootstrap" THEN {"bootstrapping"}
                    ELSE {"stateless", "consent_outdated"}

\* A listened-to call of a handler finds the tab in the state the handler left it in.
HandlerFits(c, w) ==
    /\ ~Rehydrates(c) /\ w.load.task = "none" /\ MutationPending(w)
    /\ \/ c.task = "bootstrap" /\ c.op = "me" /\ w.ui = "bootstrapping"
       \/ c.task = "consent" /\ c.op = "create" /\ w.ui \in {"stateless", "consent_outdated"}
       \/ c.task = "clear" /\ c.op = "delete"
       \/ /\ w.ui = "active"
          /\ c.op = "recommend" => c.csrf = w.session.id
          /\ \/ c.task = "preferences" /\ c.op \in {"putPrefs", "clearPrefs"}
             \/ c.task = "generate" /\ c.op = "recommend"
             \/ /\ c.task \in FeedbackTasks
                /\ c.op \in {"putFeedback", "clearFeedback", "listFeedback", "recommend"}
                /\ c.op # "recommend" => c.game \in Games

\* One of the two requests of a load: its answer is missing, or the load has failed.
RehydrationFits(c, w) ==
    /\ Rehydrates(c)
    /\ IF w.load.task = c.task
       THEN (IF c.op = "getPrefs" THEN w.load.prefs ELSE w.load.list) = NoReply
       ELSE c.task = "consent" => w.ui = "error"

\* Two of them: only what is left of a failed load stays beside a later handler.
Outlives(c, d) == /\ Rehydrates(c) /\ c.task = "bootstrap"
                  /\ ~Rehydrates(d) /\ d.task \notin {"bootstrap", "clear"}
Beside(c, d) == \/ Outlives(c, d) \/ Outlives(d, c)
                \/ Rehydrates(c) /\ Rehydrates(d) /\ (c.task = d.task => c.op # d.op)

\* The handlers of a tab take turns: no two of them wait at once in the same epoch,
\* although an answer may come after its handler has given up.
TakeTurns(w, heard) ==
    /\ LoadFits(w)
    /\ \A c \in heard : HandlerFits(c, w) \/ RehydrationFits(c, w)
    /\ \A c, d \in heard : c # d => Beside(c, d)
HandlersTakeTurns == \A t \in Tabs : TakeTurns(tab[t], Heard(t))

\* What an answer says of the session is the server's word: it is the one of the cookie, or
\* a new one with its own, which only opting in sets; an accepted generation is of the
\* session whose token signed the call.
Honest(c, reply) ==
    /\ reply.kind \in {"ok", "lapsed"} =>
         /\ reply.session \in Sessions
         /\ IF c.cookie = NoSession THEN reply.sets ELSE reply.session = c.cookie
    /\ reply.sets => c.op = "create" /\ reply.kind = "ok"
    /\ reply.kind = "ok" /\ c.op = "recommend" => reply.session = c.csrf
    /\ reply.kind = "stale" => c.op = "recommend"
AnswersAreHonest == \A c \in net : Honest(c, c.reply) /\ c.epoch <= tab[c.tab].epoch

TabsInv == TypeOK /\ ShownBelongsToActiveSession /\ HandlersTakeTurns /\ AnswersAreHonest

\* "A single current-session key so stale or prior-session responses cannot win": what a tab
\* shows as one saved profile comes from the session it names, though the answers of a
\* session that was cleared, or has ended, are still on their way, unless the browser got
\* the cookie of another session since the tab last asked for its own.
OneSession(w) == w.shown.prefsOf = w.shown.session /\ w.shown.feedbackOf = w.shown.session
OneSessionShown == \A t \in Tabs \ switched : tab[t].shown # NoShown => OneSession(tab[t])

\* Why: until then the cookie of the browser, and those of the calls that read or change
\* saved data and that the tab still listens to, are the one of the session it loads or
\* shows, or none.
FollowsTheCookie(w, heard) ==
    LET mine == {w.session.id, NoSession}
    IN  /\ w.shown # NoShown => OneSession(w) /\ jar \in mine
        /\ w.load.task # "none" =>
             /\ jar \in mine
             /\ \A reply \in {w.load.prefs, w.load.list} :
                   reply # NoReply => reply.session = w.session.id
        /\ \A c \in heard :
              /\ c.op \in {"me", "create"} => jar \in {c.cookie, NoSession}
              /\ c.op \in Owned /\ (Rehydrates(c) => w.load.task = c.task) => c.cookie \in mine
TabsFollowTheCookie == \A t \in Tabs \ switched : FollowsTheCookie(tab[t], Heard(t))

\* The invariant of any number of tabs.
FlowInv == TabsInv /\ TabsFollowTheCookie

\* Saved data changes only in the step that answers a call signed with that session's
\* token: a tab never writes to a session it was not showing when the user acted.
ChangesAreSigned ==
    [][\A s \in Sessions : prefs'[s] # prefs[s] \/ feedback'[s] # feedback[s] =>
          \E c \in net \ net' : c.stage # "served" /\ c.csrf = s]_vars

\* A consent version is recorded only in the step that answers the opt-in of a page that
\* showed the notice of that version.
ConsentIsInformed ==
    [][\A s \in Sessions : consent'[s] # consent[s] \/ (row[s] = "unused" /\ row'[s] = "live") =>
          \E c \in net \ net' : c.op = "create" /\ c.version = consent'[s]]_vars

\* With one tab and nothing in flight, what the tab shows is what is stored, unless a
\* failed change has left the outcome in doubt since the last load, or the cookie was
\* replaced; and recommendations on display were made from exactly that.
ShownIsStored ==
    \A t \in Tabs \ switched :
        LET w == tab[t] s == tab[t].session.id
        IN  (/\ w.shown # NoShown /\ ~w.doubt /\ row[s] = "live"
             /\ \A c \in net : c.tab # t)
            => /\ w.shown.prefs = prefs[s] /\ w.shown.feedback = feedback[s]
               /\ w.personal # NoResult =>
                    w.personal.prefs = prefs[s] /\ w.personal.feedback = feedback[s]

\* Why: until then a change that is still on its way is one the tab awaits, what it was told
\* is what is stored, and only an answer that will tell it otherwise keeps it from showing that.
PrefsChanges    == {"putPrefs", "clearPrefs"}
FeedbackChanges == {"putFeedback", "clearFeedback"}
Changing(calls) == {c \in calls : c.op \in PrefsChanges \cup FeedbackChanges /\ c.stage # "served"}
Accepted(c)     == c.stage = "served" /\ c.reply.kind = "ok"
Refreshes(c)    == c.op = "listFeedback" /\ ~Rehydrates(c)

\* Of a session that has saved preferences p and feedback f, by a tab that listens to "heard".
Agrees(told, p, f) == told.prefs = p /\ told.feedback = f

WasTold(w, heard, p, f) ==
    /\ \A c \in heard : /\ c.op \in Owned /\ Accepted(c)
                        /\ Rehydrates(c) => w.load.task = c.task
                        => Agrees(c.reply, p, f)
    /\ w.load.task # "none" =>
         \A reply \in {w.load.prefs, w.load.list} : reply # NoReply => Agrees(reply, p, f)

ShowsOrWillHear(w, heard, p, f) ==
    /\ \/ \E c \in heard : c.op \in PrefsChanges /\ Accepted(c)
       \/ w.shown.prefs = p /\ (w.personal # NoResult => w.personal.prefs = p)
    /\ \/ \E c \in heard : (c.op \in FeedbackChanges /\ Accepted(c)) \/ Refreshes(c)
       \/ w.shown.feedback = f /\ (w.personal # NoResult => w.personal.feedback = f)
    /\ \A c \in heard : Refreshes(c) => w.personal = NoResult

UpToDate(w, heard, calls, p, f) ==
    /\ Changing(calls) \subseteq heard
    /\ WasTold(w, heard, p, f)
    /\ w.shown # NoShown => ShowsOrWillHear(w, heard, p, f)

Undoubted(w) == (w.shown # NoShown \/ w.load.task # "none") /\ ~w.doubt

StoredInv ==
    \A t \in Tabs \ switched :
        LET w == tab[t] s == tab[t].session.id
        IN  Undoubted(w) /\ row[s] # "over" => UpToDate(w, Heard(t), net, prefs[s], feedback[s])

\* Every tab that waits stops waiting: no path of a handler leaves the buttons disabled.
EveryTabSettles == \A t \in Tabs : MutationPending(tab[t]) ~> ~MutationPending(tab[t])

(* Not kept by the code, and in no run: README.md, "Observations", has the behaviours. *)

\* "The server fails closed and clears the stale cookie": a cookie that is cleared names
\* a session that is over.
OnlyStaleCookiesAreCleared == [][jar # NoSession /\ jar' = NoSession => row[jar] = "over"]_vars

\* "Your last saved feedback is still shown": said of a game, the feedback shown for it is
\* the one that is stored.
AssuranceIsTrue ==
    \A t \in Tabs : \A g \in tab[t].assured :
        tab[t].shown # NoShown /\ row[tab[t].session.id] = "live" =>
            tab[t].shown.feedback[g] = feedback[tab[t].session.id][g]
=============================================================================
