------------------------ MODULE PersistentFlowProofs ------------------------
(***************************************************************************)
(* Proofs about PersistentFlow for any number of tabs, sessions, games,    *)
(* clicks, consent versions and lost answers: what a tab shows as active   *)
(* belongs to the session it names, a profile on display is of one session *)
(* until the browser gets another cookie behind the tab's back, saved data *)
(* changes only by a signed call, and consent is recorded only for the     *)
(* notice that was shown. For a single tab, what an idle page shows is     *)
(* also what is stored.                                                    *)
(***************************************************************************)
EXTENDS PersistentFlow, TLAPS

USE DEF vars, apiVars, server

-----------------------------------------------------------------------------
(* Following the cookie. *)

\* FollowsTheCookie, for a jar that holds the cookie s.
Tied(w, heard, s) ==
    /\ w.shown # NoShown => OneSession(w) /\ s \in {w.session.id, NoSession}
    /\ w.load.task # "none" =>
         /\ s \in {w.session.id, NoSession}
         /\ w.load.prefs # NoReply => w.load.prefs.session = w.session.id
         /\ w.load.list # NoReply => w.load.list.session = w.session.id
    /\ \A c \in heard :
         /\ c.op \in {"me", "create"} => s \in {c.cookie, NoSession}
         /\ c.op \in Owned /\ (Rehydrates(c) => w.load.task = c.task) =>
              c.cookie \in {w.session.id, NoSession}

LEMMA Following ==
    /\ TabsFollowTheCookie <=> \A t \in Tabs \ switched : Tied(tab[t], Heard(t), jar)
    /\ TabsFollowTheCookie' <=> \A t \in Tabs \ switched' : Tied(tab'[t], Heard(t)', jar')
<1>1. TabsFollowTheCookie <=> \A t \in Tabs \ switched : Tied(tab[t], Heard(t), jar)
  BY Zenon DEF TabsFollowTheCookie, FollowsTheCookie, Tied
<1>2. TabsFollowTheCookie' <=> \A t \in Tabs \ switched' : Tied(tab'[t], Heard(t)', jar')
  BY Zenon DEF TabsFollowTheCookie, FollowsTheCookie, Tied, OneSession, NoShown, NoReply,
               NoFeedback, Rehydrates, Owned, Protected
<1> QED BY <1>1, <1>2

\* To hear less, or to lose the cookie, does not matter.
LEMMA StaysTied ==
    ASSUME NEW w, NEW L, NEW M, M \subseteq L, NEW s, Tied(w, L, s), NEW r \in {s, NoSession}
    PROVE  Tied(w, M, r)
BY Zenon DEF Tied

-----------------------------------------------------------------------------
(* The server. *)

\* An answer the server gives is a reply, whatever its kind.
LEMMA AReply ==
    ASSUME TypeOK, NEW kind \in Kinds, NEW s \in Sessions \cup {NoSession}
    PROVE  /\ Reply(kind, s) \in Replies
           /\ Reply(kind, s).kind = kind /\ Reply(kind, s).session = s
           /\ ~Reply(kind, s).sets
BY SMT DEF TypeOK, Reply, Replies, NoFeedback, Feedback

\* A call that its tab listens to stays the same call for the tab when it is answered.
LEMMA Answering ==
    ASSUME FlowInv, NEW c \in net, c.stage # "served", NEW reply \in Replies,
           Honest(c, reply), AnswerWith(c, reply), UNCHANGED <<tab, jar, switched>>
    PROVE  /\ net' \subseteq CallRecords /\ HandlersTakeTurns' /\ AnswersAreHonest'
           /\ TabsFollowTheCookie'
<1> DEFINE d == [c EXCEPT !.stage = "served", !.reply = reply]
           Old(x) == IF x = d /\ x \notin net \ {c} THEN c ELSE x
<1>0. c \in CallRecords
  BY Zenon DEF FlowInv, TabsInv, TypeOK
<1>1. /\ d \in CallRecords
      /\ d.tab = c.tab /\ d.epoch = c.epoch /\ d.task = c.task /\ d.op = c.op /\ d.game = c.game
      /\ d.csrf = c.csrf /\ d.cookie = c.cookie /\ d.reply = reply /\ d.stage = "served"
  <2> DEFINE e == [c EXCEPT !.stage = "served"]
  <2>1. /\ e \in CallRecords
        /\ e.tab = c.tab /\ e.epoch = c.epoch /\ e.task = c.task /\ e.op = c.op /\ e.game = c.game
        /\ e.csrf = c.csrf /\ e.cookie = c.cookie /\ e.stage = "served"
    BY <1>0, SMT DEF CallRecords
  <2>2. d = [e EXCEPT !.reply = reply]
    BY <1>0, SMT DEF CallRecords
  <2> HIDE DEF d, e
  <2> QED BY <2>1, <2>2, SMT DEF CallRecords
<1>2. \A x \in net' : x \in net \ {c} \/ (x = d /\ c.stage # "detached")
  BY Zenon DEF AnswerWith
<1> HIDE DEF d
<1>3. \A x \in net' : /\ Old(x) \in net /\ (x.stage # "detached" => Old(x).stage # "detached")
                      /\ Old(x).tab = x.tab /\ Old(x).epoch = x.epoch /\ Old(x).task = x.task
                      /\ Old(x).op = x.op /\ Old(x).csrf = x.csrf /\ Old(x).game = x.game
                      /\ Old(x).cookie = x.cookie
                      /\ (Old(x) = x \/ (x.reply = reply /\ Old(x) = c))
  <2> SUFFICES ASSUME NEW x \in net'
               PROVE  /\ Old(x) \in net /\ (x.stage # "detached" => Old(x).stage # "detached")
                      /\ Old(x).tab = x.tab /\ Old(x).epoch = x.epoch /\ Old(x).task = x.task
                      /\ Old(x).op = x.op /\ Old(x).csrf = x.csrf /\ Old(x).game = x.game
                      /\ Old(x).cookie = x.cookie
                      /\ (Old(x) = x \/ (x.reply = reply /\ Old(x) = c))
    OBVIOUS
  <2>1. CASE x \in net \ {c}
    <3>1. Old(x) = x
      BY <2>1
    <3> QED BY <3>1, <2>1, Zenon
  <2>2. CASE x \notin net \ {c}
    <3>1. x = d /\ c.stage # "detached"
      BY <2>2, <1>2
    <3>2. Old(x) = c
      BY <2>2, <3>1
    <3> QED BY <3>1, <3>2, <1>1, Zenon
  <2> QED BY <2>1, <2>2
<1>4. \A x, y \in net' : x # y => Old(x) # Old(y)
  BY <1>2, Zenon
<1>5. net' \subseteq CallRecords
  BY <1>0, <1>1, <1>2, Zenon DEF FlowInv, TabsInv, TypeOK
<1> HIDE DEF Old
<1>6. ASSUME NEW t \in Tabs PROVE TakeTurns(tab[t], Heard(t))'
  <2>1. TakeTurns(tab[t], Heard(t))
    BY Zenon DEF FlowInv, TabsInv, HandlersTakeTurns
  <2>2. \A x \in Heard(t)' : x \in net' /\ Old(x) \in Heard(t)
    BY <1>3, Zenon DEF Heard
  <2>3. ASSUME NEW x \in Heard(t)'
        PROVE  HandlerFits(x, tab[t]) \/ RehydrationFits(x, tab[t])
    <3>1. HandlerFits(Old(x), tab[t]) \/ RehydrationFits(Old(x), tab[t])
      BY <2>1, <2>2, Zenon DEF TakeTurns
    <3>2. /\ Old(x).task = x.task /\ Old(x).op = x.op /\ Old(x).csrf = x.csrf
          /\ Old(x).game = x.game
      BY <1>3, <2>2, Zenon
    <3> QED BY <3>1, <3>2, Zenon DEF HandlerFits, RehydrationFits, Rehydrates
  <2>4. ASSUME NEW x \in Heard(t)', NEW y \in Heard(t)', x # y PROVE Beside(x, y)
    <3>1. Beside(Old(x), Old(y))
      BY <2>1, <2>2, <1>4, <2>4, Zenon DEF TakeTurns
    <3>2. /\ Old(x).task = x.task /\ Old(x).op = x.op
          /\ Old(y).task = y.task /\ Old(y).op = y.op
      BY <1>3, <2>2, Zenon
    <3> QED BY <3>1, <3>2, Zenon DEF Beside, Outlives, Rehydrates
  <2> QED BY <2>1, <2>3, <2>4, Zenon DEF TakeTurns
<1>7. AnswersAreHonest'
  <2> SUFFICES ASSUME NEW x \in net' PROVE Honest(x, x.reply) /\ x.epoch <= tab[x.tab].epoch
    BY Zenon DEF AnswersAreHonest
  <2>1. Honest(Old(x), Old(x).reply) /\ Old(x).epoch <= tab[Old(x).tab].epoch
    BY <1>3, Zenon DEF FlowInv, TabsInv, AnswersAreHonest
  <2>2. /\ Old(x).tab = x.tab /\ Old(x).epoch = x.epoch
        /\ Old(x).op = x.op /\ Old(x).csrf = x.csrf /\ Old(x).cookie = x.cookie
        /\ (Old(x) = x \/ (x.reply = reply /\ Old(x) = c))
    BY <1>3, Zenon
  <2> QED BY <2>1, <2>2, Zenon DEF Honest
<1>8. ASSUME NEW t \in Tabs, t \notin switched' PROVE Tied(tab'[t], Heard(t)', jar')
  <2>1. Tied(tab[t], Heard(t), jar)
    BY <1>8, Following, Zenon DEF FlowInv
  <2>2. \A x \in Heard(t)' : /\ Old(x) \in Heard(t) /\ Old(x).op = x.op
                             /\ Old(x).task = x.task /\ Old(x).cookie = x.cookie
    BY <1>3, Zenon DEF Heard
  <2>3. Tied(tab[t], Heard(t)', jar)
    BY <2>1, <2>2, Zenon DEF Tied, Rehydrates
  <2> QED BY <2>3, Zenon
<1> QED BY <1>5, <1>6, <1>7, <1>8, Following, Zenon DEF HandlersTakeTurns

\* A call is let through only with a cookie of the sessions, a protected one only with the
\* token of that session, and consent only to the version that is in force.
LEMMA LetThrough ==
    ASSUME FlowInv, NEW c \in net, "ok" \in Verdicts(c)
    PROVE  /\ c.op # "create" => c.cookie \in Sessions
           /\ c.op \in Protected => c.csrf = c.cookie
           /\ c.op = "create" => c.version = version
<1>1. c \in CallRecords /\ c.cookie \in Sessions \cup {NoSession}
  BY SMT DEF FlowInv, TabsInv, TypeOK, CallRecords
<1>2. CASE c.op = "create"
  <2>1. CreateVerdict(c) = "ok"
    BY <1>2, Zenon DEF Verdicts
  <2> QED BY <2>1, <1>2, SMT DEF CreateVerdict, Protected
<1>3. CASE c.op # "create"
  <2>1. SessionVerdict(c) = "ok"
    BY <1>3, Zenon DEF Verdicts
  <2> QED BY <2>1, <1>1, <1>3, SMT DEF SessionVerdict
<1> QED BY <1>2, <1>3

\* What the server refuses with is one of the kinds, and only a generation is stale.
LEMMA Refusal ==
    ASSUME NEW c, NEW verdict \in Verdicts(c)
    PROVE  /\ verdict \in Kinds \ {"lapsed"}
           /\ verdict = "stale" => c.op = "recommend"
<1>1. CreateVerdict(c) \in {"outdated", "expired", "failed", "ok"}
  BY SMT DEF CreateVerdict
<1>2. SessionVerdict(c) \in {"unauthorized", "failed", "expired", "outdated", "ok"}
  BY SMT DEF SessionVerdict
<1>3. CASE c.op = "putPrefs" /\ c.prefs = NoPrefs
  BY <1>1, <1>2, <1>3, SMT DEF Verdicts, BodyVerdicts, Kinds
<1>4. CASE c.op = "recommend" 
  BY <1>1, <1>2, <1>4, SMT DEF Verdicts, BodyVerdicts, Kinds
<1>5. CASE c.op # "recommend" /\ ~(c.op = "putPrefs" /\ c.prefs = NoPrefs)
  BY <1>1, <1>2, <1>5, SMT DEF Verdicts, BodyVerdicts, Kinds
<1> QED BY <1>3, <1>4, <1>5

\* The rows of the server keep their types, and what it answers with is an honest reply.
ServerTypeOK == /\ row \in [Sessions -> {"unused", "live", "over"}]
                /\ consent \in [Sessions -> Versions] /\ version \in Versions
                /\ prefs \in [Sessions -> Prefs \cup {NoPrefs}]
                /\ feedback \in [Sessions -> Feedback]

Answered(c) == \E reply \in Replies : Honest(c, reply) /\ AnswerWith(c, reply)

LEMMA ASnapshot ==
    ASSUME TypeOK, ServerTypeOK', NEW s \in Sessions, NEW sets \in BOOLEAN
    PROVE  /\ Snapshot(s, sets) \in Replies
           /\ Snapshot(s, sets).kind = "ok" /\ Snapshot(s, sets).session = s
           /\ Snapshot(s, sets).sets = sets
<1>1. prefs'[s] \in Prefs \cup {NoPrefs} /\ feedback'[s] \in Feedback
  BY DEF ServerTypeOK
<1>2. Reply("ok", s) \in Replies /\ Reply("ok", s).kind = "ok" /\ Reply("ok", s).session = s
  BY AReply DEF Kinds
<1> DEFINE a == [Reply("ok", s) EXCEPT !.sets = sets]
           b == [a EXCEPT !.prefs = prefs'[s]]
           d == [b EXCEPT !.feedback = feedback'[s]]
<1>3. a \in Replies /\ a.kind = "ok" /\ a.session = s /\ a.sets = sets
  BY <1>2, SMT DEF Replies
<1>4. b \in Replies /\ b.kind = "ok" /\ b.session = s /\ b.sets = sets
  <2> HIDE DEF a
  <2> QED BY <1>1, <1>3, SMT DEF Replies
<1>5. d \in Replies /\ d.kind = "ok" /\ d.session = s /\ d.sets = sets
  <2> HIDE DEF b
  <2> QED BY <1>1, <1>4, SMT DEF Replies
<1>6. Snapshot(s, sets) = d
  BY <1>2, SMT DEF Snapshot, Replies
<1> QED BY <1>5, <1>6

LEMMA EffectAnswers ==
    ASSUME FlowInv, NEW c \in net, "ok" \in Verdicts(c), Effect(c), UNCHANGED version
    PROVE  ServerTypeOK' /\ Answered(c)
<1>0. /\ c \in CallRecords /\ c.op \in Ops /\ c.prefs \in Prefs \cup {NoPrefs}
      /\ c.reaction \in Reactions \cup {NoReaction} /\ c.cookie \in Sessions \cup {NoSession}
  BY SMT DEF FlowInv, TabsInv, TypeOK, CallRecords
<1>1. /\ c.op # "create" => c.cookie \in Sessions
      /\ c.op \in Protected => c.csrf = c.cookie
  BY LetThrough, Zenon
<1>2. TypeOK /\ ServerTypeOK
  BY Zenon DEF FlowInv, TabsInv, TypeOK, ServerTypeOK
<1>3. CASE c.op = "create" /\ CreateSession(c)
  <2>1. PICK s \in Sessions : /\ row' = [row EXCEPT ![s] = "live"]
                              /\ consent' = [consent EXCEPT ![s] = version]
                              /\ UNCHANGED <<prefs, feedback>>
                              /\ AnswerWith(c, Snapshot(s, TRUE))
    BY <1>3, Zenon DEF CreateSession
  <2>2. ServerTypeOK'
    BY <2>1, <1>2, SMT DEF ServerTypeOK
  <2>3. /\ Snapshot(s, TRUE) \in Replies
        /\ Snapshot(s, TRUE).kind = "ok" /\ Snapshot(s, TRUE).session = s
        /\ Snapshot(s, TRUE).sets
    BY <2>2, <1>2, ASnapshot
  <2>4. Honest(c, Snapshot(s, TRUE))
    BY <2>3, <1>3, Zenon DEF Honest, CreateSession
  <2> QED BY <2>1, <2>2, <2>3, <2>4, Zenon DEF Answered
<1>4. CASE c.op = "create" /\ Reconsent(c)
  <2>1. c.cookie \in Sessions /\ c.cookie # NoSession
    BY <1>4, <1>0 DEF Reconsent
  <2>2. ServerTypeOK'
    BY <1>4, <1>2, <2>1, SMT DEF ServerTypeOK, Reconsent
  <2> DEFINE renewed == consent[c.cookie] # version
  <2>3. /\ renewed \in BOOLEAN
        /\ Snapshot(c.cookie, renewed) \in Replies
        /\ Snapshot(c.cookie, renewed).kind = "ok"
        /\ Snapshot(c.cookie, renewed).session = c.cookie
    BY <2>1, <2>2, <1>2, ASnapshot
  <2> QED BY <1>4, <2>1, <2>2, <2>3, Zenon DEF Answered, Honest, Reconsent
<1>5. CASE c.op = "delete" /\ DeleteSession(c)
  <2>1. c.cookie \in Sessions /\ c.cookie # NoSession
    BY <1>1, <1>5, NamesAssumption
  <2>2. ServerTypeOK'
    BY <1>5, <1>2, <2>1, SMT DEF ServerTypeOK, DeleteSession, NoFeedback, Feedback
  <2>3. /\ Reply("ok", c.cookie) \in Replies /\ ~Reply("ok", c.cookie).sets
        /\ Reply("ok", c.cookie).kind = "ok" /\ Reply("ok", c.cookie).session = c.cookie
    BY <2>1, <1>2, AReply DEF Kinds
  <2> QED BY <1>5, <2>1, <2>2, <2>3, Zenon DEF Answered, Honest, DeleteSession
<1>6. CASE c.op \in {"putPrefs", "clearPrefs"} /\ SetPreferences(c)
  <2>1. c.cookie \in Sessions /\ c.cookie # NoSession
    BY <1>1, <1>6, NamesAssumption
  <2>2. ServerTypeOK'
    BY <1>0, <1>6, <1>2, <2>1, SMT DEF ServerTypeOK, SetPreferences
  <2>3. /\ Snapshot(c.cookie, FALSE) \in Replies
        /\ Snapshot(c.cookie, FALSE).kind = "ok"
        /\ Snapshot(c.cookie, FALSE).session = c.cookie
        /\ ~Snapshot(c.cookie, FALSE).sets
    BY <2>1, <2>2, <1>2, ASnapshot
  <2> QED BY <1>6, <2>1, <2>2, <2>3, Zenon DEF Answered, Honest, SetPreferences
<1>7. CASE c.op \in {"putFeedback", "clearFeedback"} /\ SetFeedback(c)
  <2>1. c.cookie \in Sessions /\ c.cookie # NoSession
    BY <1>1, <1>7, NamesAssumption
  <2> DEFINE r == IF c.op = "putFeedback" THEN c.reaction ELSE NoReaction
             saved == [feedback[c.cookie] EXCEPT ![c.game] = r]
  <2>2. saved \in Feedback
    <3>1. feedback[c.cookie] \in [Games -> Reactions \cup {NoReaction}]
      BY <2>1, <1>2, Zenon DEF ServerTypeOK, Feedback
    <3>2. r \in Reactions \cup {NoReaction}
      BY <1>0, Zenon
    <3> HIDE DEF r
    <3> DEFINE old == feedback[c.cookie]
    <3>3. [old EXCEPT ![c.game] = r] \in [Games -> Reactions \cup {NoReaction}]
      <4>1. old \in [Games -> Reactions \cup {NoReaction}]
        BY <3>1
      <4> HIDE DEF old
      <4> QED BY <4>1, <3>2, Zenon
    <3> QED BY <3>3, Zenon DEF Feedback
  <2>3. feedback' = [feedback EXCEPT ![c.cookie] = saved]
    BY <1>7, <1>2, <2>1, SMT DEF SetFeedback, ServerTypeOK
  <2> HIDE DEF saved
  <2>4. ServerTypeOK'
    BY <1>7, <1>2, <2>1, <2>2, <2>3, SMT DEF ServerTypeOK, SetFeedback
  <2>5. /\ Snapshot(c.cookie, FALSE) \in Replies
        /\ Snapshot(c.cookie, FALSE).kind = "ok"
        /\ Snapshot(c.cookie, FALSE).session = c.cookie
        /\ ~Snapshot(c.cookie, FALSE).sets
    BY <2>1, <2>4, <1>2, ASnapshot
  <2> QED BY <1>7, <2>1, <2>4, <2>5, Zenon DEF Answered, Honest, SetFeedback
<1>8. CASE c.op \in {"me", "getPrefs", "listFeedback", "recommend"} /\ Read(c)
  <2>1. c.cookie \in Sessions /\ c.cookie # NoSession
    BY <1>1, <1>8, NamesAssumption
  <2>2. ServerTypeOK'
    BY <1>8, <1>2, SMT DEF ServerTypeOK, Read
  <2> DEFINE kind == IF c.op = "me" /\ consent[c.cookie] # version THEN "lapsed" ELSE "ok"
             reply == [Snapshot(c.cookie, FALSE) EXCEPT !.kind = kind]
  <2>3. kind \in {"ok", "lapsed"}
    OBVIOUS
  <2>4. AnswerWith(c, reply)
    BY <1>8, Zenon DEF Read
  <2> HIDE DEF kind
  <2>5. reply \in Replies /\ reply.kind = kind /\ reply.session = c.cookie /\ ~reply.sets
    <3> DEFINE snapshot == Snapshot(c.cookie, FALSE)
    <3>1. snapshot \in Replies /\ snapshot.session = c.cookie /\ ~snapshot.sets
      BY <2>1, <2>2, <1>2, ASnapshot
    <3>2. reply = [snapshot EXCEPT !.kind = kind]
      OBVIOUS
    <3> HIDE DEF snapshot, reply
    <3> QED BY <3>1, <3>2, <2>3, SMT DEF Replies, Kinds
  <2>6. c.op = "recommend" => reply.session = c.csrf
    BY <2>5, <1>1 DEF Protected
  <2> HIDE DEF reply
  <2>7. Honest(c, reply)
    BY <2>1, <2>3, <2>5, <2>6, SMT DEF Honest
  <2> QED BY <2>2, <2>4, <2>5, <2>7, Zenon DEF Answered
<1> QED BY <1>3, <1>4, <1>5, <1>6, <1>7, <1>8 DEF Effect

\* The server handles a call of a tab.
LEMMA HandleKeeps ==
    ASSUME FlowInv, NEW c \in net, Serve(c), UNCHANGED <<tab, clicks, lost, switched>>
    PROVE  FlowInv'
<1>1. TypeOK /\ ServerTypeOK /\ c \in CallRecords /\ c.cookie \in Sessions \cup {NoSession}
  BY SMT DEF FlowInv, TabsInv, TypeOK, ServerTypeOK, CallRecords
<1>2. c.stage # "served" /\ UNCHANGED <<version, jar>>
  BY DEF Serve
<1>3. PICK verdict \in Verdicts(c) :
         \/ verdict = "ok" /\ Effect(c)
         \/ /\ verdict # "ok"
            /\ UNCHANGED <<row, consent, prefs, feedback>>
            /\ AnswerWith(c, Reply(verdict, c.cookie))
  BY Zenon DEF Serve
<1>4. ServerTypeOK' /\ Answered(c)
  <2>1. CASE verdict = "ok" /\ Effect(c)
    BY <2>1, <1>2, EffectAnswers
  <2>2. CASE /\ verdict # "ok"
             /\ UNCHANGED <<row, consent, prefs, feedback>>
             /\ AnswerWith(c, Reply(verdict, c.cookie))
    <3>1. verdict \in Kinds \ {"lapsed"} /\ (verdict = "stale" => c.op = "recommend")
      BY Refusal
    <3>2. /\ Reply(verdict, c.cookie) \in Replies
          /\ Reply(verdict, c.cookie).kind = verdict /\ ~Reply(verdict, c.cookie).sets
      BY <3>1, <1>1, AReply
    <3>3. Honest(c, Reply(verdict, c.cookie))
      BY <3>1, <3>2, <2>2, SMT DEF Honest
    <3>4. ServerTypeOK'
      BY <2>2, <1>1, <1>2, Zenon DEF ServerTypeOK
    <3> QED BY <3>2, <3>3, <3>4, <2>2, Zenon DEF Answered
  <2> QED BY <1>3, <2>1, <2>2
<1>5. PICK reply \in Replies : Honest(c, reply) /\ AnswerWith(c, reply)
  BY <1>4 DEF Answered
<1>6. /\ net' \subseteq CallRecords /\ HandlersTakeTurns' /\ AnswersAreHonest'
      /\ TabsFollowTheCookie'
  BY <1>2, <1>5, Answering
<1>7. TypeOK'
  BY <1>1, <1>2, <1>4, <1>6, Zenon DEF TypeOK, ServerTypeOK
<1>8. ShownBelongsToActiveSession'
  BY Zenon DEF FlowInv, TabsInv, ShownBelongsToActiveSession, ShownBelongs
<1> QED BY <1>6, <1>7, <1>8 DEF FlowInv, TabsInv

-----------------------------------------------------------------------------
(* The client: what a click or an answer does to the tab and the calls. *)

\* Calls that tab t issues in epoch e.
Fresh(t, e, calls) ==
    \A x \in calls : /\ x \in CallRecords /\ x.tab = t /\ x.epoch = e /\ x.stage = "sent"
                     /\ x.reply = NoReply

\* What tab t still listens to once its memory is w and the calls "left" remain of the old ones.
Kept(t, w, left) == IF w.epoch = tab[t].epoch THEN left ELSE {}

LEMMA FewerTakeTurns ==
    ASSUME NEW w, NEW L, NEW M, TakeTurns(w, L), M \subseteq L
    PROVE  TakeTurns(w, M)
BY Zenon DEF TakeTurns

\* An unanswered call claims nothing.
LEMMA NothingClaimed == \A x : x.reply = NoReply => Honest(x, x.reply)
BY SMT DEF Honest, NoReply

\* What the tabs listen to when tab t changes and issues calls.
LEMMA HeardAfter ==
    ASSUME FlowInv, NEW t \in Tabs, NEW w \in Memories, w.epoch >= tab[t].epoch,
           NEW left \in SUBSET net, NEW gone, \A x \in gone : x.stage = "detached",
           NEW calls, Fresh(t, w.epoch, calls),
           net' = left \cup gone \cup calls, tab' = [tab EXCEPT ![t] = w]
    PROVE  /\ tab'[t] = w /\ Heard(t)' \subseteq Kept(t, w, Heard(t) \cap left) \cup calls
           /\ \A u \in Tabs \ {t} : tab'[u] = tab[u] /\ Heard(u)' \subseteq Heard(u)
<1>1. net \subseteq CallRecords /\ tab \in [Tabs -> Memories]
  BY Zenon DEF FlowInv, TabsInv, TypeOK
<1>2. tab'[t] = w /\ (\A u \in Tabs \ {t} : tab'[u] = tab[u])
  BY <1>1, Zenon
<1>3. \A x \in calls : x.tab = t
  BY Zenon DEF Fresh
<1>4. w.epoch \in Nat /\ tab[t].epoch \in Nat /\ \A x \in net : x.epoch \in Nat
  BY <1>1, SMT DEF Memories, CallRecords
<1>5. \A x \in net : x.epoch <= tab[x.tab].epoch
  BY Zenon DEF FlowInv, TabsInv, AnswersAreHonest
<1>6. ASSUME NEW x \in Heard(t)', x \notin calls
      PROVE  x \in Kept(t, w, Heard(t) \cap left)
  <2>1. x \in left /\ x.tab = t /\ x.epoch = w.epoch /\ x.stage # "detached"
    BY <1>6, <1>2, Zenon DEF Heard
  <2>2. w.epoch = tab[t].epoch
    <3>1. x \in net /\ x.epoch <= tab[t].epoch
      BY <2>1, <1>5
    <3> QED BY <3>1, <2>1, <1>4, SMT
  <2> QED BY <2>1, <2>2, Zenon DEF Kept, Heard
<1>7. ASSUME NEW u \in Tabs \ {t} PROVE Heard(u)' \subseteq Heard(u)
  BY <1>2, <1>3, Zenon DEF Heard
<1> QED BY <1>2, <1>6, <1>7, Zenon

\* When a tab changes and issues calls, the invariant holds if it holds of that tab, and the
\* others know of the cookie or have not seen it change.
LEMMA TabStep ==
    ASSUME FlowInv, NEW t \in Tabs, NEW w \in Memories, w.epoch >= tab[t].epoch,
           NEW left \in SUBSET net, NEW gone, NEW calls, Fresh(t, w.epoch, calls),
           \A x \in gone : /\ x \in CallRecords /\ x.stage = "detached" /\ x.tab = t
                           /\ x.epoch <= tab[t].epoch /\ Honest(x, x.reply),
           \A x \in net \ left : x.tab = t,
           net' = left \cup gone \cup calls, tab' = [tab EXCEPT ![t] = w],
           jar' \in Sessions \cup {NoSession}, clicks' \in Nat, lost' \in Nat,
           switched' \subseteq Tabs, UNCHANGED server, ShownBelongs(w),
           TakeTurns(w, Kept(t, w, Heard(t) \cap left) \cup calls),
           t \notin switched' => Tied(w, Kept(t, w, Heard(t) \cap left) \cup calls, jar'),
           \A u \in Tabs \ {t} : u \notin switched' => u \notin switched /\ jar' \in {jar, NoSession}
    PROVE  FlowInv'
<1>1. TypeOK /\ net \subseteq CallRecords /\ tab \in [Tabs -> Memories]
  BY Zenon DEF FlowInv, TabsInv, TypeOK
<1>2. tab'[t] = w /\ (\A u \in Tabs \ {t} : tab'[u] = tab[u]) /\ tab' \in [Tabs -> Memories]
  BY <1>1, Zenon
<1>3. \A x \in calls : x \in CallRecords /\ x.tab = t /\ x.epoch = w.epoch /\ x.reply = NoReply
  BY Zenon DEF Fresh
<1>4. TypeOK'
  <2>1. net' \subseteq CallRecords
    BY <1>1, <1>3, Zenon
  <2> QED BY <1>1, <1>2, <2>1, Zenon DEF TypeOK
<1>5. ShownBelongsToActiveSession'
  <2> SUFFICES ASSUME NEW u \in Tabs PROVE ShownBelongs(tab'[u])
    BY Zenon DEF ShownBelongsToActiveSession, ShownBelongs
  <2> QED BY <1>2, Zenon DEF FlowInv, TabsInv, ShownBelongsToActiveSession
<1>6. w.epoch \in Nat /\ tab[t].epoch \in Nat /\ \A x \in net : x.epoch \in Nat
  BY <1>1, SMT DEF Memories, CallRecords
<1>7. /\ Heard(t)' \subseteq Kept(t, w, Heard(t) \cap left) \cup calls
      /\ \A u \in Tabs \ {t} : Heard(u)' \subseteq Heard(u)
  BY HeardAfter
<1>8. HandlersTakeTurns'
  <2>1. ASSUME NEW u \in Tabs \ {t} PROVE TakeTurns(tab'[u], Heard(u)')
    <3>1. TakeTurns(tab[u], Heard(u))
      BY Zenon DEF FlowInv, TabsInv, HandlersTakeTurns
    <3> QED BY <3>1, <1>2, <1>7, FewerTakeTurns
  <2>2. TakeTurns(tab'[t], Heard(t)')
    BY <1>2, <1>7, FewerTakeTurns
  <2>3. \A u \in Tabs : TakeTurns(tab'[u], Heard(u)')
    BY <2>1, <2>2, Zenon
  <2> QED BY <2>3, Zenon DEF HandlersTakeTurns, TakeTurns, LoadFits, HandlerFits, RehydrationFits,
                              MutationPending, Rehydrates, Beside, Outlives, NoReply, NoFeedback
<1>9. AnswersAreHonest'
  <2> SUFFICES ASSUME NEW x \in net' PROVE Honest(x, x.reply) /\ x.epoch <= tab'[x.tab].epoch
    BY Zenon DEF AnswersAreHonest, Honest
  <2>1. CASE x \in left
    <3>1. Honest(x, x.reply) /\ x.epoch <= tab[x.tab].epoch /\ x \in net
      BY <2>1, Zenon DEF FlowInv, TabsInv, AnswersAreHonest
    <3>2. x.tab \in Tabs
      BY <3>1, <1>1, SMT DEF CallRecords
    <3>3. CASE x.tab = t
      BY <3>1, <3>3, <1>2, <1>6, SMT
    <3>4. CASE x.tab # t
      BY <3>1, <3>2, <3>4, <1>2, Zenon
    <3> QED BY <3>3, <3>4
  <2>2. CASE x \in gone
    <3>1. /\ x \in CallRecords /\ x.tab = t
          /\ x.epoch <= tab[t].epoch /\ Honest(x, x.reply)
      BY <2>2, Zenon
    <3>2. x.epoch \in Nat
      BY <3>1, SMT DEF CallRecords
    <3> QED BY <3>1, <3>2, <1>2, <1>6, SMT
  <2>3. CASE x \in calls
    BY <2>3, <1>2, <1>3, <1>6, NothingClaimed, SMT
  <2> QED BY <2>1, <2>2, <2>3
<1>10. ASSUME NEW u \in Tabs \ {t}, u \notin switched' PROVE Tied(tab'[u], Heard(u)', jar')
  <2>1. Tied(tab[u], Heard(u), jar)
    BY <1>10, Following, Zenon DEF FlowInv
  <2>2. tab'[u] = tab[u] /\ Heard(u)' \subseteq Heard(u) /\ jar' \in {jar, NoSession}
    BY <1>2, <1>7, <1>10, Zenon
  <2> QED BY <2>1, <2>2, StaysTied, Zenon
<1>11. ASSUME t \notin switched' PROVE Tied(tab'[t], Heard(t)', jar')
  <2>1. Tied(w, Kept(t, w, Heard(t) \cap left) \cup calls, jar')
    BY <1>11
  <2> DEFINE H == Kept(t, w, Heard(t) \cap left) \cup calls
  <2>2. Heard(t)' \subseteq H /\ jar' \in {jar', NoSession}
    BY <1>7
  <2> HIDE DEF H
  <2>3. Tied(w, Heard(t)', jar')
    BY <2>1, <2>2, StaysTied DEF H
  <2> QED BY <2>3, <1>2
<1>12. TabsFollowTheCookie'
  BY <1>10, <1>11, Following, Zenon
<1> QED BY <1>4, <1>5, <1>8, <1>9, <1>12 DEF FlowInv, TabsInv

\* A click keeps the invariant if it leaves its tab in order.
LEMMA Clicking ==
    ASSUME FlowInv, NEW t \in Tabs, NEW w \in Memories, w.epoch >= tab[t].epoch,
           NEW calls, Fresh(t, w.epoch, calls), Click(t, w, calls),
           ShownBelongs(w), TakeTurns(w, Kept(t, w, Heard(t)) \cup calls),
           t \notin switched' => Tied(w, Kept(t, w, Heard(t)) \cup calls, jar)
    PROVE  FlowInv'
<1>1. /\ net' = net \cup {} \cup calls /\ tab' = [tab EXCEPT ![t] = w]
      /\ UNCHANGED <<server, jar, lost>> /\ clicks' = clicks + 1
  BY Zenon DEF Click
<1>2. jar' \in Sessions \cup {NoSession} /\ clicks' \in Nat /\ lost' \in Nat
  BY <1>1, SMT DEF FlowInv, TabsInv, TypeOK
<1>6. /\ switched' \subseteq Tabs
      /\ \A u \in Tabs \ {t} : u \notin switched' => u \notin switched /\ jar' \in {jar, NoSession}
  BY SMT DEF FlowInv, TabsInv, TypeOK, Click
<1>3. /\ TakeTurns(w, Kept(t, w, Heard(t) \cap net) \cup calls)
      /\ t \notin switched' => Tied(w, Kept(t, w, Heard(t) \cap net) \cup calls, jar')
  <2>1. Heard(t) \cap net = Heard(t)
    BY Zenon DEF Heard
  <2> QED BY <1>1, <2>1, Zenon
<1>4. UNCHANGED server
  BY <1>1
<1>5. /\ net \in SUBSET net /\ \A x \in net \ net : x.tab = t
      /\ \A x \in {} : /\ x \in CallRecords /\ x.stage = "detached" /\ x.tab = t
                       /\ x.epoch <= tab[t].epoch /\ Honest(x, x.reply)
  OBVIOUS
<1> QED BY <1>1, <1>2, <1>3, <1>4, <1>5, <1>6, TabStep

\* Whether an answer leaves the outcome in doubt is history: no handler looks at it.
LEMMA DoubtIsHistory ==
    ASSUME NEW w \in Memories, NEW d \in BOOLEAN, NEW L
    PROVE  LET v == [w EXCEPT !.doubt = d]
           IN  /\ v \in Memories /\ v.epoch = w.epoch
               /\ ShownBelongs(w) => ShownBelongs(v)
               /\ TakeTurns(w, L) => TakeTurns(v, L)
               /\ \A M, s : Tied(w, M, s) => Tied(v, M, s)
<1> DEFINE v == [w EXCEPT !.doubt = d]
<1>1. v \in Memories
  BY Zenon DEF Memories
<1>2. /\ v.ui = w.ui /\ v.busy = w.busy /\ v.pending = w.pending /\ v.epoch = w.epoch
      /\ v.session = w.session /\ v.shown = w.shown /\ v.personal = w.personal
      /\ v.load = w.load
  BY Zenon DEF Memories
<1> HIDE DEF v
<1>3. ShownBelongs(w) => ShownBelongs(v)
  BY <1>2, Zenon DEF ShownBelongs
<1>4. MutationPending(v) <=> MutationPending(w)
  BY <1>2, Zenon DEF MutationPending
<1>5. LoadFits(w) => LoadFits(v)
  BY <1>2, <1>4, Zenon DEF LoadFits
<1>6. \A c : /\ HandlerFits(c, w) => HandlerFits(c, v)
             /\ RehydrationFits(c, w) => RehydrationFits(c, v)
  BY <1>2, <1>4, Zenon DEF HandlerFits, RehydrationFits
<1>7. TakeTurns(w, L) => TakeTurns(v, L)
  BY <1>5, <1>6, Zenon DEF TakeTurns
<1>8. \A M, s : Tied(w, M, s) => Tied(v, M, s)
  BY <1>2, Zenon DEF Tied, OneSession
<1> QED BY <1>1, <1>2, <1>3, <1>7, <1>8 DEF v

\* The calls a handler issues fit beside those the tab still listens to.
Joins(w, L, calls) ==
    /\ TakeTurns(w, L) /\ TakeTurns(w, calls)
    /\ \A x \in L, y \in calls : Beside(x, y)

\* The calls leave with the cookie of the jar.
Sent(calls, s) == {[x EXCEPT !.cookie = s] : x \in calls}

\* The cookie of a call does not matter for the handlers.
LEMMA CookieDoesNotMatter ==
    ASSUME NEW w, NEW L, NEW e, NEW t, NEW calls, Fresh(t, e, calls),
           NEW s \in Sessions \cup {NoSession}, Joins(w, L, calls)
    PROVE  Fresh(t, e, Sent(calls, s)) /\ TakeTurns(w, L \cup Sent(calls, s))
<1> DEFINE With(x) == [x EXCEPT !.cookie = s]
           sent == {With(x) : x \in calls}
<1>1. ASSUME NEW x \in calls
      PROVE  /\ With(x) \in CallRecords /\ With(x).tab = x.tab /\ With(x).epoch = x.epoch
             /\ With(x).task = x.task /\ With(x).op = x.op /\ With(x).csrf = x.csrf
             /\ With(x).game = x.game /\ With(x).stage = x.stage /\ With(x).reply = x.reply
  <2>1. x \in CallRecords
    BY DEF Fresh
  <2> QED BY <2>1, SMT DEF CallRecords
<1> HIDE DEF With
<1>2. Fresh(t, e, sent)
  BY <1>1, Zenon DEF Fresh
<1>3. \A x \in calls : HandlerFits(With(x), w) \/ RehydrationFits(With(x), w)
  <2> SUFFICES ASSUME NEW x \in calls
               PROVE  HandlerFits(With(x), w) \/ RehydrationFits(With(x), w)
    OBVIOUS
  <2>1. HandlerFits(x, w) \/ RehydrationFits(x, w)
    BY Zenon DEF TakeTurns, Joins
  <2> QED BY <1>1, <2>1, Zenon DEF HandlerFits, RehydrationFits, Rehydrates
<1>4. \A x, y \in calls : With(x) # With(y) => Beside(With(x), With(y))
  <2> SUFFICES ASSUME NEW x \in calls, NEW y \in calls, With(x) # With(y)
               PROVE  Beside(With(x), With(y))
    OBVIOUS
  <2>1. Beside(x, y)
    BY Zenon DEF TakeTurns, Joins
  <2> QED BY <1>1, <2>1, Zenon DEF Beside, Outlives, Rehydrates
<1>5. \A x \in L, y \in calls : Beside(x, With(y)) /\ Beside(With(y), x)
  <2> SUFFICES ASSUME NEW x \in L, NEW y \in calls
               PROVE  Beside(x, With(y)) /\ Beside(With(y), x)
    OBVIOUS
  <2>1. Beside(x, y)
    BY Zenon DEF Joins
  <2> QED BY <1>1, <2>1, Zenon DEF Beside, Outlives, Rehydrates
<1>6. \A x \in L \cup sent : HandlerFits(x, w) \/ RehydrationFits(x, w)
  BY <1>3, Zenon DEF Joins, TakeTurns
<1>7. \A x, y \in L \cup sent : x # y => Beside(x, y)
  BY <1>4, <1>5, Zenon DEF Joins, TakeTurns
<1>8. TakeTurns(w, L \cup sent)
  BY <1>6, <1>7, Zenon DEF TakeTurns, Joins
<1> QED BY <1>2, <1>8, Zenon DEF With, Sent

\* An answer keeps the invariant if the handler leaves its tab in order.
LEMMA Settling ==
    ASSUME FlowInv, NEW c \in net, NEW reply, NEW w \in Memories, NEW calls,
           Settle(c, reply, w, calls), reply \in Replies,
           w.epoch >= tab[c.tab].epoch, Fresh(c.tab, w.epoch, calls),
           ShownBelongs(w), Joins(w, Kept(c.tab, w, Heard(c.tab) \ {c}), calls),
           c.tab \notin switched' =>
             Tied(w, Kept(c.tab, w, Heard(c.tab) \ {c}) \cup Sent(calls, jar'), jar')
    PROVE  FlowInv'
<1> DEFINE d == w.doubt \/ (reply.kind = "failed" /\ c.op \notin {"me", "recommend"})
           v == [w EXCEPT !.doubt = d]
           sent == Sent(calls, jar')
           detached == [c EXCEPT !.stage = "detached"]
<1>0. c \in CallRecords /\ c.tab \in Tabs /\ c.epoch <= tab[c.tab].epoch /\ Honest(c, c.reply)
  <2>1. c \in CallRecords
    BY Zenon DEF FlowInv, TabsInv, TypeOK
  <2>2. c.tab \in Tabs
    BY <2>1, SMT DEF CallRecords
  <2> QED BY <2>1, <2>2, Zenon DEF FlowInv, TabsInv, AnswersAreHonest
<1>1. /\ jar' = JarAfter(c, reply) /\ tab' = [tab EXCEPT ![c.tab] = v]
      /\ lost' = IF reply = Failed THEN lost + 1 ELSE lost
      /\ UNCHANGED <<server, clicks>>
  BY Zenon DEF Settle
<1>2. PICK gone \in {{}, {detached}} : net' = (net \ {c}) \cup gone \cup sent
  BY Zenon DEF Settle, Sent
<1>3. jar' \in Sessions \cup {NoSession}
  BY <1>1, SMT DEF JarAfter, FlowInv, TabsInv, TypeOK, Replies
<1>4. clicks' \in Nat /\ lost' \in Nat
  BY <1>1, SMT DEF FlowInv, TabsInv, TypeOK
<1>5. \A x \in gone : /\ x \in CallRecords /\ x.stage = "detached" /\ x.tab = c.tab
                      /\ x.epoch <= tab[c.tab].epoch /\ Honest(x, x.reply)
  <2>1. /\ detached \in CallRecords /\ detached.stage = "detached"
        /\ detached.tab = c.tab /\ detached.epoch = c.epoch /\ detached.op = c.op
        /\ detached.csrf = c.csrf /\ detached.cookie = c.cookie /\ detached.reply = c.reply
    BY <1>0, SMT DEF CallRecords
  <2> HIDE DEF detached
  <2>2. Honest(detached, detached.reply)
    BY <2>1, <1>0, Zenon DEF Honest
  <2> QED BY <2>1, <2>2, <1>0, Zenon
<1>6. /\ Fresh(c.tab, w.epoch, sent)
      /\ TakeTurns(w, Kept(c.tab, w, Heard(c.tab) \ {c}) \cup sent)
  BY <1>3, CookieDoesNotMatter
<1>7. d \in BOOLEAN
  BY Zenon DEF Memories
<1>12. c.tab \notin switched' =>
         Tied(w, Kept(c.tab, w, Heard(c.tab) \ {c}) \cup sent, jar')
  OBVIOUS
<1>13. \A u \in Tabs \ {c.tab} : u \notin switched' => u \notin switched /\ jar' \in {jar, NoSession}
  BY Zenon DEF Settle
<1> HIDE DEF d, detached, sent
<1>8. /\ v \in Memories /\ v.epoch = w.epoch /\ ShownBelongs(v)
      /\ TakeTurns(v, Kept(c.tab, w, Heard(c.tab) \ {c}) \cup sent)
      /\ c.tab \notin switched' => Tied(v, Kept(c.tab, w, Heard(c.tab) \ {c}) \cup sent, jar')
  <2>1. /\ v \in Memories /\ v.epoch = w.epoch
        /\ ShownBelongs(w) => ShownBelongs(v)
        /\ TakeTurns(w, Kept(c.tab, w, Heard(c.tab) \ {c}) \cup sent) =>
             TakeTurns(v, Kept(c.tab, w, Heard(c.tab) \ {c}) \cup sent)
        /\ \A M, s : Tied(w, M, s) => Tied(v, M, s)
    BY <1>7, DoubtIsHistory
  <2> HIDE DEF v
  <2> QED BY <1>6, <1>12, <2>1, Zenon
<1> HIDE DEF v
<1>9. /\ TakeTurns(v, Kept(c.tab, v, Heard(c.tab) \cap (net \ {c})) \cup sent)
      /\ c.tab \notin switched' =>
           Tied(v, Kept(c.tab, v, Heard(c.tab) \cap (net \ {c})) \cup sent, jar')
  <2>1. Kept(c.tab, v, Heard(c.tab) \cap (net \ {c})) = Kept(c.tab, w, Heard(c.tab) \ {c})
    BY <1>8, Zenon DEF Kept, Heard
  <2> QED BY <1>8, <2>1, Zenon
<1>10. /\ Fresh(c.tab, v.epoch, sent) /\ v.epoch >= tab[c.tab].epoch
       /\ net \ {c} \in SUBSET net /\ \A x \in net \ (net \ {c}) : x.tab = c.tab
  BY <1>6, <1>8, Zenon
<1>11. UNCHANGED server /\ switched' \subseteq Tabs
  BY <1>1, SMT DEF FlowInv, TabsInv, TypeOK, Settle
<1> QED BY <1>0, <1>1, <1>2, <1>3, <1>4, <1>5, <1>8, <1>9, <1>10, <1>11, <1>13, TabStep

-----------------------------------------------------------------------------
(* What the handlers make of the memory of a tab. *)

\* The constants of a tab have their types.
LEMMA Blanks ==
    /\ NoLifecycle \in [id : Sessions \cup {NoSession}, version : Versions \cup {0}]
    /\ NoShown \in ShownProfiles
    /\ NoResult \in [session : Sessions \cup {NoSession}, prefs : Prefs \cup {NoPrefs},
                     feedback : Feedback]
    /\ NoLoad \in [task : {"none", "bootstrap", "consent"}, session : Sessions \cup {NoSession},
                   prefs : Replies, list : Replies]
    /\ NoLoad.task = "none" /\ NoReply \in Replies /\ Failed \in Replies
    /\ Failed.kind = "failed" /\ NoReply.kind = "none" /\ ~Failed.sets
<1>1. NoFeedback \in Feedback
  BY SMT DEF NoFeedback, Feedback
<1>2. /\ NoReply \in Replies /\ Failed \in Replies /\ Failed.kind = "failed"
      /\ NoReply.kind = "none" /\ ~Failed.sets
  <2>1. NoReply \in Replies /\ NoReply.kind = "none" /\ ~NoReply.sets
    BY <1>1, SMT DEF NoReply, Replies
  <2> QED BY <2>1, SMT DEF Failed, Replies, Kinds
<1>3. NoShown \in ShownProfiles
  BY <1>1, SMT DEF NoShown, ShownProfiles
<1> QED BY <1>1, <1>2, <1>3, SMT DEF NoLifecycle, NoResult, NoLoad

\* A memory with one part replaced is a memory.
LEMMA Setting ==
    ASSUME NEW w \in Memories
    PROVE  /\ \A x \in States : [w EXCEPT !.ui = x] \in Memories
           /\ \A x \in BOOLEAN : [w EXCEPT !.busy = x] \in Memories
           /\ \A x \in Games \cup {NoGame} : [w EXCEPT !.pending = x] \in Memories
           /\ \A x \in Nat : [w EXCEPT !.epoch = x] \in Memories
           /\ \A x \in [id : Sessions \cup {NoSession}, version : Versions \cup {0}] :
                 [w EXCEPT !.session = x] \in Memories
           /\ \A x \in ShownProfiles : [w EXCEPT !.shown = x] \in Memories
           /\ \A x \in [session : Sessions \cup {NoSession}, prefs : Prefs \cup {NoPrefs},
                        feedback : Feedback] : [w EXCEPT !.personal = x] \in Memories
           /\ \A x \in [task : {"none", "bootstrap", "consent"},
                        session : Sessions \cup {NoSession}, prefs : Replies, list : Replies] :
                 [w EXCEPT !.load = x] \in Memories
           /\ \A x \in SUBSET Games : [w EXCEPT !.assured = x] \in Memories
           /\ \A x \in BOOLEAN : [w EXCEPT !.doubt = x] \in Memories
BY Zenon DEF Memories

\* All of a session is forgotten.
LEMMA Forgetting ==
    ASSUME NEW w \in Memories
    PROVE  LET v == ClearRouteMemory(w)
           IN  /\ v \in Memories /\ v.ui = w.ui /\ v.epoch = w.epoch + 1
               /\ v.shown = NoShown /\ v.personal = NoResult /\ v.load = NoLoad
<1> DEFINE v1 == [w EXCEPT !.epoch = w.epoch + 1]
           v2 == [v1 EXCEPT !.shown = NoShown]
           v3 == [v2 EXCEPT !.session = NoLifecycle]
           v4 == [v3 EXCEPT !.personal = NoResult]
           v5 == [v4 EXCEPT !.pending = NoGame]
           v6 == [v5 EXCEPT !.assured = {}]
           v7 == [v6 EXCEPT !.busy = FALSE]
           v8 == [v7 EXCEPT !.load = NoLoad]
<1>1. w.epoch + 1 \in Nat
  BY SMT DEF Memories
<1>2. v2 \in Memories
  BY <1>1, Setting, Blanks, Zenon
<1>3. v5 \in Memories
  <2> HIDE DEF v2
  <2>1. v3 \in Memories
    BY <1>2, Setting, Blanks, Zenon
  <2> HIDE DEF v3
  <2> QED BY <2>1, Setting, Blanks, Zenon
<1>4. v8 \in Memories
  <2> HIDE DEF v5
  <2>1. v6 \in Memories
    BY <1>3, Setting, Blanks, Zenon
  <2> HIDE DEF v6
  <2> QED BY <2>1, Setting, Blanks, Zenon
<1>5. ClearRouteMemory(w) = v8
  BY SMT DEF Memories, ClearRouteMemory
<1>6. LET v == ClearRouteMemory(w)
      IN  /\ v.ui = w.ui /\ v.epoch = w.epoch + 1
          /\ v.shown = NoShown /\ v.personal = NoResult /\ v.load = NoLoad
  BY SMT DEF Memories, ClearRouteMemory
<1> QED BY <1>4, <1>5, <1>6

\* What a tab shows is taken back.
LEMMA Withdrawing ==
    ASSUME NEW w \in Memories
    PROVE  LET v == Unshown(w)
           IN  /\ v \in Memories /\ v.ui = w.ui /\ v.epoch = w.epoch /\ v.shown = NoShown
               /\ v.personal = NoResult /\ v.load = w.load /\ v.session = w.session
               /\ v.busy = w.busy
<1> DEFINE v1 == [w EXCEPT !.shown = NoShown]
           v2 == [v1 EXCEPT !.personal = NoResult]
           v3 == [v2 EXCEPT !.pending = NoGame]
           v4 == [v3 EXCEPT !.assured = {}]
<1>1. v2 \in Memories
  BY Setting, Blanks, Zenon
<1>2. v4 \in Memories
  <2> HIDE DEF v2
  <2>1. v3 \in Memories
    BY <1>1, Setting, Blanks, Zenon
  <2> HIDE DEF v3
  <2> QED BY <2>1, Setting, Blanks, Zenon
<1>3. Unshown(w) = v4
  BY SMT DEF Memories, Unshown
<1>4. LET v == Unshown(w)
      IN  /\ v.ui = w.ui /\ v.epoch = w.epoch /\ v.shown = NoShown
          /\ v.personal = NoResult /\ v.load = w.load /\ v.session = w.session
          /\ v.busy = w.busy
  BY SMT DEF Memories, Unshown
<1> QED BY <1>2, <1>3, <1>4

\* The memory v that a handler leaves behind when it ends in a tab whose memory was w.
LeftBehind(v, w) ==
    v \in Memories /\ ShownBelongs(v) /\ v.load.task = "none" /\ v.epoch \in {w.epoch, w.epoch + 1}

\* The memory v shows what w showed, of the same session and as certainly, or nothing; the
\* recommendations may be gone.
Shows(v, w) ==
    v.shown # NoShown => /\ v.shown = w.shown /\ v.session = w.session /\ v.doubt = w.doubt
                         /\ v.personal \in {w.personal, NoResult}

\* What tells a tab that its session has ended, or its consent.
Ended == {"unauthorized", "expired", "outdated"}

\* A handler that fails leaves a tab in order, if it falls back to a state that fits.
LEMMA Failing ==
    ASSUME NEW w \in Memories, NEW reply \in Replies, NEW fallback \in States,
           ShownBelongs(w), w.load.task = "none", (reply.kind = "stale" => w.ui = "active"),
           (fallback = "active") <=> (w.ui = "active")
    PROVE  LET v == SessionFailure(w, reply, fallback)
           IN  /\ LeftBehind(v, w) /\ Shows(v, w)
               /\ reply.kind \in Ended => v.shown = NoShown
<1> DEFINE v == SessionFailure(w, reply, fallback)
<1>1. CASE reply.kind \in {"unauthorized", "expired"}
  <2> DEFINE u == ClearRouteMemory(w)
  <2>1. /\ u \in Memories /\ u.epoch = w.epoch + 1
        /\ u.shown = NoShown /\ u.personal = NoResult /\ u.load = NoLoad
    BY Forgetting
  <2>2. v = [u EXCEPT !.ui = "stateless"]
    BY <1>1, SMT DEF SessionFailure
  <2> HIDE DEF u, v
  <2>3. v \in Memories
    BY <2>1, <2>2, Setting, Zenon DEF States
  <2>4. /\ v.epoch = w.epoch + 1 /\ v.ui = "stateless"
        /\ v.shown = NoShown /\ v.personal = NoResult /\ v.load = NoLoad
    BY <2>1, <2>2, SMT DEF Memories
  <2> QED BY <2>3, <2>4, Blanks, Zenon DEF v, LeftBehind, ShownBelongs, Shows
<1>2. CASE reply.kind = "outdated"
  <2> DEFINE u == Unshown(w)
  <2>1. /\ u \in Memories /\ u.epoch = w.epoch /\ u.shown = NoShown
        /\ u.personal = NoResult /\ u.load = w.load
    BY Withdrawing
  <2>2. CASE fallback = "stateless"
    <3>1. v = [u EXCEPT !.ui = "consent_contract_mismatch"]
      BY <1>2, <2>2, Zenon DEF SessionFailure
    <3> HIDE DEF u, v
    <3>2. v \in Memories
      BY <2>1, <3>1, Setting, Zenon DEF States
    <3>3. /\ v.epoch = w.epoch /\ v.ui = "consent_contract_mismatch"
          /\ v.shown = NoShown /\ v.personal = NoResult /\ v.load = w.load
      BY <2>1, <3>1, SMT DEF Memories
    <3> QED BY <3>2, <3>3, Zenon DEF v, LeftBehind, ShownBelongs, Shows
  <2>3. CASE fallback # "stateless"
    <3> DEFINE kept == IF u.session = NoLifecycle THEN u.session
                       ELSE [u.session EXCEPT !.version = reply.current]
               x == [u EXCEPT !.ui = "consent_outdated"]
    <3>1. v = [u EXCEPT !.ui = "consent_outdated", !.session = kept]
      BY <1>2, <2>3, Zenon DEF SessionFailure
    <3> HIDE DEF u, v
    <3>2. kept \in [id : Sessions \cup {NoSession}, version : Versions \cup {0}]
      BY <2>1, SMT DEF Memories, Replies
    <3> HIDE DEF kept
    <3>3. x \in Memories
      BY <2>1, Setting, Zenon DEF States
    <3>4. v = [x EXCEPT !.session = kept]
      BY <2>1, <3>1, SMT DEF Memories
    <3>7. v \in Memories
      <4> HIDE DEF x
      <4> QED BY <3>2, <3>3, <3>4, Setting, Zenon
    <3>5. /\ v.epoch = w.epoch /\ v.ui = "consent_outdated"
          /\ v.shown = NoShown /\ v.personal = NoResult /\ v.load = w.load
      BY <2>1, <3>1, SMT DEF Memories
    <3> QED BY <3>7, <3>5, Zenon DEF v, LeftBehind, ShownBelongs, Shows
  <2> QED BY <2>2, <2>3
<1>3. CASE reply.kind = "stale"
  <2> DEFINE u == [w EXCEPT !.personal = NoResult]
  <2>1. v = [u EXCEPT !.ui = "active"]
    BY <1>3, SMT DEF SessionFailure, Memories
  <2>2. u \in Memories
    BY Setting, Blanks, Zenon
  <2>3. v \in Memories
    <3> HIDE DEF u, v
    <3> QED BY <2>1, <2>2, Setting, Zenon DEF States
  <2>4. /\ v.epoch = w.epoch /\ v.ui = "active" /\ v.shown = w.shown /\ v.session = w.session
        /\ v.personal = NoResult /\ v.load = w.load /\ v.doubt = w.doubt
    <3> HIDE DEF v
    <3> QED BY <2>1, SMT DEF Memories
  <2> HIDE DEF v
  <2>5. ShownBelongs(v)
    BY <1>3, <2>4, Zenon DEF ShownBelongs
  <2> QED BY <1>3, <2>3, <2>4, <2>5, Zenon DEF v, LeftBehind, Shows, Ended
<1>4. CASE reply.kind \notin {"unauthorized", "expired", "outdated", "stale"}
  <2>1. v = [w EXCEPT !.ui = fallback]
    BY <1>4, SMT DEF SessionFailure
  <2> HIDE DEF v
  <2>2. v \in Memories
    BY <2>1, Setting, Zenon
  <2>3. /\ v.epoch = w.epoch /\ v.ui = fallback /\ v.shown = w.shown /\ v.session = w.session
        /\ v.personal = w.personal /\ v.load = w.load /\ v.doubt = w.doubt
    BY <2>1, SMT DEF Memories
  <2>4. ShownBelongs(v)
    BY <2>3, Zenon DEF ShownBelongs
  <2> QED BY <1>4, <2>2, <2>3, <2>4, Zenon DEF v, LeftBehind, Shows, Ended
<1> QED BY <1>1, <1>2, <1>3, <1>4

\* finally: the tab is no longer busy, or no longer waits for a game.
LEMMA Ending ==
    ASSUME NEW w, NEW v, LeftBehind(v, w), NEW c
    PROVE  /\ LeftBehind(Idle(c, v), w) /\ LeftBehind(Unpended(c, v), w)
           /\ Shows(Idle(c, v), v) /\ Shows(Unpended(c, v), v)
<1>0. v \in Memories
  BY DEF LeftBehind
<1>1. ASSUME NEW x, x = [v EXCEPT !.busy = FALSE] \/ x = [v EXCEPT !.pending = NoGame]
      PROVE  LeftBehind(x, w) /\ Shows(x, v)
  <2>1. x \in Memories
    BY <1>0, <1>1, Setting, Zenon
  <2>2. /\ x.epoch = v.epoch /\ x.ui = v.ui /\ x.shown = v.shown /\ x.session = v.session
        /\ x.personal = v.personal /\ x.load = v.load /\ x.doubt = v.doubt
    BY <1>0, <1>1, Zenon DEF Memories
  <2> QED BY <2>1, <2>2, Zenon DEF LeftBehind, ShownBelongs, Shows
<1> QED BY <1>1, Zenon DEF Idle, Unpended, Shows

\* What v shows is of the session that tab t shows, unless the tab has not seen the cookie
\* change.
ShowsOne(v, t) ==
    v.shown # NoShown /\ t \notin switched =>
      tab[t].shown # NoShown /\ v.session.id = tab[t].session.id /\ OneSession(v)

LEMMA ShowingOn ==
    ASSUME FlowInv, NEW t \in Tabs, NEW v, Shows(v, tab[t])
    PROVE  ShowsOne(v, t)
<1>1. t \notin switched => Tied(tab[t], Heard(t), jar)
  BY Following, Zenon DEF FlowInv
<1> QED BY <1>1, Zenon DEF Shows, ShowsOne, Tied, OneSession

LEMMA ShowingStill ==
    ASSUME NEW v, NEW w, Shows(v, w), NEW t, ShowsOne(w, t)
    PROVE  ShowsOne(v, t)
BY Zenon DEF Shows, ShowsOne, OneSession

LEMMA ShowingTwice ==
    ASSUME NEW u, NEW v, NEW w, Shows(u, v), Shows(v, w)
    PROVE  Shows(u, w)
BY Zenon DEF Shows

-----------------------------------------------------------------------------
(* What a tab still listens to when a call comes back. *)

LEMMA TabOfCall == ASSUME FlowInv, NEW c \in net PROVE c.tab \in Tabs /\ tab[c.tab] \in Memories
<1>1. c \in CallRecords
  BY Zenon DEF FlowInv, TabsInv, TypeOK
<1>2. c.tab \in Tabs
  BY <1>1, SMT DEF CallRecords
<1> QED BY <1>2, Zenon DEF FlowInv, TabsInv, TypeOK

\* What a fetch settles with is an honest reply.
LEMMA OutcomeIsHonest ==
    ASSUME FlowInv, NEW c \in net, NEW reply \in Outcomes(c)
    PROVE  reply \in Replies /\ Honest(c, reply)
<1>1. c.reply \in Replies /\ Honest(c, c.reply)
  <2>1. c \in CallRecords
    BY Zenon DEF FlowInv, TabsInv, TypeOK
  <2> QED BY <2>1, SMT DEF FlowInv, TabsInv, AnswersAreHonest, CallRecords
<1>2. Failed \in Replies /\ Honest(c, Failed)
  BY Blanks, SMT DEF Honest
<1> QED BY <1>1, <1>2, Zenon DEF Outcomes

\* What is left of loads that have failed.
Leftovers(L) == /\ \A d \in L : Rehydrates(d) /\ d.task = "bootstrap"
                /\ \A d, e \in L : d # e => Beside(d, e)

\* Beside the call of a handler there are leftovers only, and none when it has just begun
\* or deletes the session.
LEMMA HandlerIsAlone ==
    ASSUME FlowInv, NEW c \in net, c.stage # "detached", c.epoch = tab[c.tab].epoch,
           ~Rehydrates(c)
    PROVE  /\ tab[c.tab] \in Memories /\ ShownBelongs(tab[c.tab]) /\ HandlerFits(c, tab[c.tab])
           /\ Leftovers(Heard(c.tab) \ {c})
           /\ c.task \in {"bootstrap", "clear"} => Heard(c.tab) \ {c} = {}
<1>1. c.tab \in Tabs /\ tab[c.tab] \in Memories
  <2>1. c \in CallRecords
    BY Zenon DEF FlowInv, TabsInv, TypeOK
  <2>2. c.tab \in Tabs
    BY <2>1, SMT DEF CallRecords
  <2> QED BY <2>2, Zenon DEF FlowInv, TabsInv, TypeOK
<1>2. TakeTurns(tab[c.tab], Heard(c.tab)) /\ ShownBelongs(tab[c.tab])
  BY <1>1, Zenon DEF FlowInv, TabsInv, HandlersTakeTurns, ShownBelongsToActiveSession
<1>3. c \in Heard(c.tab)
  BY DEF Heard
<1>4. HandlerFits(c, tab[c.tab])
  BY <1>2, <1>3, Zenon DEF TakeTurns, RehydrationFits
<1>5. \A d \in Heard(c.tab) \ {c} : Outlives(d, c)
  BY <1>2, <1>3, Zenon DEF TakeTurns, Beside, Outlives
<1> QED BY <1>1, <1>2, <1>4, <1>5, Zenon DEF TakeTurns, Leftovers, Outlives

\* Tab t issues call x while its memory is w.
Issued(x, t, w, task, op) ==
    Fresh(t, w.epoch, {x}) /\ x.task = task /\ x.op = op /\ x.cookie = jar

\* A call is a record of a call, with what it was made of.
LEMMA Calling ==
    ASSUME TypeOK, NEW t \in Tabs, NEW w \in Memories, NEW task \in Tasks, NEW op \in Ops
    PROVE  /\ Issued(Call(t, w, task, op), t, w, task, op)
           /\ Issued(Signed(Call(t, w, task, op), w), t, w, task, op)
           /\ Signed(Call(t, w, task, op), w).csrf = w.session.id
<1> DEFINE x == Call(t, w, task, op)
<1>1. jar \in Sessions \cup {NoSession} /\ NoFeedback \in Feedback
  BY SMT DEF TypeOK, NoFeedback, Feedback
<1>2. w.epoch \in Nat /\ w.page \in Versions /\ w.session.id \in Sessions \cup {NoSession}
  BY SMT DEF Memories
<1>3. /\ x \in CallRecords /\ x.tab = t /\ x.epoch = w.epoch /\ x.stage = "sent"
      /\ x.reply = NoReply /\ x.task = task /\ x.op = op /\ x.cookie = jar
  BY <1>1, <1>2, Blanks, SMT DEF Call, CallRecords
<1> HIDE DEF x
<1> DEFINE y == [x EXCEPT !.csrf = w.session.id]
<1>4. /\ y \in CallRecords /\ y.tab = t /\ y.epoch = w.epoch /\ y.stage = "sent"
      /\ y.reply = NoReply /\ y.task = task /\ y.op = op /\ y.csrf = w.session.id
      /\ y.cookie = jar
  BY <1>2, <1>3, SMT DEF CallRecords
<1>5. Signed(x, w) = y
  BY DEF Signed
<1> HIDE DEF y
<1> QED BY <1>3, <1>4, <1>5, Zenon DEF Issued, Fresh, x

\* A call y that differs from x only in what it is about.
Like(y, x, t, e) ==
    /\ Fresh(t, e, {y}) /\ y.task = x.task /\ y.op = x.op /\ y.csrf = x.csrf
    /\ y.cookie = x.cookie

\* What a change is about does not matter for who issues it.
LEMMA Describing ==
    ASSUME NEW x, NEW t, NEW e, Fresh(t, e, {x}), NEW p \in Prefs \cup {NoPrefs},
           NEW g \in Games \cup {NoGame}
    PROVE  /\ Like([x EXCEPT !.prefs = p], x, t, e)
           /\ Like([x EXCEPT !.game = g], x, t, e) /\ [x EXCEPT !.game = g].game = g
<1>1. x \in CallRecords /\ x.tab = t /\ x.epoch = e /\ x.stage = "sent" /\ x.reply = NoReply
  BY Zenon DEF Fresh
<1>2. ASSUME NEW y \in CallRecords, y.tab = t, y.epoch = e, y.stage = "sent", y.reply = NoReply,
             y.task = x.task, y.op = x.op, y.csrf = x.csrf, y.cookie = x.cookie,
             NEW z, z = [y EXCEPT !.prefs = p] \/ z = [y EXCEPT !.game = g]
      PROVE  z \in CallRecords /\ Like(z, x, t, e)
  <2>1. /\ z \in CallRecords /\ z.tab = t /\ z.epoch = e /\ z.stage = "sent"
        /\ z.reply = NoReply /\ z.task = x.task /\ z.op = x.op /\ z.csrf = x.csrf
        /\ z.cookie = x.cookie
    BY <1>2, SMT DEF CallRecords
  <2> QED BY <2>1, Zenon DEF Like, Fresh
<1> DEFINE b == [x EXCEPT !.game = g]
<1>3. Like([x EXCEPT !.prefs = p], x, t, e)
  BY <1>1, <1>2, Zenon
<1>4. b \in CallRecords /\ Like(b, x, t, e) /\ b.game = g
  <2>1. b \in CallRecords /\ Like(b, x, t, e)
    BY <1>1, <1>2, Zenon
  <2> QED BY <1>1, <2>1, SMT DEF CallRecords
<1> QED BY <1>3, <1>4, Zenon

\* Call z is x, about reaction r to game g.
Tells(z, x, g, r) == z = [x EXCEPT !.game = g, !.reaction = r]

LEMMA DescribingReaction ==
    ASSUME NEW x, NEW t, NEW e, Fresh(t, e, {x}), NEW g \in Games,
           NEW r \in Reactions \cup {NoReaction}, NEW z,
           Tells(z, x, g, r)
    PROVE  Like(z, x, t, e) /\ z.game = g
<1> DEFINE b == [x EXCEPT !.game = g]
           d == [b EXCEPT !.reaction = r]
<1>1. x \in CallRecords /\ x.tab = t /\ x.epoch = e /\ x.stage = "sent" /\ x.reply = NoReply
  BY Zenon DEF Fresh
<1>2. z = d
  BY <1>1, SMT DEF CallRecords, Tells
<1>3. /\ b \in CallRecords /\ b.tab = t /\ b.epoch = e /\ b.stage = "sent"
      /\ b.reply = NoReply /\ b.task = x.task /\ b.op = x.op /\ b.csrf = x.csrf
      /\ b.game = g /\ b.cookie = x.cookie
  BY <1>1, SMT DEF CallRecords
<1>4. /\ d \in CallRecords /\ d.tab = t /\ d.epoch = e /\ d.stage = "sent"
      /\ d.reply = NoReply /\ d.task = x.task /\ d.op = x.op /\ d.csrf = x.csrf
      /\ d.game = g /\ d.cookie = x.cookie
  <2> HIDE DEF b
  <2> QED BY <1>3, SMT DEF CallRecords
<1> HIDE DEF d
<1> QED BY <1>2, <1>4, Zenon DEF Like, Fresh

\* No handler waits any more: what is left of loads stays, and is ignored.
LEMMA NothingIssued ==
    ASSUME NEW t, NEW w, NEW v, LeftBehind(v, w), NEW L,
           \A d \in L : Rehydrates(d) /\ (d.task # "bootstrap" => v.ui = "error"),
           \A d, e \in L : d # e => Beside(d, e)
    PROVE  Joins(v, Kept(t, v, L), {}) /\ Fresh(t, v.epoch, {})
<1>1. v.load.task = "none"
  BY DEF LeftBehind
<1>2. \A d \in Kept(t, v, L) : d \in L
  BY DEF Kept
<1>3. \A d \in L : d.task # "none"
  BY DEF Rehydrates
<1>4. \A d \in L : RehydrationFits(d, v)
  BY <1>1, <1>3, Zenon DEF RehydrationFits
<1>5. LoadFits(v)
  BY <1>1 DEF LoadFits
<1> QED BY <1>2, <1>4, <1>5, Zenon DEF Joins, TakeTurns, Fresh

LEMMA EpochGrows ==
    ASSUME NEW w \in Memories, NEW v, LeftBehind(v, w)
    PROVE  v \in Memories /\ v.epoch >= w.epoch
BY SMT DEF LeftBehind, Memories

\* Only opting in replaces the cookie.
LEMMA JarStays ==
    ASSUME FlowInv, NEW c \in net, NEW reply \in Outcomes(c),
           c.op # "create" \/ reply.kind # "ok", NEW w, NEW calls, Settle(c, reply, w, calls)
    PROVE  jar' \in {jar, NoSession} /\ switched' = switched
<1>1. Honest(c, reply)
  BY OutcomeIsHonest
<1>2. jar' \in {jar, NoSession}
  BY <1>1, Zenon DEF Honest, Settle, JarAfter
<1> QED BY <1>2, Zenon DEF Settle

\* A tab that loads nothing and, with the calls X of a handler that begins or goes on,
\* listens to leftovers only, follows the cookie if what it shows does.
LEMMA OneMore ==
    ASSUME FlowInv, NEW t \in Tabs, NEW v, v.load.task = "none", ShownBelongs(v),
           NEW r \in {jar, NoSession}, v.shown # NoShown => t \notin switched, ShowsOne(v, t),
           NEW M, \A d \in M : Rehydrates(d),
           NEW X, \A x \in X : HandlerFits(x, v) /\ x.cookie = r
    PROVE  Tied(v, M \cup X, r)
<1>1. v.shown # NoShown => OneSession(v) /\ r \in {v.session.id, NoSession}
  <2> SUFFICES ASSUME v.shown # NoShown PROVE OneSession(v) /\ r \in {v.session.id, NoSession}
    OBVIOUS
  <2>1. /\ tab[t].shown # NoShown /\ v.session.id = tab[t].session.id /\ OneSession(v)
        /\ Tied(tab[t], Heard(t), jar)
    BY Following, Zenon DEF FlowInv, ShowsOne
  <2> QED BY <2>1, Zenon DEF Tied
<1>2. ASSUME NEW d \in M
      PROVE  /\ d.op \in {"me", "create"} => r \in {d.cookie, NoSession}
             /\ d.op \in Owned /\ (Rehydrates(d) => v.load.task = d.task) =>
                  d.cookie \in {v.session.id, NoSession}
  BY SMT DEF Rehydrates
<1>3. ASSUME NEW x \in X
      PROVE  /\ x.op \in {"me", "create"} => r \in {x.cookie, NoSession}
             /\ x.op \in Owned /\ (Rehydrates(x) => v.load.task = x.task) =>
                  x.cookie \in {v.session.id, NoSession}
  <2>1. HandlerFits(x, v) /\ x.cookie = r
    OBVIOUS
  <2>2. x.op \in Owned => v.ui = "active"
    BY <2>1, SMT DEF HandlerFits, Owned, Protected
  <2>3. v.ui = "active" => v.shown # NoShown
    BY NamesAssumption, SMT DEF ShownBelongs, NoShown
  <2> QED BY <1>1, <2>1, <2>2, <2>3, Zenon
<1> QED BY <1>1, <1>2, <1>3, Zenon DEF Tied

-----------------------------------------------------------------------------
(* With one tab, what it shows is what is stored. *)

OneTab == \A t, u \in Tabs : t = u

\* An answer is one of the known kinds, and only GET /me answers that the consent has lapsed.
Known(c, reply) == reply.kind \in Kinds /\ (reply.kind = "lapsed" => c.op = "me")
AnswersAreKnown == \A c \in net : c.stage = "served" => Known(c, c.reply)

AloneInv == FlowInv /\ AnswersAreKnown /\ StoredInv

LEMMA Storing ==
    /\ StoredInv <=>
         \A t \in Tabs \ switched :
             Undoubted(tab[t]) /\ row[tab[t].session.id] # "over" =>
                 UpToDate(tab[t], Heard(t), net, prefs[tab[t].session.id],
                          feedback[tab[t].session.id])
    /\ StoredInv' <=>
         \A t \in Tabs \ switched' :
             Undoubted(tab'[t]) /\ row'[tab'[t].session.id] # "over" =>
                 UpToDate(tab'[t], Heard(t)', net', prefs'[tab'[t].session.id],
                          feedback'[tab'[t].session.id])
<1>1. StoredInv <=>
         \A t \in Tabs \ switched :
             Undoubted(tab[t]) /\ row[tab[t].session.id] # "over" =>
                 UpToDate(tab[t], Heard(t), net, prefs[tab[t].session.id],
                          feedback[tab[t].session.id])
  BY Zenon DEF StoredInv
<1>2. StoredInv' <=>
         \A t \in Tabs \ switched' :
             Undoubted(tab'[t]) /\ row'[tab'[t].session.id] # "over" =>
                 UpToDate(tab'[t], Heard(t)', net', prefs'[tab'[t].session.id],
                          feedback'[tab'[t].session.id])
  BY Zenon DEF StoredInv
<1> QED BY <1>1, <1>2

\* With one tab, every call is of it.
LEMMA TheTab ==
    ASSUME FlowInv, OneTab, NEW t \in Tabs
    PROVE  /\ Tabs = {t} /\ \A c \in net : c.tab = t
           /\ tab[t] \in Memories /\ TakeTurns(tab[t], Heard(t)) /\ ShownBelongs(tab[t])
<1>1. Tabs = {t}
  BY DEF OneTab
<1>2. \A c \in net : c.tab \in Tabs
  BY TabOfCall
<1> QED BY <1>1, <1>2, Zenon DEF FlowInv, TabsInv, TypeOK, HandlersTakeTurns,
                                 ShownBelongsToActiveSession

\* A tab that shows a profile loads none, and is a session's.
LEMMA ShowingIsSettled ==
    ASSUME FlowInv, NEW t \in Tabs
    PROVE  /\ tab[t].shown # NoShown => /\ tab[t].load.task = "none" /\ tab[t].ui = "active"
                                        /\ tab[t].session.id \in Sessions
           /\ tab[t].load.task # "none" => tab[t].session.id \in Sessions
<1>1. TakeTurns(tab[t], Heard(t)) /\ ShownBelongs(tab[t])
  BY Zenon DEF FlowInv, TabsInv, HandlersTakeTurns, ShownBelongsToActiveSession
<1>2. tab[t].shown # NoShown => tab[t].ui = "active" /\ tab[t].session.id \in Sessions
  BY <1>1, Zenon DEF ShownBelongs
<1>3. LoadFits(tab[t])
  BY <1>1 DEF TakeTurns
<1>4. tab[t].ui = "active" => tab[t].load.task = "none"
  BY <1>3, SMT DEF LoadFits
<1>5. tab[t].load.task # "none" => tab[t].session.id \in Sessions
  BY <1>3, Zenon DEF LoadFits
<1> QED BY <1>2, <1>4, <1>5

-----------------------------------------------------------------------------
(* The server handles a call. *)

\* The answer of a call that is let through tells what is then stored.
LEMMA EffectTells ==
    ASSUME FlowInv, NEW c \in net, "ok" \in Verdicts(c), Effect(c), UNCHANGED version
    PROVE  \E reply : /\ AnswerWith(c, reply) /\ Known(c, reply)
                      /\ reply.kind # "ok" => c.op = "me"
                      /\ c.op \in Owned =>
                           Agrees(reply, prefs'[c.cookie], feedback'[c.cookie])
<1>0. TypeOK /\ ServerTypeOK'
  BY EffectAnswers, Zenon DEF FlowInv, TabsInv
<1>1. c.op # "create" => c.cookie \in Sessions
  BY LetThrough, Zenon
<1>2. ASSUME NEW s \in Sessions, NEW sets \in BOOLEAN
      PROVE  /\ Snapshot(s, sets) \in Replies /\ Snapshot(s, sets).kind = "ok"
             /\ Agrees(Snapshot(s, sets), prefs'[s], feedback'[s])
  <2> DEFINE a == [Reply("ok", s) EXCEPT !.sets = sets]
             b == [a EXCEPT !.prefs = prefs'[s]]
             d == [b EXCEPT !.feedback = feedback'[s]]
  <2>1. prefs'[s] \in Prefs \cup {NoPrefs} /\ feedback'[s] \in Feedback
    BY <1>0 DEF ServerTypeOK
  <2>2. Reply("ok", s) \in Replies
    BY <1>0, AReply DEF Kinds
  <2>3. a \in Replies
    BY <2>2, SMT DEF Replies
  <2>4. b \in Replies /\ b.prefs = prefs'[s]
    <3> HIDE DEF a
    <3> QED BY <2>1, <2>3, SMT DEF Replies
  <2>5. d \in Replies /\ d.prefs = prefs'[s] /\ d.feedback = feedback'[s]
    <3> HIDE DEF b
    <3> QED BY <2>1, <2>4, SMT DEF Replies
  <2>6. Snapshot(s, sets) = d
    BY <2>2, SMT DEF Snapshot, Replies
  <2>7. Snapshot(s, sets) \in Replies /\ Snapshot(s, sets).kind = "ok"
    BY <1>0, ASnapshot
  <2> QED BY <2>5, <2>6, <2>7 DEF Agrees
<1>3. CASE c.op = "create" /\ CreateSession(c)
  <2>1. PICK s \in Sessions : AnswerWith(c, Snapshot(s, TRUE))
    BY <1>3, Zenon DEF CreateSession
  <2>2. Snapshot(s, TRUE).kind = "ok"
    BY <1>2
  <2> QED BY <2>1, <2>2, <1>3, Zenon DEF Known, Kinds, Owned, Protected
<1>4. CASE c.op = "create" /\ Reconsent(c)
  <2> DEFINE renewed == consent[c.cookie] # version
  <2>1. c.cookie \in Sessions
    BY <1>4, SMT DEF Reconsent, FlowInv, TabsInv, TypeOK, CallRecords
  <2>2. renewed \in BOOLEAN /\ Snapshot(c.cookie, renewed).kind = "ok"
    BY <1>2, <2>1
  <2>3. AnswerWith(c, Snapshot(c.cookie, renewed))
    BY <1>4, Zenon DEF Reconsent
  <2> HIDE DEF renewed
  <2> QED BY <2>2, <2>3, <1>4, Zenon DEF Known, Kinds, Owned, Protected
<1>5. CASE c.op = "delete" /\ DeleteSession(c)
  <2>1. Reply("ok", c.cookie).kind = "ok" /\ AnswerWith(c, Reply("ok", c.cookie))
    BY <1>0, <1>1, <1>5, AReply DEF Kinds, DeleteSession
  <2> QED BY <2>1, <1>5, Zenon DEF Known, Kinds, Owned, Protected
<1>6. CASE c.op \in PrefsChanges \cup FeedbackChanges /\ (SetPreferences(c) \/ SetFeedback(c))
  <2>1. AnswerWith(c, Snapshot(c.cookie, FALSE))
    BY <1>6, Zenon DEF SetPreferences, SetFeedback
  <2>2. c.cookie \in Sessions
    BY <1>1, <1>6 DEF PrefsChanges, FeedbackChanges
  <2>3. /\ Snapshot(c.cookie, FALSE).kind = "ok"
        /\ Agrees(Snapshot(c.cookie, FALSE), prefs'[c.cookie], feedback'[c.cookie])
    BY <1>2, <2>2
  <2> QED BY <2>1, <2>3, <1>6, Zenon DEF Known, Kinds
<1>7. CASE c.op \in {"me", "getPrefs", "listFeedback", "recommend"} /\ Read(c)
  <2> DEFINE kind == IF c.op = "me" /\ consent[c.cookie] # version THEN "lapsed" ELSE "ok"
             snapshot == Snapshot(c.cookie, FALSE)
             reply == [snapshot EXCEPT !.kind = kind]
  <2>1. c.cookie \in Sessions
    BY <1>1, <1>7
  <2>2. AnswerWith(c, reply)
    BY <1>7, Zenon DEF Read
  <2>3. kind \in Kinds /\ (kind # "ok" => c.op = "me")
    BY DEF Kinds
  <2>4. /\ snapshot \in Replies
        /\ Agrees(snapshot, prefs'[c.cookie], feedback'[c.cookie])
    BY <1>2, <2>1
  <2> HIDE DEF kind, snapshot
  <2>5. reply.kind = kind /\ reply.prefs = snapshot.prefs /\ reply.feedback = snapshot.feedback
    BY <2>4, SMT DEF Replies
  <2> HIDE DEF reply
  <2> QED BY <2>2, <2>3, <2>4, <2>5, Zenon DEF Known, Agrees
<1> QED BY <1>3, <1>4, <1>5, <1>6, <1>7, Zenon DEF Effect, PrefsChanges, FeedbackChanges

\* What a session that goes on has stored is changed by a change of its own only.
LEMMA EffectSaves ==
    ASSUME FlowInv, NEW c \in net, "ok" \in Verdicts(c), Effect(c), NEW s \in Sessions,
           row'[s] # "over"
    PROVE  /\ row[s] # "over"
           /\ prefs'[s] # prefs[s] => c.op \in PrefsChanges /\ c.cookie = s
           /\ feedback'[s] # feedback[s] => c.op \in FeedbackChanges /\ c.cookie = s
<1>1. ServerTypeOK
  BY Zenon DEF FlowInv, TabsInv, TypeOK, ServerTypeOK
<1>2. CASE c.op = "create" /\ CreateSession(c)
  <2>1. PICK n \in Sessions : /\ row' = [row EXCEPT ![n] = "live"] /\ row[n] = "unused"
                              /\ UNCHANGED <<prefs, feedback>>
    BY <1>2, Zenon DEF CreateSession
  <2> QED BY <1>1, <1>2, <2>1, SMT DEF ServerTypeOK
<1>3. CASE c.op = "create" /\ Reconsent(c)
  BY <1>1, <1>3, SMT DEF ServerTypeOK, Reconsent
<1>4. CASE c.op = "delete" /\ DeleteSession(c)
  <2>1. s # c.cookie
    BY <1>1, <1>4, SMT DEF ServerTypeOK, DeleteSession
  <2> QED BY <2>1, <1>1, <1>4, SMT DEF ServerTypeOK, DeleteSession
<1>5. CASE c.op \in {"putPrefs", "clearPrefs"} /\ SetPreferences(c)
  BY <1>1, <1>5, SMT DEF ServerTypeOK, SetPreferences, PrefsChanges
<1>6. CASE c.op \in {"putFeedback", "clearFeedback"} /\ SetFeedback(c)
  <2>1. UNCHANGED <<row, prefs>> /\ (feedback'[s] # feedback[s] => c.cookie = s)
    <3>1. s # c.cookie => feedback'[s] = feedback[s]
      BY <1>1, <1>6, SMT DEF ServerTypeOK, SetFeedback
    <3> QED BY <1>6, <3>1 DEF SetFeedback
  <2> QED BY <1>6, <2>1, SMT DEF FeedbackChanges
<1>7. CASE c.op \in {"me", "getPrefs", "listFeedback", "recommend"} /\ Read(c)
  BY <1>7, SMT DEF Read
<1> QED BY <1>2, <1>3, <1>4, <1>5, <1>6, <1>7 DEF Effect

\* A tab that listens to a call then listens to its answer, and no other call is made.
LEMMA HeardAnswer ==
    ASSUME FlowInv, NEW c \in net, c.stage # "served", NEW reply, AnswerWith(c, reply),
           UNCHANGED tab, NEW t \in Tabs
    PROVE  /\ Changing(net') \subseteq Changing(net) \ {c}
           /\ c \notin Heard(t) => Heard(t)' = Heard(t)
           /\ c \in Heard(t) =>
                \E d : /\ Heard(t)' = (Heard(t) \ {c}) \cup {d}
                       /\ d.op = c.op /\ d.task = c.task /\ d.cookie = c.cookie
                       /\ d.stage = "served" /\ d.reply = reply
<1> DEFINE e == [c EXCEPT !.stage = "served"]
           d == [c EXCEPT !.stage = "served", !.reply = reply]
<1>1. c \in CallRecords
  BY Zenon DEF FlowInv, TabsInv, TypeOK
<1>2. /\ d.op = c.op /\ d.task = c.task /\ d.cookie = c.cookie /\ d.tab = c.tab
      /\ d.epoch = c.epoch /\ d.stage = "served" /\ d.reply = reply
  BY <1>1, SMT DEF CallRecords
<1>3. net' = (net \ {c}) \cup (IF c.stage = "detached" THEN {} ELSE {d})
  BY DEF AnswerWith
<1> HIDE DEF d
<1>4. Changing(net') \subseteq Changing(net) \ {c}
  BY <1>2, <1>3, Zenon DEF Changing
<1>5. ASSUME c \notin Heard(t) PROVE Heard(t)' = Heard(t)
  <2>1. ASSUME NEW x PROVE x \in Heard(t)' <=> x \in Heard(t)
    BY <1>2, <1>3, <1>5, Zenon DEF Heard
  <2> QED BY <2>1, Zenon
<1>6. ASSUME c \in Heard(t) PROVE Heard(t)' = (Heard(t) \ {c}) \cup {d}
  <2>1. ASSUME NEW x PROVE x \in Heard(t)' <=> x \in (Heard(t) \ {c}) \cup {d}
    BY <1>2, <1>3, <1>6, Zenon DEF Heard
  <2> QED BY <2>1, Zenon
<1> QED BY <1>2, <1>4, <1>5, <1>6, Zenon

\* Nobody else tells the tab anything while it awaits the answer to a change.
LEMMA ChangeIsAlone ==
    ASSUME FlowInv, NEW t \in Tabs, NEW c \in Heard(t),
           c.op \in PrefsChanges \cup FeedbackChanges
    PROVE  tab[t].load.task = "none" /\ \A x \in Heard(t) \ {c} : Rehydrates(x)
                                                                  /\ x.task = "bootstrap"
<1>1. /\ c \in net /\ c.tab = t /\ c.epoch = tab[c.tab].epoch /\ c.stage # "detached"
      /\ ~Rehydrates(c)
  BY Zenon DEF Heard, PrefsChanges, FeedbackChanges, Rehydrates
<1>2. HandlerFits(c, tab[t]) /\ Leftovers(Heard(t) \ {c})
  BY <1>1, HandlerIsAlone, Zenon
<1> QED BY <1>2, Zenon DEF HandlerFits, Leftovers

LEMMA AnsweringStores ==
    ASSUME FlowInv, StoredInv, NEW c \in net, c.stage # "served", NEW reply,
           AnswerWith(c, reply), UNCHANGED <<tab, switched>>,
           \A s \in Sessions : row'[s] # "over" =>
               /\ row[s] # "over"
               /\ prefs'[s] # prefs[s] => c.op \in PrefsChanges /\ c.cookie = s
               /\ feedback'[s] # feedback[s] => c.op \in FeedbackChanges /\ c.cookie = s,
           IF reply.kind = "ok"
           THEN c.op \in Owned => /\ c.cookie # NoSession
                                  /\ Agrees(reply, prefs'[c.cookie], feedback'[c.cookie])
           ELSE UNCHANGED <<prefs, feedback>>
    PROVE  StoredInv'
<1> SUFFICES ASSUME NEW t \in Tabs \ switched, Undoubted(tab[t]),
                    row'[tab[t].session.id] # "over"
             PROVE  UpToDate(tab[t], Heard(t)', net', prefs'[tab[t].session.id],
                             feedback'[tab[t].session.id])
  BY Storing, Zenon
<1> DEFINE w == tab[t]
           s == tab[t].session.id
           L == Heard(t)
<1>1. s \in Sessions
  BY ShowingIsSettled, Zenon DEF Undoubted
<1>2. /\ row[s] # "over"
      /\ prefs'[s] # prefs[s] => c.op \in PrefsChanges /\ c.cookie = s /\ reply.kind = "ok"
      /\ feedback'[s] # feedback[s] =>
           c.op \in FeedbackChanges /\ c.cookie = s /\ reply.kind = "ok"
  BY <1>1, Zenon
<1>3. UpToDate(w, L, net, prefs[s], feedback[s])
  BY <1>2, Storing, Zenon
<1>4. Tied(w, L, jar)
  BY Following, Zenon DEF FlowInv
<1>5. /\ Changing(net') \subseteq Changing(net) \ {c}
      /\ c \notin L => Heard(t)' = L
      /\ c \in L => \E d : /\ Heard(t)' = (L \ {c}) \cup {d}
                           /\ d.op = c.op /\ d.task = c.task /\ d.cookie = c.cookie
                           /\ d.stage = "served" /\ d.reply = reply
  <2>1. t \in Tabs /\ UNCHANGED tab
    OBVIOUS
  <2> QED BY <2>1, HeardAnswer
<1>6. prefs'[s] # prefs[s] \/ feedback'[s] # feedback[s] =>
        /\ c \in L /\ c.op \in PrefsChanges \cup FeedbackChanges /\ w.load.task = "none"
        /\ \A x \in L \ {c} : Rehydrates(x) /\ x.task = "bootstrap"
  <2>1. prefs'[s] # prefs[s] \/ feedback'[s] # feedback[s] =>
          c \in L /\ c.op \in PrefsChanges \cup FeedbackChanges
    BY <1>2, <1>3, Zenon DEF UpToDate, Changing
  <2> QED BY <2>1, ChangeIsAlone, Zenon
<1>7. CASE c \notin L
  <2>1. prefs'[s] = prefs[s] /\ feedback'[s] = feedback[s] /\ Heard(t)' = L
    BY <1>5, <1>6, <1>7, Zenon
  <2> HIDE DEF w, s, L
  <2> QED BY <2>1, <1>3, <1>5, Zenon DEF UpToDate, w, s
<1>8. CASE c \in L
  <2>1. PICK d : /\ Heard(t)' = (L \ {c}) \cup {d}
                 /\ d.op = c.op /\ d.task = c.task /\ d.cookie = c.cookie
                 /\ d.stage = "served" /\ d.reply = reply
    BY <1>5, <1>8, Zenon
  <2>2. (Rehydrates(d) <=> Rehydrates(c)) /\ (Refreshes(d) <=> Refreshes(c))
    BY <2>1, Zenon DEF Rehydrates, Refreshes
  <2> DEFINE M == (L \ {c}) \cup {d}
             p == prefs'[s]
             f == feedback'[s]
  <2>3. Changing(net') \subseteq M
    BY <1>3, <1>5, Zenon DEF UpToDate
  <2>4. d.op \in Owned /\ Accepted(d) /\ (Rehydrates(d) => w.load.task = d.task) =>
          Agrees(d.reply, p, f)
    <3> SUFFICES ASSUME d.op \in Owned, reply.kind = "ok", Rehydrates(c) => w.load.task = c.task
                 PROVE  Agrees(reply, p, f)
      BY <2>1, <2>2, Zenon DEF Accepted
    <3>1. c.cookie # NoSession /\ Agrees(reply, prefs'[c.cookie], feedback'[c.cookie])
      BY <2>1, Zenon
    <3>2. c.cookie \in {s, NoSession}
      BY <1>4, <1>8, <2>1, Zenon DEF Tied
    <3> QED BY <3>1, <3>2, Zenon
  <2>5. WasTold(w, M, p, f)
    <3>1. CASE prefs'[s] # prefs[s] \/ feedback'[s] # feedback[s]
      BY <3>1, <1>6, <2>4, Zenon DEF WasTold
    <3>2. CASE prefs'[s] = prefs[s] /\ feedback'[s] = feedback[s]
      <4>1. WasTold(w, L, p, f)
        BY <3>2, <1>3, Zenon DEF UpToDate
      <4> HIDE DEF w, L, p, f
      <4> QED BY <4>1, <2>4, Zenon DEF WasTold
    <3> QED BY <3>1, <3>2
  <2>6. ASSUME w.shown # NoShown PROVE ShowsOrWillHear(w, M, p, f)
    <3>1. ShowsOrWillHear(w, L, prefs[s], feedback[s])
      BY <1>3, <2>6, Zenon DEF UpToDate
    <3>2. ~Accepted(c)
      BY Zenon DEF Accepted
    <3>3. p # prefs[s] => d \in M /\ d.op \in PrefsChanges /\ Accepted(d)
      BY <1>2, <2>1, Zenon DEF Accepted
    <3>4. f # feedback[s] => d \in M /\ d.op \in FeedbackChanges /\ Accepted(d)
      BY <1>2, <2>1, Zenon DEF Accepted
    <3>5. \A x \in M : Refreshes(x) => w.personal = NoResult
      BY <1>8, <2>2, <3>1, Zenon DEF ShowsOrWillHear
    <3>6. \/ \E x \in M : x.op \in PrefsChanges /\ Accepted(x)
          \/ w.shown.prefs = p /\ (w.personal # NoResult => w.personal.prefs = p)
      <4> HIDE DEF w, p, f
      <4> QED BY <3>1, <3>2, <3>3, Zenon DEF ShowsOrWillHear
    <3>7. \/ \E x \in M : (x.op \in FeedbackChanges /\ Accepted(x)) \/ Refreshes(x)
          \/ w.shown.feedback = f /\ (w.personal # NoResult => w.personal.feedback = f)
      <4>1. CASE \E x \in L : (x.op \in FeedbackChanges /\ Accepted(x)) \/ Refreshes(x)
        BY <4>1, <2>2, <3>2, Zenon
      <4>2. CASE /\ w.shown.feedback = feedback[s]
                 /\ w.personal # NoResult => w.personal.feedback = feedback[s]
        <5> HIDE DEF w, p, f
        <5> QED BY <4>2, <3>4, Zenon
      <4> QED BY <4>1, <4>2, <3>1, Zenon DEF ShowsOrWillHear
    <3> HIDE DEF w, M, p, f
    <3> QED BY <3>5, <3>6, <3>7, Zenon DEF ShowsOrWillHear
  <2> HIDE DEF w, M, p, f
  <2> QED BY <2>1, <2>3, <2>5, <2>6, Zenon DEF UpToDate, M, p, f, w
<1> QED BY <1>7, <1>8

\* The server handles a call: what it changes, the tab is about to hear.
LEMMA HandleStores ==
    ASSUME AloneInv, NEW c \in net, Serve(c), UNCHANGED <<tab, clicks, lost, switched>>
    PROVE  AnswersAreKnown' /\ StoredInv'
<1>0. /\ FlowInv /\ AnswersAreKnown /\ StoredInv /\ c.stage # "served" /\ UNCHANGED version
      /\ c \in CallRecords /\ TypeOK
  BY Zenon DEF AloneInv, Serve, FlowInv, TabsInv, TypeOK
<1>1. c.cookie \in Sessions \cup {NoSession}
  BY <1>0, SMT DEF CallRecords
<1>2. PICK verdict \in Verdicts(c) :
         \/ verdict = "ok" /\ Effect(c)
         \/ /\ verdict # "ok"
            /\ UNCHANGED <<row, consent, prefs, feedback>>
            /\ AnswerWith(c, Reply(verdict, c.cookie))
  BY Zenon DEF Serve
<1>3. \E reply : AnswerWith(c, reply) /\ Known(c, reply) /\ StoredInv'
  <2>1. CASE verdict = "ok" /\ Effect(c)
    <3>1. PICK reply : /\ AnswerWith(c, reply) /\ Known(c, reply)
                       /\ reply.kind # "ok" => c.op = "me"
                       /\ c.op \in Owned =>
                            Agrees(reply, prefs'[c.cookie], feedback'[c.cookie])
      BY <1>0, <2>1, EffectTells
    <3>2. c.op \in Owned => c.cookie # NoSession
      BY <1>0, <2>1, LetThrough, NamesAssumption, Zenon DEF Owned, Protected
    <3>3. \A s \in Sessions : row'[s] # "over" =>
            /\ row[s] # "over"
            /\ prefs'[s] # prefs[s] => c.op \in PrefsChanges /\ c.cookie = s
            /\ feedback'[s] # feedback[s] => c.op \in FeedbackChanges /\ c.cookie = s
      BY <1>0, <2>1, EffectSaves
    <3>4. reply.kind # "ok" => UNCHANGED <<prefs, feedback>>
      <4>1. c.op = "me" => UNCHANGED <<prefs, feedback>>
        BY <2>1, Zenon DEF Effect, Read
      <4> QED BY <3>1, <4>1
    <3> QED BY <1>0, <3>1, <3>2, <3>3, <3>4, AnsweringStores
  <2>2. CASE /\ verdict # "ok"
             /\ UNCHANGED <<row, consent, prefs, feedback>>
             /\ AnswerWith(c, Reply(verdict, c.cookie))
    <3>1. verdict \in Kinds \ {"lapsed"}
      BY Refusal
    <3>2. Reply(verdict, c.cookie).kind = verdict
      BY <3>1, <1>0, <1>1, AReply
    <3>3. Known(c, Reply(verdict, c.cookie)) /\ Reply(verdict, c.cookie).kind # "ok"
      BY <2>2, <3>1, <3>2, Zenon DEF Known
    <3> QED BY <1>0, <2>2, <3>3, AnsweringStores
  <2> QED BY <1>2, <2>1, <2>2
<1>4. PICK reply : AnswerWith(c, reply) /\ Known(c, reply)
  BY <1>3
<1>5. AnswersAreKnown'
  <2> SUFFICES ASSUME NEW x \in net', x.stage = "served" PROVE Known(x, x.reply)
    BY Zenon DEF AnswersAreKnown
  <2> DEFINE d == [c EXCEPT !.stage = "served", !.reply = reply]
  <2>1. d.op = c.op /\ d.reply = reply
    BY <1>0, SMT DEF CallRecords
  <2>2. x \in net \/ x = d
    BY <1>4, Zenon DEF AnswerWith
  <2> HIDE DEF d
  <2> QED BY <1>0, <1>4, <2>1, <2>2, Zenon DEF AnswersAreKnown, Known
<1> QED BY <1>3, <1>5

-----------------------------------------------------------------------------
(* What a step of the tab leaves of what it shows and listens to. *)

\* A tab that loads nothing, and hears leftovers and calls without an answer, is up to date
\* if what it shows is.
LEMMA Quiet ==
    ASSUME NEW w, w.load.task = "none", NEW calls, NEW X, \A x \in X : x.stage = "sent",
           NEW H, X \subseteq H, \A x \in H : x \in X \/ Rehydrates(x),
           Changing(calls) \subseteq H, NEW p, NEW f, ShowsOrWillHear(w, X, p, f)
    PROVE  UpToDate(w, H, calls, p, f)
<1>1. \A x \in X : ~Accepted(x)
  BY SMT DEF Accepted
<1>2. \A x \in H : Rehydrates(x) => w.load.task # x.task /\ ~Refreshes(x)
  BY SMT DEF Rehydrates, Refreshes
<1>3. WasTold(w, H, p, f)
  BY <1>1, <1>2, Zenon DEF WasTold
<1>4. ShowsOrWillHear(w, H, p, f)
  BY <1>1, <1>2, Zenon DEF ShowsOrWillHear
<1> QED BY <1>3, <1>4, Zenon DEF UpToDate

LEMMA SettleLeaves ==
    ASSUME FlowInv, NEW c \in net, NEW reply, NEW w \in Memories, NEW calls,
           Settle(c, reply, w, calls), w.epoch >= tab[c.tab].epoch, Fresh(c.tab, w.epoch, calls)
    PROVE  LET u == tab'[c.tab]
           IN  /\ u.shown = w.shown /\ u.load = w.load /\ u.session = w.session
               /\ u.personal = w.personal
               /\ ~u.doubt => /\ ~w.doubt
                              /\ reply.kind = "failed" => c.op \in {"me", "recommend"}
                              /\ Changing(net') \subseteq (Changing(net) \ {c}) \cup Sent(calls, jar')
               /\ Heard(c.tab)' = Kept(c.tab, w, Heard(c.tab) \ {c}) \cup Sent(calls, jar')
               /\ UNCHANGED server
<1> DEFINE d == w.doubt \/ (reply.kind = "failed" /\ c.op \notin {"me", "recommend"})
           v == [w EXCEPT !.doubt = d]
           t == c.tab
           sent == Sent(calls, jar')
           detached == [c EXCEPT !.stage = "detached"]
<1>1. t \in Tabs /\ tab \in [Tabs -> Memories] /\ c \in CallRecords /\ net \subseteq CallRecords
  BY TabOfCall, Zenon DEF FlowInv, TabsInv, TypeOK
<1>2. tab'[t] = v /\ UNCHANGED server
  BY <1>1, Zenon DEF Settle
<1>3. /\ v.shown = w.shown /\ v.load = w.load /\ v.session = w.session
      /\ v.personal = w.personal /\ v.epoch = w.epoch
  BY Zenon DEF Memories
<1>4. v.doubt <=> d
  BY Zenon DEF Memories
<1>5. detached.stage = "detached" /\ detached.op = c.op
  BY <1>1, SMT DEF CallRecords
<1>6. PICK gone \in {{}, {detached}} :
         /\ net' = (net \ {c}) \cup gone \cup sent
         /\ gone # {} => reply.kind = "failed" /\ c.op \in Protected \cup {"create"}
  <2>1. PICK left \in IF reply = Failed /\ c.stage = "sent" /\ c.op \in Protected \cup {"create"}
                      THEN {{}, {detached}} ELSE {{}} :
              net' = (net \ {c}) \cup left \cup sent
    BY Zenon DEF Settle, Sent
  <2>2. left # {} => reply = Failed /\ c.op \in Protected \cup {"create"}
    BY <2>1, Zenon
  <2>3. left \in {{}, {detached}}
    BY <2>1, Zenon
  <2> HIDE DEF detached, sent
  <2> QED BY <2>1, <2>2, <2>3, Blanks, Zenon
<1>7. \A x \in sent : x.tab = t /\ x.epoch = w.epoch /\ x.stage = "sent"
  <2> SUFFICES ASSUME NEW y \in calls, NEW x, x = [y EXCEPT !.cookie = jar']
               PROVE  x.tab = t /\ x.epoch = w.epoch /\ x.stage = "sent"
    BY Zenon DEF Sent
  <2>1. y \in CallRecords /\ y.tab = t /\ y.epoch = w.epoch /\ y.stage = "sent"
    BY Zenon DEF Fresh
  <2> HIDE DEF t
  <2> QED BY <2>1, SMT DEF CallRecords
<1> HIDE DEF sent, detached
<1>8. ASSUME ~v.doubt
      PROVE  Changing(net') \subseteq (Changing(net) \ {c}) \cup sent
  <2>1. gone # {} => c.op \notin PrefsChanges \cup FeedbackChanges
    BY <1>4, <1>6, <1>8, Zenon DEF PrefsChanges, FeedbackChanges
  <2> QED BY <1>5, <1>6, <2>1, Zenon DEF Changing
<1>9. w.epoch = tab[t].epoch \/ \A x \in Heard(t)' : x \in sent
  <2>1. ASSUME NEW x \in net, x.tab = t, x.epoch = w.epoch PROVE w.epoch = tab[t].epoch
    <3>1. x.epoch <= tab[t].epoch /\ x.epoch \in Nat /\ tab[t].epoch \in Nat
      BY <1>1, <2>1, SMT DEF FlowInv, TabsInv, AnswersAreHonest, CallRecords, Memories
    <3> QED BY <2>1, <3>1, SMT
  <2> HIDE DEF v
  <2> QED BY <1>2, <1>3, <1>5, <1>6, <2>1, Zenon DEF Heard
<1>10. Heard(t)' = Kept(t, w, Heard(t) \ {c}) \cup sent
  <2> HIDE DEF v
  <2>1. ASSUME NEW x PROVE x \in Heard(t)' <=> x \in Kept(t, w, Heard(t) \ {c}) \cup sent
    BY <1>2, <1>3, <1>5, <1>6, <1>7, <1>9, Zenon DEF Heard, Kept
  <2> QED BY <2>1, Zenon
<1> HIDE DEF v
<1> QED BY <1>2, <1>3, <1>4, <1>8, <1>10, Zenon DEF sent

LEMMA ClickLeaves ==
    ASSUME FlowInv, NEW t \in Tabs, NEW w \in Memories, w.epoch >= tab[t].epoch,
           NEW calls, Fresh(t, w.epoch, calls), Click(t, w, calls)
    PROVE  /\ tab'[t] = w /\ UNCHANGED server
           /\ Changing(net') \subseteq Changing(net) \cup calls
           /\ Heard(t)' = Kept(t, w, Heard(t)) \cup calls
<1>1. tab \in [Tabs -> Memories] /\ net \subseteq CallRecords
  BY Zenon DEF FlowInv, TabsInv, TypeOK
<1>2. tab'[t] = w /\ net' = net \cup calls /\ UNCHANGED server
  BY <1>1, Zenon DEF Click
<1>3. Changing(net') \subseteq Changing(net) \cup calls
  BY <1>2, Zenon DEF Changing
<1>4. \A x \in calls : x.tab = t /\ x.epoch = w.epoch /\ x.stage = "sent"
  BY Zenon DEF Fresh
<1>5. ASSUME NEW x \in net, x.tab = t, x.epoch = w.epoch PROVE w.epoch = tab[t].epoch
  <2>1. x.epoch <= tab[t].epoch /\ x.epoch \in Nat /\ tab[t].epoch \in Nat
    BY <1>1, <1>5, SMT DEF FlowInv, TabsInv, AnswersAreHonest, CallRecords, Memories
  <2> QED BY <1>5, <2>1, SMT
<1>6. Heard(t)' = Kept(t, w, Heard(t)) \cup calls
  <2>1. ASSUME NEW x PROVE x \in Heard(t)' <=> x \in Kept(t, w, Heard(t)) \cup calls
    BY <1>2, <1>4, <1>5, Zenon DEF Heard, Kept
  <2> QED BY <2>1, Zenon
<1> QED BY <1>2, <1>3, <1>6

-----------------------------------------------------------------------------
(* What an answer leaves of it. *)

\* What a step of a tab keeps if it is the only one.
StaysStored ==
    OneTab /\ AnswersAreKnown /\ StoredInv => AnswersAreKnown' /\ StoredInv'

LEMMA SettleKnows ==
    ASSUME FlowInv, AnswersAreKnown, NEW c \in net, NEW reply, NEW w, NEW calls, NEW t, NEW e,
           Fresh(t, e, calls), Settle(c, reply, w, calls)
    PROVE  AnswersAreKnown'
<1> SUFFICES ASSUME NEW x \in net', x.stage = "served" PROVE Known(x, x.reply)
  BY Zenon DEF AnswersAreKnown
<1> DEFINE detached == [c EXCEPT !.stage = "detached"]
<1>1. x \in net \/ x = detached \/ \E y \in calls : x = [y EXCEPT !.cookie = jar']
  <2>1. PICK left \in IF reply = Failed /\ c.stage = "sent" /\ c.op \in Protected \cup {"create"}
                      THEN {{}, {detached}} ELSE {{}} :
              net' = (net \ {c}) \cup left \cup {[y EXCEPT !.cookie = jar'] : y \in calls}
    BY Zenon DEF Settle
  <2>2. left \in {{}, {detached}}
    BY <2>1, Zenon
  <2> HIDE DEF detached
  <2> QED BY <2>1, <2>2, Zenon
<1>2. c \in CallRecords
  BY Zenon DEF FlowInv, TabsInv, TypeOK
<1>3. detached.stage # "served"
  BY <1>2, SMT DEF CallRecords
<1>4. \A y \in calls : [y EXCEPT !.cookie = jar'].stage # "served"
  BY SMT DEF Fresh, CallRecords
<1> HIDE DEF detached
<1> QED BY <1>1, <1>3, <1>4, Zenon DEF AnswersAreKnown

LEMMA ClickKnows ==
    ASSUME AnswersAreKnown, NEW t, NEW w, NEW calls, NEW e, Fresh(t, e, calls), Click(t, w, calls)
    PROVE  AnswersAreKnown'
<1> SUFFICES ASSUME NEW x \in net', x.stage = "served" PROVE Known(x, x.reply)
  BY Zenon DEF AnswersAreKnown
<1>1. \A y \in calls : y.stage # "served"
  BY SMT DEF Fresh
<1> QED BY <1>1, Zenon DEF AnswersAreKnown, Click

\* The answer to a call that it awaits turns the memory w of a tab into v, which shows what w
\* was told.
Carries(c, w, v, calls) ==
    /\ v.shown # NoShown => w.shown # NoShown /\ v.session = w.session /\ v.doubt = w.doubt
    /\ \A p, f : /\ v.shown # NoShown /\ ShowsOrWillHear(w, {c}, p, f)
                 /\ c.op \in Owned /\ Accepted(c) => Agrees(c.reply, p, f)
                 => ShowsOrWillHear(v, calls, p, f)

\* It does, or the tab is now in doubt of it.
Remains(c, reply, w, v, calls) ==
    \/ reply.kind = "failed" /\ c.op \notin {"me", "recommend"}
    \/ Carries(c, w, v, calls)

LEMMA NothingRemains ==
    ASSUME NEW v, v.shown = NoShown, NEW c, NEW reply, NEW w, NEW calls
    PROVE  Remains(c, reply, w, v, calls)
BY Zenon DEF Remains, Carries

\* A failure that leaves what the tab shows puts it in doubt, unless it changed nothing.
LEMMA FailureRemains ==
    ASSUME FlowInv, AnswersAreKnown, NEW c \in net, ~Rehydrates(c), NEW reply \in Outcomes(c),
           reply.kind # "ok", NEW w, NEW v, Shows(v, w),
           reply.kind \in Ended => v.shown = NoShown
    PROVE  Remains(c, reply, w, v, {})
<1>1. Honest(c, reply) /\ (reply.kind = "failed" \/ Known(c, reply))
  BY OutcomeIsHonest, Blanks, Zenon DEF AnswersAreKnown, Outcomes
<1>2. CASE c.op \in PrefsChanges \cup FeedbackChanges \cup {"listFeedback"}
  <2>1. reply.kind = "failed" \/ v.shown = NoShown
    BY <1>1, <1>2, SMT DEF Honest, Known, Kinds, Ended, PrefsChanges, FeedbackChanges
  <2>2. c.op \notin {"me", "recommend"}
    BY <1>2 DEF PrefsChanges, FeedbackChanges
  <2> QED BY <2>1, <2>2, NothingRemains, Zenon DEF Remains
<1>3. CASE c.op \notin PrefsChanges \cup FeedbackChanges \cup {"listFeedback"}
  <2>1. SUFFICES ASSUME v.shown # NoShown PROVE Carries(c, w, v, {})
    BY NothingRemains, Zenon DEF Remains
  <2>2. /\ v.shown = w.shown /\ v.session = w.session /\ v.doubt = w.doubt
        /\ v.personal \in {w.personal, NoResult}
    BY <2>1 DEF Shows
  <2>3. ASSUME NEW p, NEW f, ShowsOrWillHear(w, {c}, p, f) PROVE ShowsOrWillHear(v, {}, p, f)
    <3>1. /\ w.shown.prefs = p /\ (w.personal # NoResult => w.personal.prefs = p)
          /\ w.shown.feedback = f /\ (w.personal # NoResult => w.personal.feedback = f)
      BY <1>3, <2>3, Zenon DEF ShowsOrWillHear, Refreshes
    <3> QED BY <2>2, <3>1, Zenon DEF ShowsOrWillHear
  <2> QED BY <2>1, <2>2, <2>3, Zenon DEF Carries
<1> QED BY <1>2, <1>3

\* So does what follows a failure, which ends the handler.
LEMMA FailureEnds ==
    ASSUME FlowInv, NEW c \in net, ~Rehydrates(c), NEW reply \in Outcomes(c), reply.kind # "ok",
           NEW v, LeftBehind(v, tab[c.tab]), Shows(v, tab[c.tab]),
           reply.kind \in Ended => v.shown = NoShown
    PROVE  /\ LeftBehind(v, tab[c.tab]) /\ ShowsOne(v, c.tab)
           /\ LeftBehind(Idle(c, v), tab[c.tab]) /\ ShowsOne(Idle(c, v), c.tab)
           /\ LeftBehind(Unpended(c, v), tab[c.tab]) /\ ShowsOne(Unpended(c, v), c.tab)
           /\ AnswersAreKnown =>
                /\ Remains(c, reply, tab[c.tab], v, {})
                /\ Remains(c, reply, tab[c.tab], Idle(c, v), {})
                /\ Remains(c, reply, tab[c.tab], Unpended(c, v), {})
<1> DEFINE w == tab[c.tab]
<1>1. /\ LeftBehind(Idle(c, v), w) /\ LeftBehind(Unpended(c, v), w)
      /\ Shows(Idle(c, v), v) /\ Shows(Unpended(c, v), v)
  BY Ending
<1>2. ShowsOne(v, c.tab) /\ ShowsOne(Idle(c, v), c.tab) /\ ShowsOne(Unpended(c, v), c.tab)
  BY <1>1, TabOfCall, ShowingOn, ShowingStill, Zenon
<1>3. Shows(Idle(c, v), w) /\ Shows(Unpended(c, v), w)
  BY <1>1, ShowingTwice
<1>4. reply.kind \in Ended => Idle(c, v).shown = NoShown /\ Unpended(c, v).shown = NoShown
  BY <1>1, Zenon DEF Shows
<1> HIDE DEF w
<1>5. ASSUME AnswersAreKnown
      PROVE  /\ Remains(c, reply, w, v, {}) /\ Remains(c, reply, w, Idle(c, v), {})
             /\ Remains(c, reply, w, Unpended(c, v), {})
  BY <1>3, <1>4, <1>5, FailureRemains DEF w
<1> QED BY <1>1, <1>2, <1>5 DEF w

\* An answer that is accepted is the one the call got.
LEMMA Taken ==
    ASSUME NEW c, NEW reply \in Outcomes(c), reply.kind = "ok"
    PROVE  Accepted(c) /\ reply = c.reply
BY Blanks, SMT DEF Outcomes, Accepted

LEMMA CarriesOn ==
    ASSUME NEW c, NEW w, NEW v, NEW calls, Carries(c, w, v, calls), NEW x, Shows(x, v)
    PROVE  Carries(c, w, x, calls)
<1>1. ASSUME NEW p, NEW f, x.shown # NoShown, ShowsOrWillHear(v, calls, p, f)
      PROVE  ShowsOrWillHear(x, calls, p, f)
  BY <1>1, Zenon DEF Shows, ShowsOrWillHear
<1>2. x.shown # NoShown => v.shown # NoShown /\ x.session = v.session /\ x.doubt = v.doubt
  BY Zenon DEF Shows
<1> QED BY <1>1, <1>2, Zenon DEF Carries

\* What a tab that trusts its session knows when it gets an answer.
LEMMA Trusting ==
    ASSUME FlowInv, StoredInv, NEW c \in net, c.stage # "detached",
           c.epoch = tab[c.tab].epoch, ~Rehydrates(c), c.tab \notin switched,
           tab[c.tab].shown # NoShown, ~tab[c.tab].doubt, row[tab[c.tab].session.id] # "over",
           NEW p, NEW f, p = prefs[tab[c.tab].session.id], f = feedback[tab[c.tab].session.id]
    PROVE  /\ Changing(net) \subseteq {c} /\ ShowsOrWillHear(tab[c.tab], {c}, p, f)
           /\ c.op \in Owned /\ Accepted(c) => Agrees(c.reply, p, f)
<1> DEFINE w == tab[c.tab]
           L == Heard(c.tab)
<1>1. c.tab \in Tabs /\ c \in L
  BY TabOfCall, Zenon DEF Heard
<1>2. UpToDate(w, L, net, p, f)
  <2>1. Undoubted(w)
    BY DEF Undoubted
  <2> QED BY <1>1, <2>1, Storing, Zenon
<1>3. \A x \in L \ {c} : Rehydrates(x)
  BY HandlerIsAlone, Zenon DEF Leftovers
<1>4. ASSUME NEW x, Rehydrates(x)
      PROVE  x.op \notin PrefsChanges \cup FeedbackChanges /\ ~Refreshes(x)
  BY <1>4, SMT DEF Rehydrates, PrefsChanges, FeedbackChanges, Refreshes
<1> HIDE DEF w, L
<1>5. Changing(net) \subseteq {c}
  BY <1>2, <1>3, <1>4, Zenon DEF UpToDate, Changing
<1>6. ShowsOrWillHear(w, {c}, p, f)
  BY <1>1, <1>2, <1>3, <1>4, Zenon DEF UpToDate, ShowsOrWillHear, w
<1>7. c.op \in Owned /\ Accepted(c) => Agrees(c.reply, p, f)
  BY <1>1, <1>2, Zenon DEF UpToDate, WasTold
<1> QED BY <1>5, <1>6, <1>7 DEF w

\* The calls that leave with an answer are the calls they were.
LEMMA SentAlike ==
    ASSUME NEW t, NEW e, NEW calls, Fresh(t, e, calls), NEW s
    PROVE  /\ \A x \in Sent(calls, s) : x.stage = "sent" /\ \E y \in calls : x.op = y.op
           /\ \A w, p, f : ShowsOrWillHear(w, calls, p, f) => ShowsOrWillHear(w, Sent(calls, s), p, f)
<1> DEFINE Alike(x, y) == x.stage = "sent" /\ x.op = y.op /\ x.task = y.task
<1>1. ASSUME NEW y \in calls, NEW x, x = [y EXCEPT !.cookie = s]
      PROVE  Alike(x, y) /\ ~Accepted(x) /\ ~Accepted(y) /\ (Refreshes(x) <=> Refreshes(y))
  <2>1. y \in CallRecords /\ y.stage = "sent"
    BY Zenon DEF Fresh
  <2>2. Alike(x, y)
    BY <1>1, <2>1, SMT DEF CallRecords
  <2> QED BY <2>1, <2>2, Zenon DEF Accepted, Refreshes, Rehydrates
<1>2. \A x \in Sent(calls, s) : \E y \in calls : x = [y EXCEPT !.cookie = s]
  BY Zenon DEF Sent
<1>3. \A y \in calls : \E x \in Sent(calls, s) : x = [y EXCEPT !.cookie = s]
  BY Zenon DEF Sent
<1>4. ASSUME NEW w, NEW p, NEW f, ShowsOrWillHear(w, calls, p, f)
      PROVE  ShowsOrWillHear(w, Sent(calls, s), p, f)
  <2>1. \A y \in calls : ~Accepted(y)
    BY <1>1, <1>3, Zenon
  <2>2. w.shown.prefs = p /\ (w.personal # NoResult => w.personal.prefs = p)
    BY <1>4, <2>1, Zenon DEF ShowsOrWillHear
  <2>3. (\E x \in Sent(calls, s) : Refreshes(x)) <=> \E y \in calls : Refreshes(y)
    BY <1>1, <1>2, <1>3, Zenon
  <2> QED BY <1>4, <2>1, <2>2, <2>3, Zenon DEF ShowsOrWillHear
<1>5. ASSUME NEW x \in Sent(calls, s) PROVE x.stage = "sent" /\ \E y \in calls : x.op = y.op
  <2>1. PICK y \in calls : x = [y EXCEPT !.cookie = s]
    BY <1>2
  <2> QED BY <1>1, <2>1, Zenon
<1> QED BY <1>4, <1>5

\* With one tab, an answer that carries on what the tab was told leaves it up to date.
LEMMA HandlerStores ==
    ASSUME FlowInv, NEW c \in net, c.stage # "detached", c.epoch = tab[c.tab].epoch,
           ~Rehydrates(c), NEW reply \in Outcomes(c), c.op # "create" \/ reply.kind # "ok",
           NEW v, LeftBehind(v, tab[c.tab]), NEW calls, Fresh(c.tab, v.epoch, calls),
           \A x \in calls : x.op \notin PrefsChanges \cup FeedbackChanges,
           Settle(c, reply, v, calls),
           AnswersAreKnown => Remains(c, reply, tab[c.tab], v, calls)
    PROVE  StaysStored
<1> SUFFICES ASSUME OneTab, AnswersAreKnown, StoredInv PROVE StoredInv'
  BY SettleKnows DEF StaysStored
<1> DEFINE t == c.tab
           w == tab[t]
           u == tab'[t]
           s == v.session.id
           sent == Sent(calls, jar')
<1>1. t \in Tabs /\ w \in Memories /\ Tabs = {t}
  BY TabOfCall, TheTab, Zenon
<1>2. v \in Memories /\ v.epoch >= w.epoch /\ v.load.task = "none"
  BY <1>1, EpochGrows, Zenon DEF LeftBehind
<1>3. /\ u.shown = v.shown /\ u.load = v.load /\ u.session = v.session
      /\ u.personal = v.personal
      /\ ~u.doubt => /\ ~v.doubt
                     /\ reply.kind = "failed" => c.op \in {"me", "recommend"}
                     /\ Changing(net') \subseteq (Changing(net) \ {c}) \cup sent
      /\ Heard(t)' = Kept(t, v, Heard(t) \ {c}) \cup sent
      /\ UNCHANGED server
  BY <1>2, SettleLeaves, Zenon
<1>4. switched' = switched
  BY JarStays
<1>5. SUFFICES ASSUME t \notin switched, Undoubted(u), row'[u.session.id] # "over"
               PROVE  UpToDate(u, Heard(t)', net', prefs'[u.session.id], feedback'[u.session.id])
  BY <1>1, <1>4, Storing, Zenon
<1> HIDE DEF w, u, sent
<1>6. /\ v.shown # NoShown /\ ~v.doubt /\ row[s] # "over"
      /\ reply.kind = "failed" => c.op \in {"me", "recommend"}
      /\ Changing(net') \subseteq (Changing(net) \ {c}) \cup sent
  BY <1>2, <1>3, <1>5, Zenon DEF Undoubted
<1>7. Carries(c, w, v, calls)
  BY <1>6, Zenon DEF Remains, w
<1>8. /\ Changing(net) \subseteq {c} /\ ShowsOrWillHear(w, {c}, prefs[s], feedback[s])
      /\ c.op \in Owned /\ Accepted(c) => Agrees(c.reply, prefs[s], feedback[s])
  <2>1. w.shown # NoShown /\ w.session = v.session /\ ~w.doubt
    BY <1>6, <1>7, Zenon DEF Carries
  <2> QED BY <1>5, <1>6, <2>1, Trusting DEF w
<1>9. ShowsOrWillHear(v, calls, prefs[s], feedback[s])
  BY <1>6, <1>7, <1>8, Zenon DEF Carries
<1>10. /\ \A x \in sent : x.stage = "sent" /\ x.op \notin PrefsChanges \cup FeedbackChanges
       /\ ShowsOrWillHear(v, sent, prefs[s], feedback[s])
  <2>1. /\ \A x \in sent : x.stage = "sent" /\ \E y \in calls : x.op = y.op
        /\ \A m, p, f : ShowsOrWillHear(m, calls, p, f) => ShowsOrWillHear(m, sent, p, f)
    BY SentAlike DEF sent
  <2> QED BY <1>9, <2>1, Zenon
<1>11. Changing(net') \subseteq Heard(t)'
  BY <1>6, <1>8, <1>10, Zenon DEF Changing
<1>12. ShowsOrWillHear(u, sent, prefs[s], feedback[s])
  BY <1>3, <1>10, Zenon DEF ShowsOrWillHear
<1>13. \A x \in Heard(t)' : x \in sent \/ Rehydrates(x)
  <2>1. \A x \in Heard(t) \ {c} : Rehydrates(x)
    BY HandlerIsAlone, Zenon DEF Leftovers
  <2> QED BY <1>3, <2>1, Zenon DEF Kept
<1>14. u.load.task = "none" /\ sent \subseteq Heard(t)'
  BY <1>2, <1>3
<1>15. UpToDate(u, Heard(t)', net', prefs[s], feedback[s])
  BY <1>10, <1>11, <1>12, <1>13, <1>14, Quiet
<1> QED BY <1>3, <1>15

\* With one tab, a load that trusts its session begins where nothing is changing.
LEMMA LoadStores ==
    ASSUME FlowInv, NEW c \in net, NEW reply, NEW v \in Memories, v.epoch >= tab[c.tab].epoch,
           NEW calls, Fresh(c.tab, v.epoch, calls), Settle(c, reply, v, calls),
           ~v.doubt => ~Unsettled(c),
           \A x \in calls : x.op \notin PrefsChanges \cup FeedbackChanges,
           \A x \in Kept(c.tab, v, Heard(c.tab) \ {c}) : Rehydrates(x) /\ x.task # v.load.task,
           v.shown = NoShown, v.load.prefs = NoReply, v.load.list = NoReply
    PROVE  StaysStored
<1> SUFFICES ASSUME OneTab PROVE StoredInv'
  BY SettleKnows DEF StaysStored
<1> DEFINE t == c.tab
           u == tab'[t]
           sent == Sent(calls, jar')
           heard == Kept(t, v, Heard(t) \ {c}) \cup sent
<1>1. t \in Tabs /\ Tabs = {t} /\ \A x \in net : x.tab = t
  BY TabOfCall, TheTab, Zenon
<1>2. /\ u.shown = v.shown /\ u.load = v.load
      /\ ~u.doubt => ~v.doubt /\ Changing(net') \subseteq (Changing(net) \ {c}) \cup sent
      /\ Heard(t)' = heard
  BY SettleLeaves, Zenon
<1>3. \A x \in sent : x.stage = "sent" /\ \E y \in calls : x.op = y.op
  BY SentAlike
<1>4. ASSUME ~v.doubt PROVE Changing(net) \ {c} = {}
  <2>1. \A x \in net \ {c} : x.stage # "served" => x.op \notin Protected
    BY <1>1, <1>4, Zenon DEF Unsettled
  <2> QED BY <2>1, Zenon DEF Changing, PrefsChanges, FeedbackChanges, Protected
<1> HIDE DEF u, heard, sent
<1>5. ASSUME NEW p, NEW f, ~u.doubt PROVE UpToDate(u, heard, net', p, f)
  <2>1. Changing(net') \subseteq sent
    BY <1>2, <1>4, <1>5, Zenon
  <2>2. Changing(net') = {}
    BY <1>3, <2>1, Zenon DEF Changing
  <2>3. \A x \in heard : Accepted(x) => Rehydrates(x) /\ x.task # u.load.task
    <3>1. \A x \in sent : ~Accepted(x)
      BY <1>3, SMT DEF Accepted
    <3> QED BY <1>2, <3>1, Zenon DEF heard
  <2>4. WasTold(u, heard, p, f)
    BY <1>2, <2>3, Zenon DEF WasTold
  <2> QED BY <1>2, <2>2, <2>4, Zenon DEF UpToDate
<1> QED BY <1>1, <1>2, <1>5, Storing, Zenon DEF Undoubted, u

\* What a tab in a load or beside it has heard and shows of a session, p and f.
Hears(w, heard, p, f) ==
    /\ WasTold(w, heard, p, f)
    /\ w.shown # NoShown => ShowsOrWillHear(w, heard, p, f)

\* With one tab, an answer to a load leaves it up to date if what it makes of it is what it
\* was told.
LEMMA LoadingStores ==
    ASSUME FlowInv, NEW c \in net, c.stage # "detached", c.epoch = tab[c.tab].epoch,
           Rehydrates(c), NEW reply \in Outcomes(c),
           NEW v \in Memories, v.epoch >= tab[c.tab].epoch, Settle(c, reply, v, {}),
           reply.kind # "failed" /\ Undoubted(v) =>
             /\ v.epoch = tab[c.tab].epoch /\ v.session = tab[c.tab].session
             /\ Undoubted(tab[c.tab])
             /\ \A p, f : Hears(tab[c.tab], Heard(c.tab), p, f) =>
                            Hears(v, Heard(c.tab) \ {c}, p, f)
    PROVE  StaysStored
<1>2. Fresh(c.tab, v.epoch, {}) /\ Sent({}, jar') = {}
  BY Zenon DEF Fresh, Sent
<1> SUFFICES ASSUME OneTab, StoredInv PROVE StoredInv'
  BY <1>2, SettleKnows DEF StaysStored
<1> DEFINE t == c.tab
           w == tab[t]
           u == tab'[t]
           L == Heard(t)
<1>1. t \in Tabs /\ Tabs = {t}
  BY TabOfCall, TheTab, Zenon
<1>3. /\ u.shown = v.shown /\ u.load = v.load /\ u.session = v.session
      /\ u.personal = v.personal
      /\ ~u.doubt => /\ ~v.doubt
                     /\ reply.kind = "failed" => c.op \in {"me", "recommend"}
                     /\ Changing(net') \subseteq Changing(net) \ {c}
      /\ Heard(t)' = Kept(t, v, L \ {c})
      /\ UNCHANGED server
  <2>1. /\ u.shown = v.shown /\ u.load = v.load /\ u.session = v.session
        /\ u.personal = v.personal
        /\ ~u.doubt => /\ ~v.doubt
                       /\ reply.kind = "failed" => c.op \in {"me", "recommend"}
                       /\ Changing(net') \subseteq (Changing(net) \ {c}) \cup Sent({}, jar')
        /\ Heard(t)' = Kept(t, v, L \ {c}) \cup Sent({}, jar')
        /\ UNCHANGED server
    BY <1>2, SettleLeaves
  <2> QED BY <1>2, <2>1, Zenon
<1>4. c.op \notin {"me", "create", "recommend"}
  BY SMT DEF Rehydrates
<1>5. switched' = switched
  BY <1>4, JarStays
<1> SUFFICES ASSUME t \notin switched, Undoubted(u), row[u.session.id] # "over"
             PROVE  UpToDate(u, Heard(t)', net', prefs[u.session.id], feedback[u.session.id])
  BY <1>1, <1>3, <1>5, Storing, Zenon
<1> DEFINE p == prefs[w.session.id]
           f == feedback[w.session.id]
<1> HIDE DEF w, u, L
<1>6. /\ v.epoch = tab[t].epoch /\ v.session = w.session /\ Undoubted(w)
      /\ Hears(w, L, p, f) => Hears(v, L \ {c}, p, f)
  <2>1. reply.kind # "failed" /\ Undoubted(v)
    BY <1>3, <1>4, Zenon DEF Undoubted
  <2> QED BY <2>1, Zenon DEF w, L
<1>7. UpToDate(w, L, net, p, f)
  BY <1>1, <1>3, <1>6, Storing, Zenon DEF w, L
<1> HIDE DEF p, f
<1>8. Hears(v, L \ {c}, p, f)
  BY <1>6, <1>7, Zenon DEF UpToDate, Hears
<1>9. Heard(t)' = L \ {c}
  BY <1>3, <1>6, Zenon DEF Kept
<1>10. Changing(net') \subseteq L \ {c}
  BY <1>3, <1>7, Zenon DEF UpToDate, Undoubted
<1>11. UpToDate(u, L \ {c}, net', p, f)
  BY <1>3, <1>8, <1>10, Zenon DEF UpToDate, Hears, WasTold, ShowsOrWillHear
<1> QED BY <1>3, <1>6, <1>9, <1>11 DEF p, f, w

-----------------------------------------------------------------------------
(* Answers. *)

\* A handler that ends keeps the invariant.
LEMMA HandlerEnds ==
    ASSUME FlowInv, NEW c \in net, c.stage # "detached", c.epoch = tab[c.tab].epoch,
           ~Rehydrates(c), NEW reply \in Outcomes(c), c.op # "create" \/ reply.kind # "ok",
           NEW v, LeftBehind(v, tab[c.tab]), ShowsOne(v, c.tab), Settle(c, reply, v, {}),
           AnswersAreKnown => Remains(c, reply, tab[c.tab], v, {})
    PROVE  FlowInv' /\ StaysStored
<1>1. tab[c.tab] \in Memories /\ Leftovers(Heard(c.tab) \ {c})
  BY HandlerIsAlone, Zenon
<1>2. /\ Joins(v, Kept(c.tab, v, Heard(c.tab) \ {c}), {}) /\ Fresh(c.tab, v.epoch, {})
  BY <1>1, NothingIssued, Zenon DEF Leftovers
<1>3. v \in Memories /\ v.epoch >= tab[c.tab].epoch /\ ShownBelongs(v)
  BY <1>1, EpochGrows, Zenon DEF LeftBehind
<1>4. reply \in Replies /\ c.tab \in Tabs
  BY OutcomeIsHonest, TabOfCall
<1>5. ASSUME c.tab \notin switched'
      PROVE  Tied(v, Kept(c.tab, v, Heard(c.tab) \ {c}) \cup Sent({}, jar'), jar')
  <2>1. jar' \in {jar, NoSession} /\ c.tab \notin switched
    BY <1>5, JarStays, Zenon
  <2>2. /\ v.load.task = "none" /\ ShownBelongs(v) /\ Sent({}, jar') = {}
        /\ \A d \in Kept(c.tab, v, Heard(c.tab) \ {c}) : Rehydrates(d)
    BY <1>1, Zenon DEF LeftBehind, Sent, Kept, Leftovers
  <2> QED BY <1>4, <2>1, <2>2, OneMore
<1>6. FlowInv'
  BY <1>2, <1>3, <1>4, <1>5, Settling
<1>7. StaysStored
  BY <1>2, HandlerStores
<1> QED BY <1>6, <1>7

\* A handler that issues its next call keeps the invariant.
LEMMA HandlerGoesOn ==
    ASSUME FlowInv, NEW c \in net, c.stage # "detached", c.epoch = tab[c.tab].epoch,
           ~Rehydrates(c), NEW reply \in Outcomes(c), c.op # "create" \/ reply.kind # "ok",
           NEW v, LeftBehind(v, tab[c.tab]), ShowsOne(v, c.tab),
           v.epoch = tab[c.tab].epoch, NEW x, Fresh(c.tab, v.epoch, {x}), HandlerFits(x, v),
           x.task \notin {"bootstrap", "clear"}, Settle(c, reply, v, {x}),
           x.op \notin PrefsChanges \cup FeedbackChanges,
           AnswersAreKnown => Remains(c, reply, tab[c.tab], v, {x})
    PROVE  FlowInv' /\ StaysStored
<1> DEFINE L == Heard(c.tab) \ {c}
<1>1. tab[c.tab] \in Memories /\ Leftovers(L)
  BY HandlerIsAlone, Zenon
<1>2. Joins(v, Kept(c.tab, v, L), {})
  BY <1>1, NothingIssued, Zenon DEF Leftovers
<1>3. \A d \in Kept(c.tab, v, L) : Beside(d, x)
  BY <1>1, Zenon DEF Leftovers, Kept, Beside, Outlives, HandlerFits
<1>4. Joins(v, Kept(c.tab, v, L), {x})
  BY <1>2, <1>3, Zenon DEF Joins, TakeTurns
<1>5. v \in Memories /\ v.epoch >= tab[c.tab].epoch /\ ShownBelongs(v)
  BY <1>1, EpochGrows, Zenon DEF LeftBehind
<1>6. reply \in Replies /\ c.tab \in Tabs
  BY OutcomeIsHonest, TabOfCall
<1>7. ASSUME c.tab \notin switched'
      PROVE  Tied(v, Kept(c.tab, v, L) \cup Sent({x}, jar'), jar')
  <2>1. jar' \in {jar, NoSession} /\ c.tab \notin switched
    BY <1>7, JarStays, Zenon
  <2>2. /\ v.load.task = "none" /\ ShownBelongs(v)
        /\ \A d \in Kept(c.tab, v, L) : Rehydrates(d)
    BY <1>1, Zenon DEF LeftBehind, Kept, Leftovers
  <2>3. ASSUME NEW y \in Sent({x}, jar') PROVE HandlerFits(y, v) /\ y.cookie = jar'
    <3>1. y = [x EXCEPT !.cookie = jar'] /\ x \in CallRecords
      BY Zenon DEF Sent, Fresh
    <3>2. /\ y.op = x.op /\ y.task = x.task /\ y.csrf = x.csrf /\ y.game = x.game
          /\ y.cookie = jar'
      BY <3>1, SMT DEF CallRecords
    <3> QED BY <3>2, Zenon DEF HandlerFits, Rehydrates
  <2> HIDE DEF L
  <2> QED BY <1>6, <2>1, <2>2, <2>3, OneMore
<1>8. FlowInv'
  BY <1>4, <1>5, <1>6, <1>7, Settling
<1>9. StaysStored
  BY HandlerStores
<1> QED BY <1>8, <1>9

\* A load begins: two requests for the session that the answer names.
LEMMA LoadBegins ==
    ASSUME FlowInv, NEW c \in net, c.stage # "detached", c.epoch = tab[c.tab].epoch,
           NEW reply \in Outcomes(c), reply.kind = "ok", NEW d \in BOOLEAN,
           ~d => ~Unsettled(c),
           NEW task, (task = "bootstrap" /\ c.op = "me") \/ (task = "consent" /\ c.op = "create"),
           Settle(c, reply, Rehydrating(tab[c.tab], task, reply, d),
                  RehydrateCalls(c.tab, tab[c.tab], task))
    PROVE  FlowInv' /\ StaysStored
<1> DEFINE w == tab[c.tab]
           L == Heard(c.tab) \ {c}
           v == Rehydrating(w, task, reply, d)
           x == Call(c.tab, w, task, "getPrefs")
           y == Call(c.tab, w, task, "listFeedback")
<1>0. reply \in Replies /\ Honest(c, reply) /\ reply.session \in Sessions
  BY OutcomeIsHonest, Zenon DEF Honest
<1>1. ~Rehydrates(c)
  BY DEF Rehydrates
<1>2. /\ w \in Memories /\ ShownBelongs(w) /\ HandlerFits(c, w) /\ Leftovers(L)
      /\ c.task \in {"bootstrap", "clear"} => L = {}
  BY <1>1, HandlerIsAlone, Zenon
<1>3. /\ task = "bootstrap" => c.task = "bootstrap" /\ w.ui = "bootstrapping"
      /\ task = "consent" => w.ui \in {"stateless", "consent_outdated"}
      /\ MutationPending(w) /\ w.ui # "active"
  BY <1>2, SMT DEF HandlerFits, FeedbackTasks
<1>4. TypeOK /\ c.tab \in Tabs
  <2>1. TypeOK /\ c \in CallRecords
    BY Zenon DEF FlowInv, TabsInv, TypeOK
  <2> QED BY <2>1, SMT DEF CallRecords
<1>5. /\ Fresh(c.tab, w.epoch, {x}) /\ x.task = task /\ x.op = "getPrefs"
      /\ Fresh(c.tab, w.epoch, {y}) /\ y.task = task /\ y.op = "listFeedback"
  <2>1. task \in Tasks /\ "getPrefs" \in Ops /\ "listFeedback" \in Ops
    BY Zenon DEF Tasks, Ops, Owned
  <2>2. w \in Memories
    BY <1>2
  <2> HIDE DEF w
  <2>3. Issued(x, c.tab, w, task, "getPrefs")
    BY <1>4, <2>1, <2>2, Calling
  <2>4. Issued(y, c.tab, w, task, "listFeedback")
    BY <1>4, <2>1, <2>2, Calling
  <2> HIDE DEF x, y
  <2> QED BY <2>3, <2>4, Zenon DEF Issued
<1> DEFINE session == [id |-> reply.session, version |-> reply.current]
           started == [NoLoad EXCEPT !.task = task]
           load == [started EXCEPT !.session = reply.session]
           v1 == [w EXCEPT !.session = session]
           v2 == [v1 EXCEPT !.doubt = d]
<1>6. session \in [id : Sessions \cup {NoSession}, version : Versions \cup {0}]
  BY <1>0, SMT DEF Replies
<1>7. /\ load \in [task : {"none", "bootstrap", "consent"}, session : Sessions \cup {NoSession},
                   prefs : Replies, list : Replies]
      /\ load.task = task /\ load.session = reply.session
      /\ load.prefs = NoReply /\ load.list = NoReply
  <2>1. NoLoad.prefs = NoReply /\ NoLoad.list = NoReply /\ task \in {"none", "bootstrap", "consent"}
    BY DEF NoLoad
  <2>2. /\ started \in [task : {"none", "bootstrap", "consent"},
                      session : Sessions \cup {NoSession}, prefs : Replies, list : Replies]
        /\ started.task = task /\ started.prefs = NoReply /\ started.list = NoReply
    BY <2>1, Blanks, SMT
  <2> HIDE DEF started
  <2> QED BY <2>2, <1>0, SMT
<1>8. v = [w EXCEPT !.session = session, !.doubt = d, !.load = load]
  <2>1. load = [NoLoad EXCEPT !.task = task, !.session = reply.session]
    BY SMT DEF NoLoad
  <2> QED BY <2>1, Zenon DEF Rehydrating, Lifecycle
<1> HIDE DEF load
<1>9. v \in Memories
  <2>1. v1 \in Memories
    BY <1>2, <1>6, Setting, Zenon
  <2>2. v2 \in Memories
    <3> HIDE DEF v1
    <3> QED BY <2>1, Setting, Zenon
  <2>3. v = [v2 EXCEPT !.load = load]
    <3> HIDE DEF v, w, session
    <3> QED BY <1>2, <1>8, SMT DEF Memories
  <2> HIDE DEF v, v2
  <2> QED BY <1>7, <2>2, <2>3, Setting, Zenon
<1>10. /\ v.session = session /\ v.load = load /\ v.ui = w.ui /\ v.busy = w.busy
       /\ v.pending = w.pending /\ v.epoch = w.epoch /\ v.shown = w.shown
       /\ v.personal = w.personal /\ v.doubt = d
  <2> HIDE DEF v, w, session
  <2> QED BY <1>2, <1>8, SMT DEF Memories
<1> HIDE DEF v, w, x, y
<1>11. ShownBelongs(v)
  BY <1>2, <1>3, <1>10, Zenon DEF ShownBelongs
<1>12. LoadFits(v)
  <2>1. MutationPending(v)
    BY <1>3, <1>10, Zenon DEF MutationPending
  <2> QED BY <2>1, <1>0, <1>3, <1>7, <1>10, SMT DEF LoadFits
<1>13. RehydrationFits(x, v) /\ RehydrationFits(y, v)
  BY <1>5, <1>7, <1>10, SMT DEF RehydrationFits, Rehydrates
<1>14. Beside(x, y) /\ Beside(y, x)
  BY <1>5, SMT DEF Beside, Rehydrates
<1>15. \A e \in L : RehydrationFits(e, v) /\ Beside(e, x) /\ Beside(e, y)
  <2> SUFFICES ASSUME NEW e \in L
               PROVE  RehydrationFits(e, v) /\ Beside(e, x) /\ Beside(e, y)
    OBVIOUS
  <2>1. Rehydrates(e) /\ e.task = "bootstrap" /\ task = "consent"
    BY <1>2, <1>3, Zenon DEF Leftovers
  <2> QED BY <2>1, <1>5, <1>7, <1>10, SMT DEF RehydrationFits, Beside, Rehydrates
<1>19. ASSUME c.tab \notin switched'
       PROVE  Tied(v, Kept(c.tab, v, L) \cup Sent({x, y}, jar'), jar')
  <2>1. jar' \in {reply.session, NoSession}
    <3>1. jar' = IF reply.sets THEN reply.session ELSE jar
      BY SMT DEF Settle, JarAfter, ClearsCookie
    <3>2. ASSUME ~reply.sets PROVE jar \in {reply.session, NoSession}
      <4>1. c.tab \notin switched
        BY <1>19, <3>1, <3>2, Zenon DEF Settle
      <4>2. Tied(w, Heard(c.tab), jar) /\ c \in Heard(c.tab)
        BY <4>1, <1>4, Following, Zenon DEF FlowInv, Heard, w
      <4>3. jar \in {c.cookie, NoSession}
        BY <4>2, Zenon DEF Tied
      <4> QED BY <4>3, <3>2, <1>0, Zenon DEF Honest
    <3> QED BY <3>1, <3>2
  <2>2. /\ v.session.id = reply.session /\ v.load.task = task /\ task # "none"
        /\ v.load.prefs = NoReply /\ v.load.list = NoReply /\ v.shown = NoShown
    BY <1>3, <1>7, <1>10, <1>11, SMT DEF ShownBelongs
  <2>3. ASSUME NEW e \in Kept(c.tab, v, L)
        PROVE  Rehydrates(e) /\ e.task # task /\ e.op \notin {"me", "create"}
    <3>1. e \in L
      BY Zenon DEF Kept
    <3> QED BY <3>1, <1>2, <1>3, SMT DEF Leftovers, Rehydrates
  <2>4. ASSUME NEW z \in Sent({x, y}, jar')
        PROVE  z.cookie = jar' /\ z.op \notin {"me", "create"}
    <3>1. PICK u \in {x, y} : z = [u EXCEPT !.cookie = jar']
      BY Zenon DEF Sent
    <3>2. u \in CallRecords /\ u.op \in {"getPrefs", "listFeedback"}
      BY <1>5, Zenon DEF Fresh
    <3> QED BY <3>1, <3>2, SMT DEF CallRecords
  <2> HIDE DEF L
  <2> QED BY <2>1, <2>2, <2>3, <2>4, Zenon DEF Tied
<1>16. Joins(v, Kept(c.tab, v, L), {x, y})
  <2>1. TakeTurns(v, {x, y})
    BY <1>12, <1>13, <1>14, Zenon DEF TakeTurns
  <2>2. \A e \in Kept(c.tab, v, L) : e \in L
    BY Zenon DEF Kept
  <2>3. TakeTurns(v, Kept(c.tab, v, L))
    BY <2>2, <1>12, <1>15, <1>2, Zenon DEF TakeTurns, Leftovers
  <2> QED BY <2>1, <2>2, <2>3, <1>15, Zenon DEF Joins
<1>17. Fresh(c.tab, v.epoch, {x, y}) /\ v.epoch >= tab[c.tab].epoch
  BY <1>5, <1>2, <1>10, SMT DEF Fresh, Memories, w
<1>18. Settle(c, reply, v, {x, y})
  BY Zenon DEF RehydrateCalls, v, w, x, y
<1>20. FlowInv'
  BY <1>0, <1>9, <1>11, <1>16, <1>17, <1>18, <1>19, Settling
<1>21. StaysStored
  <2>1. \A e \in Kept(c.tab, v, L) : Rehydrates(e) /\ e.task # v.load.task
    <3>1. \A e \in L : Rehydrates(e) /\ e.task # task
      BY <1>2, <1>3, SMT DEF Leftovers
    <3> QED BY <1>7, <1>10, <3>1, Zenon DEF Kept
  <2>2. v.shown = NoShown /\ v.load.prefs = NoReply /\ v.load.list = NoReply
    BY <1>3, <1>7, <1>10, <1>11, Zenon DEF ShownBelongs
  <2>3. \A z \in {x, y} : z.op \notin PrefsChanges \cup FeedbackChanges
    BY <1>5 DEF PrefsChanges, FeedbackChanges
  <2>4. ~v.doubt => ~Unsettled(c)
    BY <1>10
  <2> QED BY <1>9, <1>17, <1>18, <2>1, <2>2, <2>3, <2>4, LoadStores
<1> QED BY <1>20, <1>21

\* The answer to GET /me.
LEMMA BootstrapKeeps ==
    ASSUME FlowInv, NEW c \in net, c.stage # "detached", NEW reply \in Outcomes(c),
           BootstrapAnswered(c, reply)
    PROVE  FlowInv' /\ StaysStored
<1> DEFINE w == tab[c.tab]
<1>1. reply \in Replies /\ Honest(c, reply)
  BY OutcomeIsHonest
<1>2. c.task = "bootstrap" /\ c.epoch = w.epoch /\ c.op = "me" /\ ~Rehydrates(c)
  BY SMT DEF BootstrapAnswered, Awaited, Rehydrates
<1>3. w \in Memories /\ ShownBelongs(w) /\ HandlerFits(c, w)
  BY <1>2, HandlerIsAlone, Zenon
<1>4. w.ui = "bootstrapping" /\ w.load.task = "none"
  BY <1>2, <1>3, SMT DEF HandlerFits, FeedbackTasks
<1>5. CASE reply.kind = "ok"
  <2>2. Settle(c, reply, Rehydrating(w, "bootstrap", reply, Unsettled(c)),
               RehydrateCalls(c.tab, w, "bootstrap"))
    BY <1>5, Zenon DEF BootstrapAnswered
  <2>3. Unsettled(c) \in BOOLEAN
    BY Zenon DEF Unsettled
  <2> QED BY <1>2, <1>5, <2>2, <2>3, LoadBegins, Zenon
<1>6. CASE reply.kind = "lapsed"
  <2> DEFINE u == Unshown(w)
             session == Lifecycle(reply)
             v == [u EXCEPT !.session = session, !.busy = FALSE, !.ui = "consent_outdated"]
             v1 == [u EXCEPT !.session = session]
             v2 == [v1 EXCEPT !.busy = FALSE]
  <2>1. Settle(c, reply, v, {})
    BY <1>6, Zenon DEF BootstrapAnswered
  <2>2. /\ u \in Memories /\ u.epoch = w.epoch /\ u.shown = NoShown
        /\ u.personal = NoResult /\ u.load = w.load
    BY <1>3, Withdrawing, Zenon
  <2>3. session \in [id : Sessions \cup {NoSession}, version : Versions \cup {0}]
    BY <1>1, SMT DEF Replies, Lifecycle
  <2> HIDE DEF u, session
  <2>4. v1 \in Memories
    BY <2>2, <2>3, Setting, Zenon
  <2>5. v2 \in Memories
    <3> HIDE DEF v1
    <3> QED BY <2>4, Setting, Zenon
  <2>6. v = [v2 EXCEPT !.ui = "consent_outdated"]
    BY <2>2, SMT DEF Memories
  <2>7. /\ v.epoch = w.epoch /\ v.ui = "consent_outdated"
        /\ v.shown = NoShown /\ v.personal = NoResult /\ v.load = w.load
    BY <2>2, SMT DEF Memories
  <2>8. v \in Memories
    <3> HIDE DEF v, v2
    <3> QED BY <2>5, <2>6, Setting, Zenon DEF States
  <2> HIDE DEF v
  <2>9. LeftBehind(v, w) /\ ShowsOne(v, c.tab)
    BY <2>7, <2>8, <1>4, Zenon DEF LeftBehind, ShownBelongs, ShowsOne
  <2>10. c.op # "create" /\ Remains(c, reply, w, v, {})
    BY <1>2, <2>7, NothingRemains
  <2> QED BY <1>2, <2>1, <2>9, <2>10, HandlerEnds, Zenon
<1>7. CASE reply.kind \notin {"ok", "lapsed"}
  <2>1. Settle(c, reply, Idle(c, SessionFailure(w, reply, "error")), {})
    BY <1>7, SMT DEF BootstrapAnswered
  <2>2. reply.kind # "stale"
    BY <1>1, <1>2, Zenon DEF Honest
  <2> DEFINE failed == SessionFailure(w, reply, "error")
  <2>3. LeftBehind(failed, w) /\ Shows(failed, w) /\ (reply.kind \in Ended => failed.shown = NoShown)
    BY <1>1, <1>3, <1>4, <2>2, Failing, Zenon DEF States
  <2> HIDE DEF failed
  <2>4. /\ LeftBehind(Idle(c, failed), w) /\ ShowsOne(Idle(c, failed), c.tab)
        /\ AnswersAreKnown => Remains(c, reply, w, Idle(c, failed), {})
    BY <1>2, <1>7, <2>3, FailureEnds
  <2>5. c.op # "create"
    BY <1>2
  <2> QED BY <1>2, <2>1, <2>4, <2>5, HandlerEnds, Zenon DEF failed
<1> QED BY <1>5, <1>6, <1>7

\* An answer about saved data that a tab listens to is of the session it loads or shows.
LEMMA AnswerOfMine ==
    ASSUME FlowInv, NEW c \in net, c.stage # "detached", c.epoch = tab[c.tab].epoch,
           c.tab \notin switched, c.op \in Owned,
           Rehydrates(c) => tab[c.tab].load.task = c.task,
           NEW reply \in Outcomes(c), reply.kind = "ok"
    PROVE  reply.session = tab[c.tab].session.id
<1>1. Tied(tab[c.tab], Heard(c.tab), jar) /\ c \in Heard(c.tab)
  BY TabOfCall, Following, Zenon DEF FlowInv, Heard
<1>2. c.cookie \in {tab[c.tab].session.id, NoSession}
  BY <1>1, Zenon DEF Tied
<1>3. c.op # "create"
  BY SMT DEF Owned, Protected
<1> QED BY <1>2, <1>3, OutcomeIsHonest, Zenon DEF Honest

\* A load that is complete puts the workspace in place.
LEMMA Rehydration ==
    ASSUME NEW g \in Memories, g.load.session \in Sessions, g.load.session = g.session.id,
           NEW w, g.epoch = w.epoch
    PROVE  LET v == Rehydrated(g)
           IN  /\ LeftBehind(v, w) /\ v.session = g.session /\ v.shown.session = g.load.session
               /\ v.shown.prefsOf = g.load.prefs.session
               /\ v.shown.feedbackOf = g.load.list.session
               /\ v.shown.prefs = g.load.prefs.prefs /\ v.shown.feedback = g.load.list.feedback
               /\ v.personal = NoResult /\ v.doubt = g.doubt
<1> DEFINE saved == [session |-> g.load.session,
                     prefs |-> g.load.prefs.prefs, prefsOf |-> g.load.prefs.session,
                     feedback |-> g.load.list.feedback, feedbackOf |-> g.load.list.session]
           v == Rehydrated(g)
           v1 == [g EXCEPT !.ui = "active"]
           v2 == [v1 EXCEPT !.personal = NoResult]
           v3 == [v2 EXCEPT !.pending = NoGame]
           v4 == [v3 EXCEPT !.assured = {}]
           v5 == [v4 EXCEPT !.load = NoLoad]
<1>1. /\ saved \in ShownProfiles /\ saved.session = g.load.session
      /\ saved.prefsOf = g.load.prefs.session /\ saved.feedbackOf = g.load.list.session
      /\ saved.prefs = g.load.prefs.prefs /\ saved.feedback = g.load.list.feedback
  <2>1. g.load.prefs \in Replies /\ g.load.list \in Replies
    BY SMT DEF Memories
  <2> QED BY <2>1, SMT DEF Replies, ShownProfiles
<1> HIDE DEF saved
<1>2. v1 \in Memories
  BY Setting, Zenon DEF States
<1>3. v3 \in Memories
  <2> HIDE DEF v1
  <2>1. v2 \in Memories
    BY <1>2, Setting, Blanks, Zenon
  <2> HIDE DEF v2
  <2> QED BY <2>1, Setting, Blanks, Zenon
<1>4. v5 \in Memories
  <2> HIDE DEF v3
  <2>1. v4 \in Memories
    BY <1>3, Setting, Blanks, Zenon
  <2> HIDE DEF v4
  <2> QED BY <2>1, Setting, Blanks, Zenon
<1>5. v = [v5 EXCEPT !.shown = saved]
  BY SMT DEF Memories, Rehydrated, saved
<1>6. v \in Memories
  <2> HIDE DEF v, v5
  <2> QED BY <1>1, <1>4, <1>5, Setting, Zenon
<1>7. /\ v.ui = "active" /\ v.shown = saved /\ v.session = g.session /\ v.personal = NoResult
      /\ v.load = NoLoad /\ v.epoch = g.epoch /\ v.doubt = g.doubt
  BY SMT DEF Memories, Rehydrated, saved
<1> HIDE DEF v
<1>8. LeftBehind(v, w)
  BY <1>1, <1>6, <1>7, Blanks, Zenon DEF LeftBehind, ShownBelongs
<1> QED BY <1>1, <1>7, <1>8 DEF v

\* An answer to one of the two requests of a load.
LEMMA RehydrateKeeps ==
    ASSUME FlowInv, NEW c \in net, c.stage # "detached", NEW reply \in Outcomes(c),
           RehydrateAnswered(c, reply)
    PROVE  FlowInv' /\ StaysStored
<1> DEFINE t == c.tab
           w == tab[t]
           L == Heard(t) \ {c}
           got == Arrived(w, c, reply)
           failed == [w EXCEPT !.load = NoLoad]
<1>1. reply \in Replies /\ Honest(c, reply)
  BY OutcomeIsHonest
<1>2. Rehydrates(c) /\ c.epoch = w.epoch
  BY SMT DEF RehydrateAnswered, Awaited, Rehydrates
<1>3. t \in Tabs /\ w \in Memories
  <2>1. c \in CallRecords
    BY Zenon DEF FlowInv, TabsInv, TypeOK
  <2>2. t \in Tabs
    BY <2>1, SMT DEF CallRecords
  <2> QED BY <2>2, Zenon DEF FlowInv, TabsInv, TypeOK
<1>4. ShownBelongs(w) /\ TakeTurns(w, Heard(t)) /\ c \in Heard(t)
  BY <1>2, <1>3, Zenon DEF FlowInv, TabsInv, ShownBelongsToActiveSession, HandlersTakeTurns, Heard
<1>5. TakeTurns(w, L) /\ LoadFits(w)
  BY <1>4, Zenon DEF TakeTurns
<1>6. c.stage # "detached" /\ reply.kind # "stale"
  BY <1>1, <1>2, SMT DEF Honest, Rehydrates
<1>9. ASSUME NEW x, Settle(c, reply, x, {}), t \notin switched'
      PROVE  jar' \in {jar, NoSession} /\ t \notin switched /\ Tied(w, Heard(t), jar)
  <2>1. c.op # "create"
    BY <1>2, SMT DEF Rehydrates
  <2>2. jar' \in {jar, NoSession} /\ switched' = switched
    BY <1>9, <2>1, JarStays, Zenon
  <2> QED BY <1>3, <1>9, <2>2, Following, Zenon DEF FlowInv
<1>10. \A K, s : K \cup Sent({}, s) = K
  BY Zenon DEF Sent
<1>11. /\ c.op \in Owned /\ c.op \notin PrefsChanges \cup FeedbackChanges /\ ~Refreshes(c)
       /\ reply.kind = "ok" => Accepted(c) /\ reply = c.reply
  <2>1. c.op \in Owned /\ c.op \notin PrefsChanges \cup FeedbackChanges
    BY <1>2, SMT DEF Rehydrates, Owned, PrefsChanges, FeedbackChanges
  <2>2. reply.kind = "ok" => Accepted(c) /\ reply = c.reply
    BY Blanks, SMT DEF Outcomes, Accepted
  <2> QED BY <1>2, <2>1, <2>2 DEF Refreshes
<1> HIDE DEF w
<1>7. CASE w.load.task # c.task
  <2>1. Settle(c, reply, w, {})
    BY <1>7, Zenon DEF RehydrateAnswered, w
  <2>2. Kept(t, w, L) = L
    BY Zenon DEF Kept, w
  <2>3. Joins(w, Kept(t, w, L), {}) /\ Fresh(t, w.epoch, {})
    BY <1>5, <2>2, Zenon DEF Joins, TakeTurns, Fresh
  <2>4. w.epoch >= tab[c.tab].epoch
    BY <1>3, SMT DEF Memories, w
  <2>5. ASSUME t \notin switched'
        PROVE  Tied(w, Kept(t, w, L) \cup Sent({}, jar'), jar')
    <3>1. jar' \in {jar, NoSession} /\ Tied(w, Heard(t), jar)
      BY <1>9, <2>1, <2>5
    <3>2. Kept(t, w, L) \cup Sent({}, jar') \subseteq Heard(t)
      BY <2>2, Zenon DEF Sent
    <3> HIDE DEF L
    <3> QED BY <3>1, <3>2, StaysTied
  <2>6. FlowInv'
    BY <1>1, <1>3, <1>4, <2>1, <2>3, <2>4, <2>5, Settling
  <2>7. ASSUME NEW p, NEW f, Hears(w, Heard(t), p, f) PROVE Hears(w, L, p, f)
    BY <1>11, <2>7, Zenon DEF Hears, WasTold, ShowsOrWillHear
  <2>8. Settle(c, reply, w, {}) /\ w.epoch = tab[t].epoch /\ w.session = tab[t].session
    BY <2>1 DEF w
  <2>9. StaysStored
    BY <1>2, <1>3, <1>6, <2>4, <2>7, <2>8, LoadingStores, Zenon DEF w
  <2> QED BY <2>6, <2>9
<1>8. CASE w.load.task = c.task
  <2>1. /\ w.load.task # "none" /\ w.load.session \in Sessions /\ w.load.session = w.session.id
        /\ MutationPending(w) /\ w.ui \notin {"active", "error"}
        /\ w.load.task = "bootstrap" => w.ui = "bootstrapping"
        /\ (IF c.op = "getPrefs" THEN w.load.prefs ELSE w.load.list) = NoReply
    BY <1>2, <1>4, <1>5, <1>8, SMT DEF LoadFits, TakeTurns, HandlerFits, RehydrationFits, Rehydrates
  <2>2. \A d \in L : /\ Rehydrates(d) /\ RehydrationFits(d, w)
                     /\ (d.task = c.task => d.op # c.op)
                     /\ (d.task # c.task => d.task = "bootstrap")
    <3> SUFFICES ASSUME NEW d \in L
                 PROVE  /\ Rehydrates(d) /\ RehydrationFits(d, w)
                        /\ (d.task = c.task => d.op # c.op)
                        /\ (d.task # c.task => d.task = "bootstrap")
      OBVIOUS
    <3>1. Rehydrates(d) /\ RehydrationFits(d, w)
      BY <1>5, <2>1, Zenon DEF TakeTurns, HandlerFits, RehydrationFits
    <3>2. d.task = c.task => d.op # c.op
      BY <1>2, <1>4, <3>1, Zenon DEF TakeTurns, Beside, Outlives
    <3>3. d.task # c.task => d.task = "bootstrap"
      BY <3>1, <1>2, <1>8, <2>1, SMT DEF RehydrationFits, Rehydrates
    <3> QED BY <3>1, <3>2, <3>3
  <2>3. \A d, e \in L : d # e => Beside(d, e)
    BY <1>5, Zenon DEF TakeTurns
  <2>4. w.shown = NoShown /\ w.personal = NoResult
    BY <1>4, <2>1, Zenon DEF ShownBelongs
  <2>5. /\ failed \in Memories /\ failed.ui = w.ui /\ failed.load = NoLoad
        /\ failed.epoch = w.epoch /\ failed.shown = w.shown /\ failed.personal = w.personal
        /\ failed.session = w.session
    <3>1. failed \in Memories
      BY <1>3, Blanks, Setting, Zenon
    <3> QED BY <1>3, <3>1, SMT DEF Memories
  <2>6. failed.load.task = "none" /\ ShownBelongs(failed) /\ failed.ui # "active"
    BY <2>1, <2>4, <2>5, Blanks, Zenon DEF ShownBelongs
  <2>10. ASSUME reply.kind = "ok", t \notin switched PROVE reply.session = w.session.id
    <3>1. c.op \in Owned
      BY <1>2, SMT DEF Rehydrates, Owned
    <3> QED BY <1>2, <1>8, <2>10, <3>1, AnswerOfMine, Zenon DEF w
  <2>11. ASSUME NEW v, LeftBehind(v, w), v.shown = NoShown, NEW x, Settle(c, reply, x, {}),
                t \notin switched'
         PROVE  Tied(v, Kept(t, v, L) \cup Sent({}, jar'), jar')
    <3>1. jar' \in {jar, NoSession}
      BY <1>9, <2>11
    <3>2. v.load.task = "none" /\ ShownBelongs(v) /\ ShowsOne(v, t)
      BY <2>11, Zenon DEF LeftBehind, ShowsOne
    <3>3. \A d \in Kept(t, v, L) : Rehydrates(d)
      BY <2>2, Zenon DEF Kept
    <3>4. Sent({}, jar') = {}
      BY Zenon DEF Sent
    <3> HIDE DEF L
    <3> QED BY <1>3, <2>11, <3>1, <3>2, <3>3, <3>4, OneMore
  <2>12. ASSUME NEW v, LeftBehind(v, w), v.shown = NoShown, Settle(c, reply, v, {})
         PROVE  StaysStored
    <3>1. ~Undoubted(v) /\ v \in Memories /\ v.epoch >= tab[t].epoch
      BY <1>3, <2>12, EpochGrows, Zenon DEF Undoubted, LeftBehind, w
    <3> QED BY <1>2, <1>6, <2>12, <3>1, LoadingStores, Zenon DEF w
  <2>7. CASE reply.kind = "ok"
    <3> DEFINE load == IF c.op = "getPrefs" THEN [w.load EXCEPT !.prefs = reply]
                       ELSE [w.load EXCEPT !.list = reply]
    <3>1. /\ load \in [task : {"none", "bootstrap", "consent"},
                       session : Sessions \cup {NoSession}, prefs : Replies, list : Replies]
          /\ load.task = w.load.task /\ load.session = w.load.session
          /\ IF c.op = "getPrefs" THEN load.prefs = reply /\ load.list = w.load.list
             ELSE load.list = reply /\ load.prefs = w.load.prefs
      BY <1>1, <1>3, SMT DEF Memories
    <3>2. got = [w EXCEPT !.load = load]
      BY <1>3, SMT DEF Arrived, Memories
    <3> HIDE DEF load, got
    <3>3. /\ got.load = load /\ got.ui = w.ui /\ got.busy = w.busy /\ got.pending = w.pending
          /\ got.epoch = w.epoch /\ got.session = w.session /\ got.shown = w.shown
          /\ got.personal = w.personal /\ got.doubt = w.doubt
      BY <1>3, <3>2, SMT DEF Memories
    <3>4. got \in Memories
      BY <1>3, <3>1, <3>2, Setting, Zenon
    <3>5. reply # NoReply
      BY <2>7, Blanks
    <3>8. ASSUME NEW p, NEW f, WasTold(w, Heard(t), p, f)
          PROVE  /\ WasTold(got, L, p, f) /\ Agrees(reply, p, f)
                 /\ Complete(got) => Agrees(got.load.prefs, p, f) /\ Agrees(got.load.list, p, f)
      <4>1. Agrees(reply, p, f)
        BY <1>4, <1>8, <1>11, <2>7, <3>8, Zenon DEF WasTold
      <4>2. \A r \in {got.load.prefs, got.load.list} : r # NoReply => Agrees(r, p, f)
        BY <2>1, <3>1, <3>3, <3>8, <4>1, Zenon DEF WasTold
      <4>3. WasTold(got, L, p, f)
        BY <3>1, <3>3, <3>8, <4>2, Zenon DEF WasTold
      <4> QED BY <4>1, <4>2, <4>3, Zenon DEF Complete
    <3>6. CASE Complete(got)
      <4> DEFINE v == Idle(c, Rehydrated(got))
      <4>1. Settle(c, reply, v, {})
        BY <1>8, <2>7, <3>6, SMT DEF RehydrateAnswered, w, got
      <4>7. LET r == Rehydrated(got)
            IN  /\ LeftBehind(r, w) /\ r.session = got.session
                /\ r.shown.session = got.load.session
                /\ r.shown.prefsOf = got.load.prefs.session
                /\ r.shown.feedbackOf = got.load.list.session /\ Shows(v, r)
                /\ r.shown.prefs = got.load.prefs.prefs
                /\ r.shown.feedback = got.load.list.feedback
                /\ r.personal = NoResult /\ r.doubt = got.doubt
        <5>1. LET r == Rehydrated(got)
              IN  /\ LeftBehind(r, w) /\ r.session = got.session
                  /\ r.shown.session = got.load.session
                  /\ r.shown.prefsOf = got.load.prefs.session
                  /\ r.shown.feedbackOf = got.load.list.session
                  /\ r.shown.prefs = got.load.prefs.prefs
                  /\ r.shown.feedback = got.load.list.feedback
                  /\ r.personal = NoResult /\ r.doubt = got.doubt
          BY <2>1, <3>1, <3>3, <3>4, Rehydration, Zenon
        <5> QED BY <5>1, Ending, Zenon
      <4>2. LeftBehind(v, w)
        BY <4>7, Ending, Zenon
      <4>3. \A d \in L : d.task = "bootstrap"
        BY <1>2, <1>8, <2>2, <3>1, <3>3, <3>6, SMT DEF Complete, RehydrationFits, Rehydrates
      <4> HIDE DEF v
      <4>4. Joins(v, Kept(t, v, L), {}) /\ Fresh(t, v.epoch, {})
        BY <2>2, <2>3, <4>2, <4>3, NothingIssued, Zenon
      <4>5. v \in Memories /\ v.epoch >= w.epoch /\ ShownBelongs(v)
        BY <1>3, <4>2, EpochGrows, Zenon DEF LeftBehind
      <4>6. ASSUME t \notin switched'
            PROVE  Tied(v, Kept(t, v, L) \cup Sent({}, jar'), jar')
        <5>1. jar' \in {jar, NoSession} /\ t \notin switched /\ Tied(w, Heard(t), jar)
          BY <1>9, <4>1, <4>6
        <5>2. /\ reply.session = w.session.id /\ jar \in {w.session.id, NoSession}
              /\ w.load.prefs # NoReply => w.load.prefs.session = w.session.id
              /\ w.load.list # NoReply => w.load.list.session = w.session.id
          BY <2>1, <2>7, <2>10, <5>1, Zenon DEF Tied
        <5>3. got.load.prefs.session = w.session.id /\ got.load.list.session = w.session.id
          BY <5>2, <3>1, <3>3, <3>6, Zenon DEF Complete
        <5>4. v.shown # NoShown => OneSession(v) /\ v.session.id = w.session.id
          <6>1. v.shown # NoShown => /\ v.shown = Rehydrated(got).shown
                                     /\ v.session = Rehydrated(got).session
            BY <4>7, Zenon DEF Shows
          <6>2. LET r == Rehydrated(got)
                IN  /\ r.session = w.session /\ r.shown.session = w.session.id
                    /\ r.shown.prefsOf = w.session.id /\ r.shown.feedbackOf = w.session.id
            BY <2>1, <3>1, <3>3, <4>7, <5>3
          <6> QED BY <6>1, <6>2, Zenon DEF OneSession
        <5>5. v.load.task = "none"
          BY <4>2 DEF LeftBehind
        <5>6. \A d \in Kept(t, v, L) : Rehydrates(d)
          BY <2>2, Zenon DEF Kept
        <5>7. ASSUME NEW d, Rehydrates(d)
              PROVE  d.op \notin {"me", "create"} /\ d.task # "none"
          BY <5>7, SMT DEF Rehydrates
        <5>8. Tied(v, Kept(t, v, L), jar')
          <6> HIDE DEF L
          <6> QED BY <5>1, <5>2, <5>4, <5>5, <5>6, <5>7, Zenon DEF Tied
        <5> HIDE DEF L
        <5> QED BY <5>8, <1>10, Zenon
      <4>8. FlowInv'
        BY <1>1, <4>1, <4>4, <4>5, <4>6, Settling DEF w
      <4>9. ASSUME Undoubted(v)
            PROVE  /\ v.epoch = w.epoch /\ v.session = w.session /\ Undoubted(w)
                   /\ \A p, f : Hears(w, Heard(t), p, f) => Hears(v, L, p, f)
        <5>1. v.load.task = "none" /\ v.shown # NoShown /\ ~v.doubt
          BY <4>2, <4>9, Zenon DEF LeftBehind, Undoubted
        <5>2. /\ v.session = w.session /\ v.doubt = w.doubt /\ v.personal = NoResult
              /\ v.shown = Rehydrated(got).shown
          BY <3>3, <4>7, <5>1, Zenon DEF Shows
        <5>3. v.epoch = w.epoch
          <6>1. Rehydrated(got).epoch = w.epoch
            BY <3>3, <3>4, SMT DEF Rehydrated, Memories
          <6>2. Rehydrated(got) \in Memories
            BY <4>7, Zenon DEF LeftBehind
          <6> QED BY <6>1, <6>2, SMT DEF Idle, Memories, v
        <5>4. Undoubted(w)
          BY <2>1, <5>1, <5>2, Zenon DEF Undoubted
        <5>5. ASSUME NEW p, NEW f, Hears(w, Heard(t), p, f) PROVE Hears(v, L, p, f)
          <6>1. v.shown.prefs = p /\ v.shown.feedback = f
            BY <3>6, <3>8, <4>7, <5>2, <5>5, Zenon DEF Hears, Agrees
          <6>2. ShowsOrWillHear(v, L, p, f)
            BY <5>2, <6>1, Zenon DEF ShowsOrWillHear
          <6>3. \A d \in L : Rehydrates(d) /\ d.task # "none"
            BY <2>2, SMT DEF Rehydrates
          <6>4. WasTold(v, L, p, f)
            BY <5>1, <6>3, Zenon DEF WasTold
          <6> QED BY <6>2, <6>4 DEF Hears
        <5> QED BY <5>2, <5>3, <5>4, <5>5
      <4>10. StaysStored
        BY <1>2, <1>6, <4>1, <4>5, <4>9, LoadingStores, Zenon DEF w
      <4> QED BY <4>8, <4>10
    <3>7. CASE ~Complete(got)
      <4>1. Settle(c, reply, got, {})
        BY <1>8, <2>7, <3>7, SMT DEF RehydrateAnswered, w, got
      <4>2. ShownBelongs(got)
        BY <1>4, <3>3, Zenon DEF ShownBelongs
      <4>3. LoadFits(got)
        <5>1. MutationPending(got)
          BY <2>1, <3>3, Zenon DEF MutationPending
        <5> QED BY <1>5, <5>1, <3>1, <3>3, Zenon DEF LoadFits
      <4>4. \A d \in L : RehydrationFits(d, got)
        BY <1>2, <1>8, <2>2, <3>1, <3>3, SMT DEF RehydrationFits, Rehydrates
      <4>5. Joins(got, Kept(t, got, L), {}) /\ Fresh(t, got.epoch, {})
        BY <2>3, <4>3, <4>4, Zenon DEF Joins, TakeTurns, Fresh, Kept
      <4>6. got.epoch >= w.epoch
        BY <1>3, <3>3, SMT DEF Memories
      <4>7. ASSUME t \notin switched'
            PROVE  Tied(got, Kept(t, got, L) \cup Sent({}, jar'), jar')
        <5>1. jar' \in {jar, NoSession} /\ t \notin switched /\ Tied(w, Heard(t), jar)
          BY <1>9, <4>1, <4>7
        <5>2. Kept(t, got, L) \subseteq Heard(t)
          BY Zenon DEF Kept
        <5>3. Tied(w, Kept(t, got, L), jar')
          <6> HIDE DEF L
          <6> QED BY <5>1, <5>2, StaysTied
        <5>4. reply.session = w.session.id
          BY <2>7, <2>10, <5>1
        <5>5. Tied(got, Kept(t, got, L), jar')
          <6> HIDE DEF L
          <6> QED BY <5>3, <5>4, <2>1, <2>4, <3>1, <3>3, Zenon DEF Tied
        <5> HIDE DEF L
        <5> QED BY <5>5, <1>10, Zenon
      <4>8. FlowInv'
        BY <1>1, <3>4, <4>1, <4>2, <4>5, <4>6, <4>7, Settling DEF w
      <4>9. Undoubted(got) => Undoubted(w)
        BY <3>1, <3>3, Zenon DEF Undoubted
      <4>10. ASSUME NEW p, NEW f, Hears(w, Heard(t), p, f) PROVE Hears(got, L, p, f)
        BY <2>4, <3>3, <3>8, <4>10, Zenon DEF Hears
      <4>11. StaysStored
        BY <1>2, <1>6, <3>3, <3>4, <4>1, <4>6, <4>9, <4>10, LoadingStores, Zenon DEF w
      <4> QED BY <4>8, <4>11
    <3> QED BY <3>6, <3>7
  <2>8. CASE reply.kind # "ok" /\ c.task = "bootstrap"
    <3> DEFINE v == Idle(c, SessionFailure(failed, reply, "error"))
    <3>1. Settle(c, reply, v, {})
      BY <1>8, <2>8, SMT DEF RehydrateAnswered, w
    <3>2. /\ LeftBehind(SessionFailure(failed, reply, "error"), failed)
          /\ Shows(SessionFailure(failed, reply, "error"), failed)
      <4> HIDE DEF failed
      <4> QED BY <1>1, <1>6, <2>5, <2>6, Failing, Zenon DEF States
    <3>3. LeftBehind(v, w) /\ v.shown = NoShown
      <4>1. LeftBehind(v, failed) /\ Shows(v, SessionFailure(failed, reply, "error"))
        BY <3>2, Ending, Zenon
      <4> HIDE DEF v, failed
      <4> QED BY <2>4, <2>5, <3>2, <4>1, Zenon DEF LeftBehind, Shows
    <3> HIDE DEF v
    <3>4. Joins(v, Kept(t, v, L), {}) /\ Fresh(t, v.epoch, {})
      BY <2>2, <2>3, <2>8, <3>3, NothingIssued, Zenon
    <3>5. v \in Memories /\ v.epoch >= w.epoch /\ ShownBelongs(v)
      BY <1>3, <3>3, EpochGrows, Zenon DEF LeftBehind
    <3>6. t \notin switched' => Tied(v, Kept(t, v, L) \cup Sent({}, jar'), jar')
      BY <2>11, <3>1, <3>3
    <3>7. FlowInv'
      BY <1>1, <3>1, <3>4, <3>5, <3>6, Settling DEF w
    <3> QED BY <2>12, <3>1, <3>3, <3>7
  <2>9. CASE reply.kind # "ok" /\ c.task # "bootstrap"
    <3> DEFINE u == [failed EXCEPT !.ui = "error"]
               v == Idle(c, u)
    <3>1. Settle(c, reply, v, {})
      BY <1>8, <2>9, SMT DEF RehydrateAnswered, w
    <3>2. u \in Memories /\ u.ui = "error"
      <4> HIDE DEF failed
      <4>1. u \in Memories
        BY <2>5, Setting, Zenon DEF States
      <4> QED BY <4>1, <2>5, SMT DEF Memories
    <3>3. /\ u.epoch = w.epoch /\ u.load.task = "none" /\ u.shown = NoShown
          /\ u.personal = NoResult
      <4> HIDE DEF failed
      <4> QED BY <2>4, <2>5, <2>6, SMT DEF Memories
    <3>4. LeftBehind(v, w) /\ v.ui = "error" /\ v.shown = NoShown
      <4> HIDE DEF u
      <4>1. LeftBehind(u, w)
        BY <3>2, <3>3, Zenon DEF LeftBehind, ShownBelongs
      <4>2. LeftBehind(Idle(c, u), w) /\ Shows(Idle(c, u), u)
        BY <4>1, Ending
      <4>3. Idle(c, u).ui = "error"
        BY <3>2, SMT DEF Idle, Memories
      <4> QED BY <3>3, <4>2, <4>3 DEF Shows
    <3> HIDE DEF v
    <3>5. Joins(v, Kept(t, v, L), {}) /\ Fresh(t, v.epoch, {})
      BY <2>2, <2>3, <3>4, NothingIssued, Zenon
    <3>6. v \in Memories /\ v.epoch >= w.epoch /\ ShownBelongs(v)
      BY <1>3, <3>4, EpochGrows, Zenon DEF LeftBehind
    <3>7. t \notin switched' => Tied(v, Kept(t, v, L) \cup Sent({}, jar'), jar')
      BY <2>11, <3>1, <3>4
    <3>8. FlowInv'
      BY <1>1, <3>1, <3>5, <3>6, <3>7, Settling DEF w
    <3> QED BY <2>12, <3>1, <3>4, <3>8
  <2> QED BY <2>7, <2>8, <2>9
<1> QED BY <1>7, <1>8

\* The answer to POST /anonymous-sessions.
LEMMA ConsentKeeps ==
    ASSUME FlowInv, NEW c \in net, c.stage # "detached", NEW reply \in Outcomes(c),
           ConsentAnswered(c, reply)
    PROVE  FlowInv' /\ StaysStored
<1> DEFINE w == tab[c.tab]
           fallback == IF c.csrf = NoSession THEN "stateless" ELSE "consent_outdated"
<1>1. reply \in Replies /\ Honest(c, reply)
  BY OutcomeIsHonest
<1>2. c.task = "consent" /\ c.epoch = w.epoch /\ c.op = "create" /\ ~Rehydrates(c)
  BY SMT DEF ConsentAnswered, Awaited, Rehydrates
<1>3. w \in Memories /\ ShownBelongs(w) /\ HandlerFits(c, w)
  BY <1>2, HandlerIsAlone, Zenon
<1>4. w.ui # "active" /\ w.load.task = "none"
  BY <1>2, <1>3, SMT DEF HandlerFits, FeedbackTasks
<1>5. CASE reply.kind = "ok"
  <2>2. Settle(c, reply, Rehydrating(w, "consent", reply, Unsettled(c)),
               RehydrateCalls(c.tab, w, "consent"))
    BY <1>5, Zenon DEF ConsentAnswered
  <2>3. Unsettled(c) \in BOOLEAN
    BY Zenon DEF Unsettled
  <2> QED BY <1>2, <1>5, <2>2, <2>3, LoadBegins, Zenon
<1>6. CASE reply.kind # "ok"
  <2>1. Settle(c, reply, Idle(c, SessionFailure(w, reply, fallback)), {})
    BY <1>6, Zenon DEF ConsentAnswered
  <2>2. reply.kind # "stale" /\ fallback \in States \ {"active"}
    BY <1>1, <1>2, SMT DEF Honest, States
  <2> HIDE DEF fallback
  <2> DEFINE failed == SessionFailure(w, reply, fallback)
  <2>3. LeftBehind(failed, w) /\ Shows(failed, w) /\ (reply.kind \in Ended => failed.shown = NoShown)
    BY <1>1, <1>3, <1>4, <2>2, Failing, Zenon
  <2> HIDE DEF failed
  <2>4. /\ LeftBehind(Idle(c, failed), w) /\ ShowsOne(Idle(c, failed), c.tab)
        /\ AnswersAreKnown => Remains(c, reply, w, Idle(c, failed), {})
    BY <1>2, <1>6, <2>3, FailureEnds
  <2> QED BY <1>2, <1>6, <2>1, <2>4, HandlerEnds, Zenon DEF failed
<1> QED BY <1>5, <1>6

\* The answer to DELETE /me.
LEMMA ClearKeeps ==
    ASSUME FlowInv, NEW c \in net, c.stage # "detached", NEW reply \in Outcomes(c),
           ClearAnswered(c, reply)
    PROVE  FlowInv' /\ StaysStored
<1> DEFINE w == tab[c.tab]
<1>1. reply \in Replies /\ Honest(c, reply)
  BY OutcomeIsHonest
<1>2. c.task = "clear" /\ c.epoch = w.epoch /\ ~Rehydrates(c)
  BY SMT DEF ClearAnswered, Awaited, Rehydrates
<1>3. w \in Memories /\ ShownBelongs(w) /\ HandlerFits(c, w)
  BY <1>2, HandlerIsAlone, Zenon
<1>4. c.op = "delete" /\ w.load.task = "none" /\ w.ui \in States
  BY <1>2, <1>3, SMT DEF HandlerFits, FeedbackTasks, Memories
<1>5. CASE reply.kind = "ok"
  <2> DEFINE u == ClearRouteMemory(w)
             v == [u EXCEPT !.ui = "stateless"]
  <2>1. Settle(c, reply, v, {})
    BY <1>5, Zenon DEF ClearAnswered
  <2>2. /\ u \in Memories /\ u.epoch = w.epoch + 1
        /\ u.shown = NoShown /\ u.personal = NoResult /\ u.load = NoLoad
    BY <1>3, Forgetting
  <2> HIDE DEF u
  <2>3. v \in Memories
    BY <2>2, Setting, Zenon DEF States
  <2>4. /\ v.epoch = w.epoch + 1 /\ v.ui = "stateless"
        /\ v.shown = NoShown /\ v.personal = NoResult /\ v.load = NoLoad
    BY <2>2, SMT DEF Memories
  <2> HIDE DEF v
  <2>5. LeftBehind(v, w) /\ ShowsOne(v, c.tab)
    BY <2>3, <2>4, Blanks, Zenon DEF LeftBehind, ShownBelongs, ShowsOne
  <2>6. c.op # "create" /\ Remains(c, reply, w, v, {})
    BY <1>4, <2>4, NothingRemains
  <2> QED BY <1>2, <2>1, <2>5, <2>6, HandlerEnds, Zenon
<1>6. CASE reply.kind # "ok"
  <2>1. Settle(c, reply, Idle(c, SessionFailure(w, reply, w.ui)), {})
    BY <1>6, Zenon DEF ClearAnswered
  <2>2. reply.kind # "stale"
    BY <1>1, <1>4, SMT DEF Honest
  <2> DEFINE failed == SessionFailure(w, reply, w.ui)
  <2>3. LeftBehind(failed, w) /\ Shows(failed, w) /\ (reply.kind \in Ended => failed.shown = NoShown)
    BY <1>1, <1>3, <1>4, <2>2, Failing, Zenon
  <2> HIDE DEF failed
  <2>4. /\ LeftBehind(Idle(c, failed), w) /\ ShowsOne(Idle(c, failed), c.tab)
        /\ AnswersAreKnown => Remains(c, reply, w, Idle(c, failed), {})
    BY <1>2, <1>6, <2>3, FailureEnds
  <2> QED BY <1>2, <1>6, <2>1, <2>4, HandlerEnds, Zenon DEF failed
<1> QED BY <1>5, <1>6

\* The workspace stays when what it shows is replaced by an answer.
LEMMA Replacing ==
    ASSUME NEW w \in Memories, ShownBelongs(w), w.load.task = "none", w.ui = "active",
           NEW profile \in ShownProfiles, profile.session = w.shown.session
    PROVE  /\ LET v == [w EXCEPT !.personal = NoResult, !.shown = profile]
              IN  /\ LeftBehind(v, w) /\ v.shown = profile /\ v.session = w.session
                  /\ v.personal = NoResult /\ v.doubt = w.doubt
           /\ \A games \in SUBSET Games :
                 LET v == [w EXCEPT !.shown = profile, !.assured = games]
                 IN  /\ LeftBehind(v, w) /\ v.epoch = w.epoch /\ v.ui = "active"
                     /\ v.session = w.session /\ v.pending = w.pending /\ v.busy = w.busy
                     /\ v.shown = profile /\ v.personal = w.personal /\ v.doubt = w.doubt
<1> DEFINE u == [w EXCEPT !.shown = profile]
           v1 == [w EXCEPT !.personal = NoResult, !.shown = profile]
<1>1. u \in Memories
  BY Setting, Zenon
<1> DEFINE u1 == [w EXCEPT !.personal = NoResult]
<1>2. v1 = [u1 EXCEPT !.shown = profile]
  BY SMT DEF Memories
<1>3. v1 \in Memories
  <2>1. u1 \in Memories
    BY Setting, Blanks, Zenon
  <2> HIDE DEF u1, v1
  <2> QED BY <2>1, <1>2, Setting, Zenon
<1>4. /\ v1.ui = "active" /\ v1.shown = profile /\ v1.session = w.session
      /\ v1.personal = NoResult /\ v1.load = w.load /\ v1.epoch = w.epoch
      /\ v1.doubt = w.doubt
  BY Zenon DEF Memories
<1>5. LeftBehind(v1, w)
  <2> HIDE DEF v1
  <2> QED BY <1>3, <1>4, Zenon DEF LeftBehind, ShownBelongs
<1>6. ASSUME NEW games \in SUBSET Games
      PROVE  LET v == [w EXCEPT !.shown = profile, !.assured = games]
             IN  /\ LeftBehind(v, w) /\ v.epoch = w.epoch /\ v.ui = "active"
                 /\ v.session = w.session /\ v.pending = w.pending /\ v.busy = w.busy
                 /\ v.shown = profile /\ v.personal = w.personal /\ v.doubt = w.doubt
  <2> DEFINE v == [w EXCEPT !.shown = profile, !.assured = games]
  <2>1. v = [u EXCEPT !.assured = games]
    BY SMT DEF Memories
  <2>2. v \in Memories
    <3> HIDE DEF u, v
    <3> QED BY <1>1, <2>1, Setting, Zenon
  <2>3. /\ v.epoch = w.epoch /\ v.ui = "active" /\ v.shown = profile /\ v.load = w.load
        /\ v.session = w.session /\ v.pending = w.pending /\ v.busy = w.busy
        /\ v.personal = w.personal /\ v.doubt = w.doubt
    BY SMT DEF Memories
  <2>4. LeftBehind(v, w)
    <3> HIDE DEF v
    <3> QED BY <2>2, <2>3, Zenon DEF LeftBehind, ShownBelongs
  <2> QED BY <2>3, <2>4
<1> QED BY <1>4, <1>5, <1>6

\* The answer to a change of the preferences.
LEMMA PreferencesKeep ==
    ASSUME FlowInv, NEW c \in net, c.stage # "detached", NEW reply \in Outcomes(c),
           PreferencesAnswered(c, reply)
    PROVE  FlowInv' /\ StaysStored
<1> DEFINE w == tab[c.tab]
           profile == [w.shown EXCEPT !.prefs = reply.prefs, !.prefsOf = reply.session]
           saved == [w EXCEPT !.personal = NoResult, !.shown = profile]
           failed == SessionFailure(w, reply, "active")
<1>1. reply \in Replies /\ Honest(c, reply)
  BY OutcomeIsHonest
<1>2. c.task = "preferences" /\ c.epoch = w.epoch /\ ~Rehydrates(c)
  BY SMT DEF PreferencesAnswered, Awaited, Rehydrates
<1>3. w \in Memories /\ ShownBelongs(w) /\ HandlerFits(c, w)
  BY <1>2, HandlerIsAlone, Zenon
<1>4. w.ui = "active" /\ w.load.task = "none"
  BY <1>2, <1>3, SMT DEF HandlerFits, FeedbackTasks
<1>5. Settle(c, reply, Idle(c, IF reply.kind = "ok" THEN saved ELSE failed), {})
  BY Zenon DEF PreferencesAnswered
<1>6. /\ profile \in ShownProfiles /\ profile.session = w.shown.session
      /\ profile.prefsOf = reply.session /\ profile.feedbackOf = w.shown.feedbackOf
      /\ profile.prefs = reply.prefs /\ profile.feedback = w.shown.feedback
  <2>1. w.shown \in ShownProfiles
    BY <1>3, SMT DEF Memories
  <2>2. reply.prefs \in Prefs \cup {NoPrefs} /\ reply.session \in Sessions \cup {NoSession}
    BY <1>1, SMT DEF Replies
  <2> DEFINE old == w.shown
             q == [old EXCEPT !.prefs = reply.prefs]
  <2>3. old \in ShownProfiles
    BY <2>1
  <2>4. profile = [q EXCEPT !.prefsOf = reply.session]
    <3> HIDE DEF w
    <3> QED BY <2>1, SMT DEF ShownProfiles
  <2> HIDE DEF profile
  <2>5. /\ q \in ShownProfiles /\ q.session = old.session /\ q.feedbackOf = old.feedbackOf
        /\ q.prefs = reply.prefs /\ q.feedback = old.feedback
    <3> HIDE DEF old
    <3> QED BY <2>2, <2>3, SMT DEF ShownProfiles
  <2> HIDE DEF q
  <2> QED BY <2>2, <2>4, <2>5, SMT DEF ShownProfiles
<1> HIDE DEF profile
<1>7. /\ LeftBehind(saved, w) /\ saved.shown = profile /\ saved.session = w.session
      /\ saved.personal = NoResult /\ saved.doubt = w.doubt
  BY <1>3, <1>4, <1>6, Replacing
<1>8. /\ c.op \in Owned /\ c.op # "create" /\ c.op \notin FeedbackChanges /\ ~Refreshes(c)
      /\ w.shown # NoShown /\ w.shown.session = w.session.id
  <2>1. c.op \in {"putPrefs", "clearPrefs"}
    BY <1>2, <1>3, SMT DEF HandlerFits, FeedbackTasks
  <2>2. w.shown # NoShown /\ w.shown.session = w.session.id
    BY <1>3, <1>4, NamesAssumption, SMT DEF ShownBelongs, NoShown
  <2> QED BY <2>1, <2>2 DEF Owned, Protected, FeedbackChanges, Refreshes
<1> HIDE DEF saved, failed
<1>9. CASE reply.kind = "ok"
  <2>1. ShowsOne(saved, c.tab)
    <3> SUFFICES ASSUME c.tab \notin switched
                 PROVE  w.shown # NoShown /\ saved.session.id = w.session.id /\ OneSession(saved)
      BY Zenon DEF ShowsOne
    <3>1. reply.session = w.session.id
      BY <1>2, <1>8, <1>9, AnswerOfMine, Zenon
    <3>2. OneSession(w)
      BY <1>8, TabOfCall, Following, Zenon DEF FlowInv, Tied
    <3> QED BY <1>6, <1>7, <1>8, <3>1, <3>2, Zenon DEF OneSession
  <2>2. Carries(c, w, saved, {})
    <3>1. Accepted(c) /\ reply = c.reply
      BY <1>9, Taken
    <3>2. ASSUME NEW p, NEW f, ShowsOrWillHear(w, {c}, p, f), Agrees(c.reply, p, f)
          PROVE  ShowsOrWillHear(saved, {}, p, f)
      <4>1. w.shown.feedback = f
        BY <1>8, <3>2, Zenon DEF ShowsOrWillHear
      <4> QED BY <1>6, <1>7, <3>1, <3>2, <4>1, Zenon DEF ShowsOrWillHear, Agrees
    <3> QED BY <1>7, <1>8, <3>1, <3>2, Zenon DEF Carries
  <2>3. /\ LeftBehind(Idle(c, saved), w) /\ ShowsOne(Idle(c, saved), c.tab)
        /\ Remains(c, reply, w, Idle(c, saved), {})
    <3>1. LeftBehind(Idle(c, saved), w) /\ Shows(Idle(c, saved), saved)
      BY <1>7, Ending
    <3>2. Carries(c, w, Idle(c, saved), {})
      BY <2>2, <3>1, CarriesOn
    <3> QED BY <2>1, <3>1, <3>2, ShowingStill DEF Remains
  <2>4. Settle(c, reply, Idle(c, saved), {})
    BY <1>5, <1>9
  <2> QED BY <1>2, <1>8, <2>3, <2>4, HandlerEnds, Zenon
<1>10. CASE reply.kind # "ok"
  <2>1. LeftBehind(failed, w) /\ Shows(failed, w) /\ (reply.kind \in Ended => failed.shown = NoShown)
    BY <1>1, <1>3, <1>4, Failing, Zenon DEF States, failed
  <2>2. /\ LeftBehind(Idle(c, failed), w) /\ ShowsOne(Idle(c, failed), c.tab)
        /\ AnswersAreKnown => Remains(c, reply, w, Idle(c, failed), {})
    BY <1>2, <1>10, <2>1, FailureEnds
  <2>3. Settle(c, reply, Idle(c, failed), {})
    BY <1>5, <1>10
  <2> QED BY <1>2, <1>8, <2>2, <2>3, HandlerEnds, Zenon
<1> QED BY <1>9, <1>10

\* The answer to a generation: accepted recommendations are of the session shown.
LEMMA GenerationKeeps ==
    ASSUME FlowInv, NEW c \in net, c.stage # "detached", NEW reply \in Outcomes(c),
           GenerationAnswered(c, reply)
    PROVE  FlowInv' /\ StaysStored
<1> DEFINE w == tab[c.tab]
           made == [session |-> reply.session, prefs |-> reply.prefs,
                    feedback |-> reply.feedback]
           failed == SessionFailure(w, reply, "active")
           done == IF reply.kind = "ok" THEN Generated(w, reply) ELSE failed
           v == IF c.task = "generate" THEN Idle(c, done) ELSE Unpended(c, done)
<1>1. reply \in Replies /\ Honest(c, reply)
  BY OutcomeIsHonest
<1>2. c.op = "recommend" /\ c.epoch = w.epoch /\ ~Rehydrates(c)
  BY SMT DEF GenerationAnswered, Awaited, Rehydrates
<1>3. w \in Memories /\ ShownBelongs(w) /\ HandlerFits(c, w)
  BY <1>2, HandlerIsAlone, Zenon
<1>4. w.ui = "active" /\ w.load.task = "none" /\ c.csrf = w.session.id
  BY <1>2, <1>3, SMT DEF HandlerFits, FeedbackTasks
<1>5. Settle(c, reply, v, {})
  BY Zenon DEF GenerationAnswered
<1>6. ASSUME reply.kind = "ok"
      PROVE  /\ LeftBehind(Generated(w, reply), w) /\ ShowsOne(Generated(w, reply), c.tab)
             /\ Carries(c, w, Generated(w, reply), {})
  <2> DEFINE x == [w EXCEPT !.personal = made]
  <2>1. Generated(w, reply) = x
    BY Zenon DEF Generated
  <2>2. made \in [session : Sessions \cup {NoSession}, prefs : Prefs \cup {NoPrefs},
                  feedback : Feedback]
    BY <1>1, SMT DEF Replies
  <2>3. made.session = w.session.id /\ made.prefs = reply.prefs /\ made.feedback = reply.feedback
    BY <1>1, <1>2, <1>4, <1>6, Zenon DEF Honest
  <2> HIDE DEF made
  <2>4. x \in Memories
    BY <1>3, <2>2, Setting, Zenon
  <2>5. /\ x.ui = w.ui /\ x.shown = w.shown /\ x.session = w.session
        /\ x.personal = made /\ x.load = w.load /\ x.epoch = w.epoch /\ x.doubt = w.doubt
    BY <1>3, Zenon DEF Memories
  <2> HIDE DEF x
  <2>6. ShownBelongs(x)
    BY <1>3, <1>4, <2>3, <2>5, Zenon DEF ShownBelongs
  <2>7. ShowsOne(w, c.tab)
    BY TabOfCall, ShowingOn, Zenon DEF Shows
  <2>8. LeftBehind(x, w) /\ ShowsOne(x, c.tab)
    BY <1>4, <2>4, <2>5, <2>6, <2>7, Zenon DEF LeftBehind, ShowsOne, OneSession
  <2>9. Accepted(c) /\ reply = c.reply /\ c.op \in Owned
    BY <1>2, <1>6, Taken DEF Owned, Protected
  <2>10. ASSUME NEW p, NEW f, ShowsOrWillHear(w, {c}, p, f), Agrees(c.reply, p, f)
        PROVE  ShowsOrWillHear(x, {}, p, f)
    <3>1. w.shown.prefs = p /\ w.shown.feedback = f
      BY <1>2, <2>10, SMT DEF ShowsOrWillHear, PrefsChanges, FeedbackChanges, Refreshes
    <3> QED BY <2>3, <2>5, <2>9, <2>10, <3>1, Zenon DEF ShowsOrWillHear, Agrees
  <2>11. Carries(c, w, x, {})
    BY <2>5, <2>9, <2>10, Zenon DEF Carries
  <2> QED BY <2>1, <2>8, <2>11
<1> HIDE DEF failed
<1>7. /\ LeftBehind(done, w) /\ ShowsOne(done, c.tab)
      /\ LeftBehind(v, w) /\ ShowsOne(v, c.tab)
      /\ AnswersAreKnown => Remains(c, reply, w, v, {})
  <2>1. CASE reply.kind = "ok"
    <3> HIDE DEF done
    <3>1. LeftBehind(done, w) /\ ShowsOne(done, c.tab) /\ Carries(c, w, done, {})
      BY <1>6, <2>1, Zenon DEF done
    <3>2. LeftBehind(v, w) /\ Shows(v, done)
      BY <3>1, Ending, Zenon
    <3> HIDE DEF v
    <3>3. Carries(c, w, v, {}) /\ ShowsOne(v, c.tab)
      BY <3>1, <3>2, CarriesOn, ShowingStill
    <3> QED BY <3>1, <3>2, <3>3 DEF Remains
  <2>2. CASE reply.kind # "ok"
    <3>1. LeftBehind(failed, w) /\ Shows(failed, w) /\ (reply.kind \in Ended => failed.shown = NoShown)
      BY <1>1, <1>3, <1>4, Failing, Zenon DEF States, failed
    <3> HIDE DEF w
    <3>2. /\ LeftBehind(failed, w) /\ ShowsOne(failed, c.tab)
          /\ LeftBehind(Idle(c, failed), w) /\ ShowsOne(Idle(c, failed), c.tab)
          /\ LeftBehind(Unpended(c, failed), w) /\ ShowsOne(Unpended(c, failed), c.tab)
          /\ AnswersAreKnown =>
                /\ Remains(c, reply, w, failed, {})
                /\ Remains(c, reply, w, Idle(c, failed), {})
                /\ Remains(c, reply, w, Unpended(c, failed), {})
      BY <1>2, <2>2, <3>1, FailureEnds DEF w
    <3> QED BY <2>2, <3>2, Zenon
  <2> QED BY <2>1, <2>2
<1> HIDE DEF v
<1>8. c.op # "create"
  BY <1>2
<1> QED BY <1>2, <1>5, <1>7, <1>8, HandlerEnds, Zenon

\* A change of feedback that fails leaves the tab in order.
LEMMA FeedbackFailing ==
    ASSUME NEW w \in Memories, NEW reply \in Replies, ShownBelongs(w), w.load.task = "none",
           w.ui = "active", NEW c, c.game \in Games
    PROVE  LET v == FeedbackFailed(c, w, reply)
           IN  /\ LeftBehind(v, w) /\ Shows(v, w)
               /\ reply.kind \in Ended => v.shown = NoShown
<1> DEFINE after == SessionFailure(w, reply, "active")
           games == IF c.task = "saveFeedback" THEN after.assured \cup {c.game}
                    ELSE after.assured \ {c.game}
           said == [after EXCEPT !.assured = games]
<1>1. LeftBehind(after, w) /\ Shows(after, w) /\ (reply.kind \in Ended => after.shown = NoShown)
  BY Failing, Zenon DEF States
<1>2. FeedbackFailed(c, w, reply) = Unpended(c, said)
  BY Zenon DEF FeedbackFailed
<1> HIDE DEF after
<1>3. after \in Memories
  BY <1>1 DEF LeftBehind
<1>4. games \in SUBSET Games
  <2>1. after.assured \in SUBSET Games
    BY <1>3, SMT DEF Memories
  <2> QED BY <2>1, Zenon
<1> HIDE DEF games
<1>5. said \in Memories
  BY <1>3, <1>4, Setting, Zenon
<1>6. /\ said.ui = after.ui /\ said.shown = after.shown /\ said.session = after.session
      /\ said.personal = after.personal /\ said.load = after.load /\ said.epoch = after.epoch
      /\ said.doubt = after.doubt
  BY <1>3, Zenon DEF Memories
<1> HIDE DEF said
<1>7. LeftBehind(said, w) /\ Shows(said, w)
  BY <1>1, <1>5, <1>6, Zenon DEF LeftBehind, ShownBelongs, Shows
<1>8. /\ LeftBehind(Unpended(c, said), w) /\ Shows(Unpended(c, said), w)
      /\ Shows(Unpended(c, said), said)
  BY <1>7, Ending, ShowingTwice
<1>9. reply.kind \in Ended => Unpended(c, said).shown = NoShown
  BY <1>1, <1>6, <1>8, Zenon DEF Shows
<1> QED BY <1>1, <1>2, <1>8, <1>9, Zenon

\* The answer to a change of the feedback.
LEMMA FeedbackKeeps ==
    ASSUME FlowInv, NEW c \in net, c.stage # "detached", NEW reply \in Outcomes(c),
           FeedbackAnswered(c, reply)
    PROVE  FlowInv' /\ StaysStored
<1> DEFINE w == tab[c.tab]
           asked == Call(c.tab, w, c.task, "listFeedback")
           refresh == [asked EXCEPT !.game = c.game]
           v == [w EXCEPT !.personal = NoResult]
<1>1. reply \in Replies /\ Honest(c, reply)
  BY OutcomeIsHonest
<1>2. c.op \in {"putFeedback", "clearFeedback"} /\ c.epoch = w.epoch /\ ~Rehydrates(c)
  BY SMT DEF FeedbackAnswered, Awaited, Rehydrates
<1>3. w \in Memories /\ ShownBelongs(w) /\ HandlerFits(c, w)
  BY <1>2, HandlerIsAlone, Zenon
<1>4. /\ w.ui = "active" /\ w.load.task = "none" /\ c.task \in FeedbackTasks
      /\ c.game \in Games /\ MutationPending(w)
  BY <1>2, <1>3, SMT DEF HandlerFits, FeedbackTasks
<1>5. CASE reply.kind = "ok"
  <2>1. Settle(c, reply, v, {refresh}) /\ c.op # "create"
    BY <1>2, <1>5, Zenon DEF FeedbackAnswered
  <2>2. v \in Memories
    BY <1>3, Setting, Blanks, Zenon
  <2>3. /\ v.ui = w.ui /\ v.shown = w.shown /\ v.session = w.session /\ v.personal = NoResult
        /\ v.load = w.load /\ v.epoch = w.epoch /\ v.busy = w.busy /\ v.pending = w.pending
        /\ v.doubt = w.doubt
    BY <1>3, Zenon DEF Memories
  <2>4. LeftBehind(v, w) /\ v.epoch = w.epoch /\ ShowsOne(v, c.tab)
    <3> HIDE DEF v
    <3>1. LeftBehind(v, w) /\ Shows(v, w)
      BY <1>3, <1>4, <2>2, <2>3, Zenon DEF LeftBehind, ShownBelongs, Shows
    <3> QED BY <2>3, <3>1, TabOfCall, ShowingOn, Zenon
  <2>5. TypeOK /\ c.tab \in Tabs
    <3>1. TypeOK /\ c \in CallRecords
      BY Zenon DEF FlowInv, TabsInv, TypeOK
    <3> QED BY <3>1, SMT DEF CallRecords
  <2>6. Issued(asked, c.tab, w, c.task, "listFeedback")
    <3>1. c.task \in Tasks /\ "listFeedback" \in Ops
      BY <1>4, SMT DEF Tasks, FeedbackTasks, Ops, Owned
    <3> HIDE DEF w
    <3> QED BY <1>3, <2>5, <3>1, Calling
  <2> HIDE DEF asked, v
  <2>7. Like(refresh, asked, c.tab, w.epoch) /\ refresh.game = c.game
    <3>1. NoPrefs \in Prefs \cup {NoPrefs} /\ NoReaction \in Reactions \cup {NoReaction}
      OBVIOUS
    <3>2. Fresh(c.tab, w.epoch, {asked})
      BY <2>6, Zenon DEF Issued
    <3>3. c.game \in Games \cup {NoGame}
      BY <1>4
    <3> HIDE DEF w
    <3> QED BY <3>1, <3>2, <3>3, Describing
  <2> HIDE DEF refresh
  <2>8. Fresh(c.tab, v.epoch, {refresh}) /\ refresh.task = c.task /\ refresh.op = "listFeedback"
    BY <2>3, <2>6, <2>7, Zenon DEF Like, Issued
  <2>9. MutationPending(v)
    BY <1>4, <2>3, Zenon DEF MutationPending
  <2>10. HandlerFits(refresh, v) /\ refresh.task \notin {"bootstrap", "clear"}
    BY <1>4, <2>3, <2>7, <2>8, <2>9, SMT DEF HandlerFits, Rehydrates, FeedbackTasks
  <2>11. Remains(c, reply, w, v, {refresh})
    <3>1. Refreshes(refresh)
      BY <2>8, <2>10 DEF Refreshes, HandlerFits
    <3>2. ASSUME NEW p, NEW f, ShowsOrWillHear(w, {c}, p, f)
          PROVE  ShowsOrWillHear(v, {refresh}, p, f)
      <4>1. w.shown.prefs = p
        BY <1>2, <3>2, SMT DEF ShowsOrWillHear, PrefsChanges
      <4> QED BY <2>3, <3>1, <4>1, Zenon DEF ShowsOrWillHear
    <3> QED BY <2>3, <3>2, Zenon DEF Remains, Carries
  <2>12. refresh.op \notin PrefsChanges \cup FeedbackChanges
    BY <2>8 DEF PrefsChanges, FeedbackChanges
  <2> QED BY <1>2, <2>1, <2>4, <2>8, <2>10, <2>11, <2>12, HandlerGoesOn, Zenon
<1>6. CASE reply.kind # "ok"
  <2>1. Settle(c, reply, FeedbackFailed(c, w, reply), {})
    BY <1>6, Zenon DEF FeedbackAnswered
  <2> DEFINE failed == FeedbackFailed(c, w, reply)
  <2>2. LeftBehind(failed, w) /\ Shows(failed, w) /\ (reply.kind \in Ended => failed.shown = NoShown)
    BY <1>1, <1>3, <1>4, FeedbackFailing, Zenon
  <2> HIDE DEF failed
  <2>3. /\ LeftBehind(failed, w) /\ ShowsOne(failed, c.tab)
        /\ AnswersAreKnown => Remains(c, reply, w, failed, {})
    BY <1>2, <1>6, <2>2, FailureEnds
  <2> QED BY <1>2, <1>6, <2>1, <2>3, HandlerEnds, Zenon DEF failed
<1> QED BY <1>5, <1>6

\* The answer to the list that follows a change of the feedback.
LEMMA RefreshKeeps ==
    ASSUME FlowInv, NEW c \in net, c.stage # "detached", NEW reply \in Outcomes(c),
           RefreshAnswered(c, reply)
    PROVE  FlowInv' /\ StaysStored
<1> DEFINE w == tab[c.tab]
           profile == [w.shown EXCEPT !.feedback = reply.feedback, !.feedbackOf = reply.session]
           games == w.assured \ {c.game}
           fresh == [w EXCEPT !.shown = profile, !.assured = games]
           asked == Signed(Call(c.tab, w, c.task, "recommend"), w)
<1>1. reply \in Replies /\ Honest(c, reply)
  BY OutcomeIsHonest
<1>2. /\ c.op = "listFeedback" /\ c.task \in FeedbackTasks /\ c.epoch = w.epoch
      /\ ~Rehydrates(c)
  BY SMT DEF RefreshAnswered, Awaited, Rehydrates, FeedbackTasks
<1>3. w \in Memories /\ ShownBelongs(w) /\ HandlerFits(c, w)
  BY <1>2, HandlerIsAlone, Zenon
<1>4. w.ui = "active" /\ w.load.task = "none" /\ c.game \in Games /\ MutationPending(w)
  BY <1>2, <1>3, SMT DEF HandlerFits, FeedbackTasks
<1>5. CASE reply.kind = "ok"
  <2>1. Settle(c, reply, fresh, {asked}) /\ c.op # "create" /\ c.op \in Owned
    BY <1>2, <1>5, Zenon DEF RefreshAnswered, Owned
  <2>2. /\ profile \in ShownProfiles /\ profile.session = w.shown.session
        /\ profile.feedbackOf = reply.session /\ profile.prefsOf = w.shown.prefsOf
        /\ profile.feedback = reply.feedback /\ profile.prefs = w.shown.prefs
    <3>1. w.shown \in ShownProfiles
      BY <1>3, SMT DEF Memories
    <3>2. reply.feedback \in Feedback /\ reply.session \in Sessions \cup {NoSession}
      BY <1>1, SMT DEF Replies
    <3> DEFINE old == w.shown
               q == [old EXCEPT !.feedback = reply.feedback]
    <3>3. old \in ShownProfiles
      BY <3>1
    <3>4. profile = [q EXCEPT !.feedbackOf = reply.session]
      <4> HIDE DEF w
      <4> QED BY <3>1, SMT DEF ShownProfiles
    <3> HIDE DEF profile
    <3>5. /\ q \in ShownProfiles /\ q.session = old.session /\ q.prefsOf = old.prefsOf
          /\ q.feedback = reply.feedback /\ q.prefs = old.prefs
      <4> HIDE DEF old
      <4> QED BY <3>2, <3>3, SMT DEF ShownProfiles
    <3> HIDE DEF q
    <3> QED BY <3>2, <3>4, <3>5, SMT DEF ShownProfiles
  <2>3. games \in SUBSET Games
    <3>1. w.assured \in SUBSET Games
      BY <1>3, SMT DEF Memories
    <3> QED BY <3>1, Zenon
  <2> HIDE DEF profile, games
  <2>4. /\ LeftBehind(fresh, w) /\ fresh.epoch = w.epoch /\ fresh.ui = "active"
        /\ fresh.session = w.session /\ fresh.pending = w.pending /\ fresh.busy = w.busy
        /\ fresh.shown = profile /\ fresh.personal = w.personal /\ fresh.doubt = w.doubt
    <3> HIDE DEF w
    <3>1. \A s \in SUBSET Games :
            LET v == [w EXCEPT !.shown = profile, !.assured = s]
            IN  /\ LeftBehind(v, w) /\ v.epoch = w.epoch /\ v.ui = "active"
                /\ v.session = w.session /\ v.pending = w.pending /\ v.busy = w.busy
                /\ v.shown = profile /\ v.personal = w.personal /\ v.doubt = w.doubt
      BY <1>3, <1>4, <2>2, Replacing
    <3> QED BY <2>3, <3>1
  <2>5. TypeOK /\ c.tab \in Tabs
    <3>1. TypeOK /\ c \in CallRecords
      BY Zenon DEF FlowInv, TabsInv, TypeOK
    <3> QED BY <3>1, SMT DEF CallRecords
  <2>6. Issued(asked, c.tab, w, c.task, "recommend") /\ asked.csrf = w.session.id
    <3>1. c.task \in Tasks /\ "recommend" \in Ops
      BY <1>2, SMT DEF Tasks, FeedbackTasks, Ops, Protected
    <3> HIDE DEF w
    <3> QED BY <1>3, <2>5, <3>1, Calling
  <2> HIDE DEF asked, fresh
  <2>7. /\ Fresh(c.tab, fresh.epoch, {asked}) /\ asked.task = c.task /\ asked.op = "recommend"
        /\ fresh.load.task = "none"
    BY <2>4, <2>6, Zenon DEF Issued, LeftBehind
  <2>8. MutationPending(fresh)
    BY <1>4, <2>4, Zenon DEF MutationPending
  <2>9. HandlerFits(asked, fresh) /\ asked.task \notin {"bootstrap", "clear"}
    BY <1>2, <2>4, <2>6, <2>7, <2>8, SMT DEF HandlerFits, Rehydrates, FeedbackTasks
  <2>10. ShowsOne(fresh, c.tab)
    <3> SUFFICES ASSUME c.tab \notin switched
                 PROVE  w.shown # NoShown /\ fresh.session.id = w.session.id /\ OneSession(fresh)
      BY Zenon DEF ShowsOne
    <3>1. w.shown # NoShown /\ w.shown.session = w.session.id
      BY <1>3, <1>4, NamesAssumption, SMT DEF ShownBelongs, NoShown
    <3>2. reply.session = w.session.id
      BY <1>2, <1>5, <2>1, AnswerOfMine, Zenon
    <3>3. OneSession(w)
      BY <3>1, TabOfCall, Following, Zenon DEF FlowInv, Tied
    <3> QED BY <2>2, <2>4, <3>1, <3>2, <3>3, Zenon DEF OneSession
  <2>11. Remains(c, reply, w, fresh, {asked})
    <3>1. Accepted(c) /\ reply = c.reply
      BY <1>5, Taken
    <3>2. Refreshes(c) /\ ~Refreshes(asked) /\ c.op \notin PrefsChanges
      BY <1>2, <2>7 DEF Refreshes, PrefsChanges
    <3>3. ASSUME NEW p, NEW f, ShowsOrWillHear(w, {c}, p, f), Agrees(c.reply, p, f)
          PROVE  ShowsOrWillHear(fresh, {asked}, p, f)
      <4>1. w.shown.prefs = p /\ w.personal = NoResult
        BY <3>2, <3>3, Zenon DEF ShowsOrWillHear
      <4> QED BY <2>2, <2>4, <3>1, <3>2, <3>3, <4>1, Zenon DEF ShowsOrWillHear, Agrees
    <3>4. w.shown # NoShown
      BY <1>3, <1>4, NamesAssumption, SMT DEF ShownBelongs, NoShown
    <3> QED BY <2>1, <2>4, <3>1, <3>3, <3>4, Zenon DEF Remains, Carries
  <2>12. asked.op \notin PrefsChanges \cup FeedbackChanges
    BY <2>7 DEF PrefsChanges, FeedbackChanges
  <2> QED BY <1>2, <2>1, <2>4, <2>7, <2>9, <2>10, <2>11, <2>12, HandlerGoesOn, Zenon
<1>6. CASE reply.kind # "ok"
  <2>1. Settle(c, reply, FeedbackFailed(c, w, reply), {})
    BY <1>6, Zenon DEF RefreshAnswered
  <2> DEFINE failed == FeedbackFailed(c, w, reply)
  <2>2. LeftBehind(failed, w) /\ Shows(failed, w) /\ (reply.kind \in Ended => failed.shown = NoShown)
    BY <1>1, <1>3, <1>4, FeedbackFailing, Zenon
  <2> HIDE DEF failed
  <2>3. /\ LeftBehind(failed, w) /\ ShowsOne(failed, c.tab)
        /\ AnswersAreKnown => Remains(c, reply, w, failed, {})
    BY <1>2, <1>6, <2>2, FailureEnds
  <2> QED BY <1>2, <1>6, <2>1, <2>3, HandlerEnds, Zenon DEF failed
<1> QED BY <1>5, <1>6

\* An answer that nobody listens to any more changes the cookie jar at most.
LEMMA LateKeeps ==
    ASSUME FlowInv, NEW c \in net, NEW reply \in Outcomes(c), LateAnswer(c, reply)
    PROVE  FlowInv' /\ StaysStored
<1> DEFINE w == tab[c.tab]
           L == Heard(c.tab) \ {c}
<1>1. reply \in Replies
  BY OutcomeIsHonest
<1>2. c.tab \in Tabs /\ w \in Memories
  <2>1. c \in CallRecords
    BY Zenon DEF FlowInv, TabsInv, TypeOK
  <2>2. c.tab \in Tabs
    BY <2>1, SMT DEF CallRecords
  <2> QED BY <2>2, Zenon DEF FlowInv, TabsInv, TypeOK
<1>3. ShownBelongs(w) /\ TakeTurns(w, Heard(c.tab))
  BY <1>2, Zenon DEF FlowInv, TabsInv, ShownBelongsToActiveSession, HandlersTakeTurns
<1>4. Joins(w, Kept(c.tab, w, L), {}) /\ Fresh(c.tab, w.epoch, {})
  BY <1>3, Zenon DEF Joins, TakeTurns, Fresh, Kept
<1>5. w.epoch >= tab[c.tab].epoch /\ Settle(c, reply, w, {})
  BY <1>2, SMT DEF LateAnswer, Memories
<1>6. ASSUME c.tab \notin switched'
      PROVE  Tied(w, Kept(c.tab, w, L) \cup Sent({}, jar'), jar')
  <2>1. jar' \in {jar, NoSession} /\ c.tab \notin switched
    BY <1>2, <1>5, <1>6, Zenon DEF Settle, LateAnswer
  <2>2. Tied(w, Heard(c.tab), jar)
    BY <1>2, <2>1, Following, Zenon DEF FlowInv
  <2>3. Kept(c.tab, w, L) \cup Sent({}, jar') \subseteq Heard(c.tab)
    BY Zenon DEF Kept, Sent
  <2> HIDE DEF w, L
  <2> QED BY <2>1, <2>2, <2>3, StaysTied
<1>7. FlowInv'
  BY <1>1, <1>2, <1>3, <1>4, <1>5, <1>6, Settling
<1>8. ASSUME OneTab, StoredInv PROVE StoredInv'
  <2> DEFINE t == c.tab
             u == tab'[t]
  <2>1. t \in Tabs /\ Tabs = {t}
    BY <1>8, TabOfCall, TheTab, Zenon
  <2>2. /\ u.shown = w.shown /\ u.load = w.load /\ u.session = w.session
        /\ u.personal = w.personal
        /\ ~u.doubt => ~w.doubt /\ Changing(net') \subseteq Changing(net) \ {c}
        /\ Heard(t)' = Heard(t)
        /\ UNCHANGED server
    <3>1. /\ u.shown = w.shown /\ u.load = w.load /\ u.session = w.session
          /\ u.personal = w.personal
          /\ ~u.doubt => ~w.doubt /\ Changing(net') \subseteq (Changing(net) \ {c}) \cup Sent({}, jar')
          /\ Heard(t)' = Kept(t, w, Heard(t) \ {c}) \cup Sent({}, jar')
          /\ UNCHANGED server
      BY <1>2, <1>4, <1>5, SettleLeaves, Zenon
    <3>2. c \notin Heard(t) /\ Sent({}, jar') = {}
      BY Zenon DEF LateAnswer, Heard, Sent
    <3>3. Kept(t, w, Heard(t) \ {c}) = Heard(t)
      BY <3>2, Zenon DEF Kept
    <3> HIDE DEF u, w
    <3> QED BY <3>1, <3>2, <3>3
  <2>3. switched' \in {switched, Tabs}
    BY <2>1, Zenon DEF LateAnswer, Settle
  <2> SUFFICES ASSUME t \notin switched, Undoubted(u), row[u.session.id] # "over"
               PROVE  UpToDate(u, Heard(t)', net', prefs[u.session.id], feedback[u.session.id])
    BY <2>1, <2>2, <2>3, Storing, Zenon
  <2> HIDE DEF u, w
  <2>4. ~w.doubt /\ Changing(net') \subseteq Changing(net) /\ Undoubted(w)
    BY <2>2, Zenon DEF Undoubted
  <2>5. UpToDate(w, Heard(t), net, prefs[w.session.id], feedback[w.session.id])
    BY <1>8, <2>1, <2>2, <2>4, Storing, Zenon DEF w
  <2>6. ASSUME NEW heard, NEW p, NEW f, UpToDate(w, heard, net, p, f)
        PROVE  UpToDate(u, heard, net', p, f)
    <3>1. WasTold(u, heard, p, f)
      BY <2>2, <2>6, Zenon DEF UpToDate, WasTold
    <3>2. u.shown # NoShown => ShowsOrWillHear(u, heard, p, f)
      BY <2>2, <2>6, Zenon DEF UpToDate, ShowsOrWillHear
    <3> QED BY <2>4, <2>6, <3>1, <3>2, Zenon DEF UpToDate
  <2> QED BY <2>2, <2>5, <2>6, Zenon
<1>9. AnswersAreKnown => AnswersAreKnown'
  BY <1>4, <1>5, SettleKnows
<1> QED BY <1>7, <1>8, <1>9 DEF StaysStored

-----------------------------------------------------------------------------
(* Clicks. *)

\* Where nothing is pending, only leftovers of loads are listened to.
LEMMA NothingPending ==
    ASSUME FlowInv, NEW t \in Tabs, ~MutationPending(tab[t]), tab[t].ui # "error"
    PROVE  /\ tab[t] \in Memories /\ ShownBelongs(tab[t]) /\ tab[t].load.task = "none"
           /\ Leftovers(Heard(t))
<1>1. tab[t] \in Memories /\ TakeTurns(tab[t], Heard(t)) /\ ShownBelongs(tab[t])
  BY Zenon DEF FlowInv, TabsInv, TypeOK, HandlersTakeTurns, ShownBelongsToActiveSession
<1>2. tab[t].load.task = "none"
  BY <1>1, Zenon DEF TakeTurns, LoadFits
<1>3. \A d \in Heard(t) : Rehydrates(d) /\ d.task = "bootstrap"
  <2> SUFFICES ASSUME NEW d \in Heard(t) PROVE Rehydrates(d) /\ d.task = "bootstrap"
    OBVIOUS
  <2>1. RehydrationFits(d, tab[t])
    BY <1>1, Zenon DEF TakeTurns, HandlerFits
  <2> QED BY <2>1, <1>2, SMT DEF RehydrationFits, Rehydrates
<1> QED BY <1>1, <1>2, <1>3, Zenon DEF Leftovers, TakeTurns

\* The tab of a click follows the cookie if what it shows does: the call leaves with the
\* cookie of the jar, and one that asks for the session finds no workspace.
LEMMA ClickFollows ==
    ASSUME FlowInv, NEW t \in Tabs, NEW v, LeftBehind(v, tab[t]), ShowsOne(v, t),
           NEW x, HandlerFits(x, v), x.cookie = jar, Click(t, v, {x}), t \notin switched',
           NEW M, \A d \in M : Rehydrates(d)
    PROVE  Tied(v, M \cup {x}, jar)
<1>1. v.load.task = "none" /\ ShownBelongs(v)
  BY DEF LeftBehind
<1>2. v.shown # NoShown => t \notin switched
  <2>1. x.op \in {"me", "create"} => v.ui # "active"
    BY SMT DEF HandlerFits, FeedbackTasks
  <2> QED BY <1>1, <2>1, Zenon DEF ShownBelongs, Click
<1> QED BY <1>1, <1>2, OneMore

\* With one tab, what it shows when the user acts is what is stored, and stays it.
LEMMA ClickStores ==
    ASSUME FlowInv, NEW t \in Tabs, NEW v, LeftBehind(v, tab[t]), Shows(v, tab[t]),
           v.shown # NoShown => ~MutationPending(tab[t]),
           NEW calls, Fresh(t, v.epoch, calls), Click(t, v, calls),
           \A x \in calls : HandlerFits(x, v) /\ x.op # "listFeedback"
    PROVE  StaysStored
<1> SUFFICES ASSUME OneTab, StoredInv PROVE StoredInv'
  BY ClickKnows DEF StaysStored
<1> DEFINE w == tab[t]
<1>1. Tabs = {t} /\ w \in Memories /\ ShownBelongs(w)
  BY TheTab, Zenon
<1>2. v \in Memories /\ v.epoch >= w.epoch /\ v.load.task = "none" /\ ShownBelongs(v)
  BY <1>1, EpochGrows, Zenon DEF LeftBehind
<1>3. /\ tab'[t] = v /\ UNCHANGED server
      /\ Changing(net') \subseteq Changing(net) \cup calls
      /\ Heard(t)' = Kept(t, v, Heard(t)) \cup calls
  BY <1>2, ClickLeaves, Zenon
<1> HIDE DEF w
<1> DEFINE p == prefs[v.session.id]
           f == feedback[v.session.id]
<1> SUFFICES ASSUME t \notin switched', Undoubted(v), row[v.session.id] # "over"
             PROVE  UpToDate(v, Heard(t)', net', p, f)
  BY <1>1, <1>3, Storing, Zenon
<1>4. v.shown # NoShown /\ v.ui = "active"
  BY <1>2, Zenon DEF Undoubted, ShownBelongs
<1>5. /\ v.shown = w.shown /\ v.session = w.session /\ v.doubt = w.doubt
      /\ v.personal \in {w.personal, NoResult}
  BY <1>4, Zenon DEF Shows, w
<1>6. t \notin switched
  <2>1. \A x \in calls : x.op \notin {"me", "create"}
    BY <1>4, SMT DEF HandlerFits, FeedbackTasks
  <2> QED BY <2>1, Zenon DEF Click
<1>7. UpToDate(w, Heard(t), net, p, f)
  <2>1. Undoubted(w) /\ w.session = v.session
    BY <1>4, <1>5, Zenon DEF Undoubted
  <2> QED BY <1>6, <2>1, Storing DEF w
<1>8. \A x \in Heard(t) : Rehydrates(x)
  <2>1. w.ui # "error"
    BY <1>1, <1>4, <1>5, Zenon DEF ShownBelongs
  <2> QED BY <1>4, <2>1, NothingPending, Zenon DEF Leftovers, w
<1>9. \A x : Rehydrates(x) => x.op \notin PrefsChanges \cup FeedbackChanges /\ ~Refreshes(x)
  BY SMT DEF Rehydrates, PrefsChanges, FeedbackChanges, Refreshes
<1> HIDE DEF p, f
<1>10. Changing(net') \subseteq calls
  BY <1>3, <1>7, <1>8, <1>9, Zenon DEF UpToDate, Changing
<1>11. ShowsOrWillHear(v, calls, p, f)
  <2>1. /\ w.shown.prefs = p /\ (w.personal # NoResult => w.personal.prefs = p)
        /\ w.shown.feedback = f /\ (w.personal # NoResult => w.personal.feedback = f)
    BY <1>4, <1>5, <1>7, <1>8, <1>9, Zenon DEF UpToDate, ShowsOrWillHear
  <2>2. \A x \in calls : ~Refreshes(x)
    BY Zenon DEF Refreshes
  <2> QED BY <1>5, <2>1, <2>2, Zenon DEF ShowsOrWillHear
<1>12. /\ \A x \in calls : x.stage = "sent"
       /\ calls \subseteq Heard(t)'
       /\ \A x \in Heard(t)' : x \in calls \/ Rehydrates(x)
  BY <1>3, <1>8, Zenon DEF Fresh, Kept
<1> QED BY <1>2, <1>10, <1>11, <1>12, Quiet

\* A click starts a handler in the same epoch.
LEMMA HandlerStarts ==
    ASSUME FlowInv, NEW t \in Tabs, ~MutationPending(tab[t]), tab[t].ui # "error",
           NEW v, LeftBehind(v, tab[t]), v.epoch = tab[t].epoch, Shows(v, tab[t]),
           NEW x, Fresh(t, v.epoch, {x}), HandlerFits(x, v), x.cookie = jar,
           x.task \notin {"bootstrap", "clear"}, x.op # "listFeedback", Click(t, v, {x})
    PROVE  FlowInv' /\ StaysStored
<1>1. tab[t] \in Memories /\ Leftovers(Heard(t))
  BY NothingPending
<1>2. Joins(v, Kept(t, v, Heard(t)), {})
  BY <1>1, NothingIssued, Zenon DEF Leftovers
<1>3. \A d \in Kept(t, v, Heard(t)) : Beside(d, x) /\ Beside(x, d)
  BY <1>1, Zenon DEF Leftovers, Kept, Beside, Outlives, HandlerFits
<1>4. TakeTurns(v, Kept(t, v, Heard(t)) \cup {x})
  BY <1>2, <1>3, Zenon DEF Joins, TakeTurns
<1>5. v \in Memories /\ v.epoch >= tab[t].epoch /\ ShownBelongs(v)
  BY <1>1, EpochGrows, Zenon DEF LeftBehind
<1>6. ASSUME t \notin switched' PROVE Tied(v, Kept(t, v, Heard(t)) \cup {x}, jar)
  <2>1. \A d \in Kept(t, v, Heard(t)) : Rehydrates(d)
    BY <1>1, Zenon DEF Leftovers, Kept
  <2>2. ShowsOne(v, t)
    BY ShowingOn
  <2> QED BY <1>6, <2>1, <2>2, ClickFollows
<1>7. FlowInv'
  BY <1>4, <1>5, <1>6, Clicking
<1>8. StaysStored
  BY ClickStores
<1> QED BY <1>7, <1>8

\* A click starts a handler in an epoch of its own.
LEMMA HandlerBegins ==
    ASSUME FlowInv, NEW t \in Tabs, NEW v, LeftBehind(v, tab[t]), v.epoch = tab[t].epoch + 1,
           Shows(v, tab[t]), v.shown # NoShown => ~MutationPending(tab[t]),
           NEW x, Fresh(t, v.epoch, {x}), HandlerFits(x, v), x.cookie = jar,
           x.op # "listFeedback", Click(t, v, {x})
    PROVE  FlowInv' /\ StaysStored
<1>1. tab[t] \in Memories
  BY Zenon DEF FlowInv, TabsInv, TypeOK
<1>2. v \in Memories /\ v.epoch >= tab[t].epoch /\ ShownBelongs(v)
  BY <1>1, EpochGrows, Zenon DEF LeftBehind
<1>3. Kept(t, v, Heard(t)) = {}
  BY <1>1, SMT DEF Kept, Memories
<1>4. TakeTurns(v, Kept(t, v, Heard(t)) \cup {x})
  BY <1>3, Zenon DEF TakeTurns, LoadFits, LeftBehind
<1>5. ASSUME t \notin switched' PROVE Tied(v, Kept(t, v, Heard(t)) \cup {x}, jar)
  <2>1. \A d \in Kept(t, v, Heard(t)) : Rehydrates(d)
    BY <1>3
  <2>2. ShowsOne(v, t)
    BY ShowingOn
  <2> QED BY <1>5, <2>1, <2>2, ClickFollows
<1>6. FlowInv'
  BY <1>2, <1>4, <1>5, Clicking
<1>7. StaysStored
  BY ClickStores
<1> QED BY <1>6, <1>7

\* setBusy(true)
LEMMA GettingBusy ==
    ASSUME NEW w \in Memories, ShownBelongs(w), w.load.task = "none"
    PROVE  LET v == [w EXCEPT !.busy = TRUE]
           IN  /\ LeftBehind(v, w) /\ MutationPending(v) /\ v.epoch = w.epoch /\ v.ui = w.ui
               /\ v.session = w.session /\ Shows(v, w)
<1> DEFINE v == [w EXCEPT !.busy = TRUE]
<1>1. v \in Memories
  BY Setting, Zenon
<1>2. v.busy
  BY Zenon DEF Memories
<1>3. /\ v.ui = w.ui /\ v.shown = w.shown /\ v.session = w.session
      /\ v.personal = w.personal /\ v.load = w.load /\ v.epoch = w.epoch
      /\ v.doubt = w.doubt
  BY Zenon DEF Memories
<1> HIDE DEF v
<1>4. LeftBehind(v, w) /\ MutationPending(v)
  BY <1>1, <1>2, <1>3, Zenon DEF LeftBehind, ShownBelongs, MutationPending
<1>5. Shows(v, w)
  BY <1>3, Zenon DEF Shows
<1> QED BY <1>3, <1>4, <1>5 DEF v

LEMMA RetryKeeps ==
    ASSUME FlowInv, NEW t \in Tabs, Retry(t) PROVE FlowInv' /\ StaysStored
<1> DEFINE w == tab[t]
           v == [w EXCEPT !.epoch = w.epoch + 1, !.busy = TRUE, !.ui = "bootstrapping",
                          !.load = NoLoad]
           v1 == [w EXCEPT !.epoch = w.epoch + 1]
           v2 == [v1 EXCEPT !.busy = TRUE]
           v3 == [v2 EXCEPT !.ui = "bootstrapping"]
           x == Call(t, v, "bootstrap", "me")
<1>1. w.ui = "error" /\ Click(t, v, {x})
  BY Zenon DEF Retry
<1>2. w \in Memories /\ ShownBelongs(w) /\ TypeOK
  BY Zenon DEF FlowInv, TabsInv, TypeOK, ShownBelongsToActiveSession
<1>3. v \in Memories
  <2>1. w.epoch + 1 \in Nat
    BY <1>2, SMT DEF Memories
  <2>2. v1 \in Memories
    BY <1>2, <2>1, Setting, Zenon
  <2>3. v2 \in Memories
    <3> HIDE DEF v1
    <3> QED BY <2>2, Setting, Zenon
  <2>4. v3 \in Memories
    <3> HIDE DEF v2
    <3> QED BY <2>3, Setting, Zenon DEF States
  <2>5. v = [v3 EXCEPT !.load = NoLoad]
    BY <1>2, SMT DEF Memories
  <2> HIDE DEF v3, v
  <2> QED BY <2>4, <2>5, Setting, Blanks, Zenon
<1>4. /\ v.ui = "bootstrapping" /\ v.epoch = w.epoch + 1 /\ v.shown = w.shown
      /\ v.personal = w.personal /\ v.load = NoLoad /\ v.doubt = w.doubt
  BY <1>2, SMT DEF Memories
<1>5. v.busy
  BY <1>2, Zenon DEF Memories
<1> HIDE DEF v
<1>6. LeftBehind(v, w) /\ MutationPending(v) /\ Shows(v, w) /\ v.shown = NoShown
  BY <1>1, <1>2, <1>3, <1>4, <1>5, Blanks, Zenon
     DEF LeftBehind, ShownBelongs, MutationPending, Shows
<1>7. Issued(x, t, v, "bootstrap", "me")
  <2>1. "bootstrap" \in Tasks /\ "me" \in Ops
    BY DEF Tasks, Ops
  <2> QED BY <1>2, <1>3, <2>1, Calling
<1> HIDE DEF x
<1>8. HandlerFits(x, v)
  BY <1>4, <1>6, <1>7, Blanks, SMT DEF Issued, HandlerFits, Rehydrates
<1> QED BY <1>1, <1>4, <1>6, <1>7, <1>8, HandlerBegins, Zenon DEF Issued

LEMMA ReloadKeeps ==
    ASSUME FlowInv, NEW t \in Tabs, Reload(t) PROVE FlowInv' /\ StaysStored
<1> DEFINE w == tab[t]
<1>1. PICK version_ \in Versions :
         Click(t, Mounted(version_, w.epoch + 1),
               {Call(t, Mounted(version_, w.epoch + 1), "bootstrap", "me")})
  BY Zenon DEF Reload
<1> DEFINE v == Mounted(version_, w.epoch + 1)
           x == Call(t, v, "bootstrap", "me")
<1>2. w \in Memories /\ TypeOK
  BY Zenon DEF FlowInv, TabsInv, TypeOK
<1>3. v \in Memories
  <2>1. w.epoch + 1 \in Nat
    BY <1>2, SMT DEF Memories
  <2> HIDE DEF w
  <2> QED BY <2>1, Blanks, SMT DEF Mounted, Memories, States
<1>4. /\ v.ui = "bootstrapping" /\ v.epoch = w.epoch + 1 /\ v.shown = NoShown
      /\ v.personal = NoResult /\ v.load = NoLoad
  BY DEF Mounted
<1>5. v.busy
  BY Zenon DEF Mounted
<1> HIDE DEF v
<1>6. LeftBehind(v, w) /\ MutationPending(v) /\ Shows(v, w)
  BY <1>2, <1>3, <1>4, <1>5, Blanks, Zenon
     DEF LeftBehind, ShownBelongs, MutationPending, Shows
<1>7. Issued(x, t, v, "bootstrap", "me")
  <2>1. "bootstrap" \in Tasks /\ "me" \in Ops
    BY DEF Tasks, Ops
  <2> QED BY <1>2, <1>3, <2>1, Calling
<1>9. Click(t, v, {x})
  BY <1>1 DEF v
<1> HIDE DEF x
<1>8. HandlerFits(x, v)
  BY <1>4, <1>6, <1>7, Blanks, SMT DEF Issued, HandlerFits, Rehydrates
<1> QED BY <1>9, <1>4, <1>6, <1>7, <1>8, HandlerBegins, Zenon DEF Issued

LEMMA EnableKeeps ==
    ASSUME FlowInv, NEW t \in Tabs, Enable(t) PROVE FlowInv' /\ StaysStored
<1> DEFINE w == tab[t]
           v == [w EXCEPT !.busy = TRUE]
           x == Call(t, v, "consent", "create")
<1>1. w.ui = "stateless" /\ ~MutationPending(w) /\ Click(t, v, {x})
  BY Zenon DEF Enable
<1>2. w \in Memories /\ ShownBelongs(w) /\ w.load.task = "none" /\ TypeOK
  BY <1>1, NothingPending, Zenon DEF FlowInv, TabsInv
<1>3. /\ LeftBehind(v, w) /\ MutationPending(v) /\ v.epoch = w.epoch /\ v.ui = w.ui
      /\ Shows(v, w)
  BY <1>2, GettingBusy
<1> HIDE DEF v
<1>4. Issued(x, t, v, "consent", "create")
  <2>1. "consent" \in Tasks /\ "create" \in Ops /\ v \in Memories
    BY <1>3, Zenon DEF Tasks, Ops, LeftBehind
  <2> QED BY <1>2, <2>1, Calling
<1> HIDE DEF x
<1>5. HandlerFits(x, v) /\ x.task \notin {"bootstrap", "clear"}
  BY <1>1, <1>3, <1>4, SMT DEF Issued, HandlerFits, Rehydrates, LeftBehind
<1> QED BY <1>1, <1>3, <1>4, <1>5, HandlerStarts, Zenon DEF Issued

LEMMA ContinueKeeps ==
    ASSUME FlowInv, NEW t \in Tabs, Continue(t) PROVE FlowInv' /\ StaysStored
<1> DEFINE w == tab[t]
<1>1. w.ui = "consent_outdated" /\ ~MutationPending(w)
  BY Zenon DEF Continue
<1>2. /\ w \in Memories /\ ShownBelongs(w) /\ w.load.task = "none" /\ TypeOK
      /\ Leftovers(Heard(t))
  BY <1>1, NothingPending, Zenon DEF FlowInv, TabsInv
<1>3. CASE w.session # NoLifecycle /\ w.session.version # w.page
  <2> DEFINE v == [w EXCEPT !.ui = "error"]
  <2>1. Click(t, v, {})
    BY <1>3, Zenon DEF Continue
  <2>2. v \in Memories
    BY <1>2, Setting, Zenon DEF States
  <2>3. /\ v.ui = "error" /\ v.shown = w.shown /\ v.session = w.session
        /\ v.personal = w.personal /\ v.load = w.load /\ v.epoch = w.epoch
    BY <1>2, SMT DEF Memories
  <2> HIDE DEF v
  <2>4. LeftBehind(v, w)
    BY <1>1, <1>2, <2>2, <2>3, Zenon DEF LeftBehind, ShownBelongs
  <2>5. Joins(v, Kept(t, v, Heard(t)), {}) /\ Fresh(t, v.epoch, {})
    BY <1>2, <2>4, NothingIssued, Zenon DEF Leftovers
  <2>6. TakeTurns(v, Kept(t, v, Heard(t)) \cup {}) /\ v.epoch >= tab[t].epoch
    BY <1>2, <2>4, <2>5, EpochGrows, Zenon DEF Joins
  <2>7. Tied(v, Kept(t, v, Heard(t)) \cup {}, jar)
    <3>1. v.load.task = "none" /\ ShownBelongs(v) /\ v.shown = NoShown
      BY <1>1, <1>2, <2>3, <2>4, Zenon DEF LeftBehind, ShownBelongs
    <3>2. \A d \in Kept(t, v, Heard(t)) : Rehydrates(d)
      BY <1>2, Zenon DEF Leftovers, Kept
    <3> QED BY <3>1, <3>2, OneMore DEF ShowsOne
  <2>8. FlowInv'
    BY <2>1, <2>2, <2>4, <2>5, <2>6, <2>7, Clicking, Zenon DEF LeftBehind
  <2>9. v.shown = NoShown
    BY <1>1, <1>2, <2>3, Zenon DEF ShownBelongs
  <2>10. StaysStored
    <3>1. Shows(v, w)
      BY <2>9 DEF Shows
    <3> QED BY <2>1, <2>4, <2>5, <2>9, <3>1, ClickStores
  <2> QED BY <2>8, <2>10
<1>4. CASE ~(w.session # NoLifecycle /\ w.session.version # w.page)
  <2> DEFINE v == [w EXCEPT !.busy = TRUE]
             x == Signed(Call(t, w, "consent", "create"), w)
  <2>1. Click(t, v, {x})
    BY <1>4, Zenon DEF Continue
  <2>2. /\ LeftBehind(v, w) /\ MutationPending(v) /\ v.epoch = w.epoch /\ v.ui = w.ui
        /\ Shows(v, w)
    BY <1>2, GettingBusy
  <2> HIDE DEF v
  <2>3. Issued(x, t, w, "consent", "create")
    <3>1. "consent" \in Tasks /\ "create" \in Ops
      BY DEF Tasks, Ops
    <3> QED BY <1>2, <3>1, Calling
  <2> HIDE DEF x
  <2>4. HandlerFits(x, v) /\ x.task \notin {"bootstrap", "clear"}
    BY <1>1, <2>2, <2>3, SMT DEF Issued, HandlerFits, Rehydrates, LeftBehind
  <2> QED BY <1>1, <2>1, <2>2, <2>3, <2>4, HandlerStarts, Zenon DEF Issued
<1> QED BY <1>3, <1>4

LEMMA ClearingKeeps ==
    ASSUME FlowInv, NEW t \in Tabs, Clear(t) PROVE FlowInv' /\ StaysStored
<1> DEFINE w == tab[t]
           v == [w EXCEPT !.epoch = w.epoch + 1, !.busy = TRUE, !.load = NoLoad]
           v1 == [w EXCEPT !.epoch = w.epoch + 1]
           v2 == [v1 EXCEPT !.busy = TRUE]
           x == Signed(Call(t, v, "clear", "delete"), v)
<1>1. Click(t, v, {x}) /\ ~MutationPending(w)
  BY Zenon DEF Clear
<1>2. w \in Memories /\ ShownBelongs(w) /\ TypeOK
  BY Zenon DEF FlowInv, TabsInv, TypeOK, ShownBelongsToActiveSession
<1>3. v \in Memories
  <2>1. w.epoch + 1 \in Nat
    BY <1>2, SMT DEF Memories
  <2>2. v1 \in Memories
    BY <1>2, <2>1, Setting, Zenon
  <2>3. v2 \in Memories
    <3> HIDE DEF v1
    <3> QED BY <2>2, Setting, Zenon
  <2>4. v = [v2 EXCEPT !.load = NoLoad]
    BY <1>2, SMT DEF Memories
  <2> HIDE DEF v2, v
  <2> QED BY <2>3, <2>4, Setting, Blanks, Zenon
<1>4. /\ v.ui = w.ui /\ v.epoch = w.epoch + 1 /\ v.shown = w.shown /\ v.session = w.session
      /\ v.personal = w.personal /\ v.load = NoLoad /\ v.doubt = w.doubt
  BY <1>2, SMT DEF Memories
<1>5. v.busy
  BY <1>2, Zenon DEF Memories
<1> HIDE DEF v
<1>6. LeftBehind(v, w) /\ MutationPending(v) /\ Shows(v, w)
  BY <1>2, <1>3, <1>4, <1>5, Blanks, Zenon
     DEF LeftBehind, ShownBelongs, MutationPending, Shows
<1>7. Issued(x, t, v, "clear", "delete")
  <2>1. "clear" \in Tasks /\ "delete" \in Ops
    BY DEF Tasks, Ops, Protected
  <2> QED BY <1>2, <1>3, <2>1, Calling
<1> HIDE DEF x
<1>8. HandlerFits(x, v)
  BY <1>4, <1>6, <1>7, Blanks, SMT DEF Issued, HandlerFits, Rehydrates
<1> QED BY <1>1, <1>4, <1>6, <1>7, <1>8, HandlerBegins, Zenon DEF Issued

\* The buttons of the workspace work in a tab that is active and waits for nothing.
LEMMA InWorkspace ==
    ASSUME FlowInv, NEW t \in Tabs, Workspace(t)
    PROVE  /\ TypeOK /\ tab[t] \in Memories /\ ShownBelongs(tab[t])
           /\ tab[t].load.task = "none" /\ tab[t].ui = "active"
           /\ ~MutationPending(tab[t]) /\ tab[t].ui # "error"
<1>1. ~MutationPending(tab[t]) /\ tab[t].ui = "active" /\ tab[t].ui # "error"
  BY SMT DEF Workspace
<1> QED BY <1>1, NothingPending, Zenon DEF FlowInv, TabsInv

LEMMA SavePreferencesKeeps ==
    ASSUME FlowInv, NEW t \in Tabs, SavePreferences(t) PROVE FlowInv' /\ StaysStored
<1> DEFINE w == tab[t]
           v == [w EXCEPT !.busy = TRUE]
           call == Signed(Call(t, v, "preferences", "putPrefs"), v)
<1>1. PICK draft \in Prefs \cup {NoPrefs} : Click(t, v, {[call EXCEPT !.prefs = draft]})
  BY Zenon DEF SavePreferences
<1>2. /\ TypeOK /\ w \in Memories /\ ShownBelongs(w) /\ w.load.task = "none"
      /\ w.ui = "active" /\ ~MutationPending(w) /\ w.ui # "error"
  BY InWorkspace, Zenon DEF SavePreferences
<1>3. /\ LeftBehind(v, w) /\ MutationPending(v) /\ v.epoch = w.epoch /\ v.ui = w.ui
      /\ Shows(v, w)
  BY <1>2, GettingBusy
<1> DEFINE x == [call EXCEPT !.prefs = draft]
<1>4. Click(t, v, {x})
  BY <1>1
<1> HIDE DEF v
<1>5. Issued(call, t, v, "preferences", "putPrefs")
  <2>1. "preferences" \in Tasks /\ "putPrefs" \in Ops /\ v \in Memories
    BY <1>3, Zenon DEF Tasks, Ops, Protected, LeftBehind
  <2> QED BY <1>2, <2>1, Calling
<1> HIDE DEF call
<1>6. Like(x, call, t, v.epoch)
  <2>1. NoReaction \in Reactions \cup {NoReaction} /\ NoGame \in Games \cup {NoGame}
    OBVIOUS
  <2> QED BY <1>5, <2>1, Describing, Zenon DEF Issued
<1> HIDE DEF x
<1>7. Fresh(t, v.epoch, {x}) /\ x.task = "preferences" /\ x.op = "putPrefs" /\ x.cookie = jar
  BY <1>5, <1>6, Zenon DEF Issued, Like
<1>8. HandlerFits(x, v) /\ x.task \notin {"bootstrap", "clear"}
  BY <1>2, <1>3, <1>7, SMT DEF HandlerFits, Rehydrates, LeftBehind
<1> QED BY <1>2, <1>3, <1>4, <1>7, <1>8, HandlerStarts, Zenon

LEMMA ClearPreferencesKeeps ==
    ASSUME FlowInv, NEW t \in Tabs, ClearPreferences(t) PROVE FlowInv' /\ StaysStored
<1> DEFINE w == tab[t]
           v == [w EXCEPT !.busy = TRUE]
           x == Signed(Call(t, v, "preferences", "clearPrefs"), v)
<1>1. Click(t, v, {x})
  BY Zenon DEF ClearPreferences
<1>2. /\ TypeOK /\ w \in Memories /\ ShownBelongs(w) /\ w.load.task = "none"
      /\ w.ui = "active" /\ ~MutationPending(w) /\ w.ui # "error"
  BY InWorkspace, Zenon DEF ClearPreferences
<1>3. /\ LeftBehind(v, w) /\ MutationPending(v) /\ v.epoch = w.epoch /\ v.ui = w.ui
      /\ Shows(v, w)
  BY <1>2, GettingBusy
<1> HIDE DEF v
<1>4. Issued(x, t, v, "preferences", "clearPrefs")
  <2>1. "preferences" \in Tasks /\ "clearPrefs" \in Ops /\ v \in Memories
    BY <1>3, Zenon DEF Tasks, Ops, Protected, LeftBehind
  <2> QED BY <1>2, <2>1, Calling
<1> HIDE DEF x
<1>5. HandlerFits(x, v) /\ x.task \notin {"bootstrap", "clear"}
  BY <1>2, <1>3, <1>4, SMT DEF Issued, HandlerFits, Rehydrates, LeftBehind
<1> QED BY <1>1, <1>2, <1>3, <1>4, <1>5, HandlerStarts, Zenon DEF Issued

LEMMA GenerateKeeps ==
    ASSUME FlowInv, NEW t \in Tabs, Generate(t) PROVE FlowInv' /\ StaysStored
<1> DEFINE w == tab[t]
           v == [w EXCEPT !.busy = TRUE]
           x == Signed(Call(t, v, "generate", "recommend"), v)
<1>1. Click(t, v, {x})
  BY Zenon DEF Generate
<1>2. /\ TypeOK /\ w \in Memories /\ ShownBelongs(w) /\ w.load.task = "none"
      /\ w.ui = "active" /\ ~MutationPending(w) /\ w.ui # "error"
  BY InWorkspace, Zenon DEF Generate
<1>3. /\ LeftBehind(v, w) /\ MutationPending(v) /\ v.epoch = w.epoch /\ v.ui = w.ui
      /\ Shows(v, w)
  BY <1>2, GettingBusy
<1> HIDE DEF v
<1>4. Issued(x, t, v, "generate", "recommend") /\ x.csrf = v.session.id
  <2>1. "generate" \in Tasks /\ "recommend" \in Ops /\ v \in Memories
    BY <1>3, Zenon DEF Tasks, Ops, Protected, LeftBehind
  <2> QED BY <1>2, <2>1, Calling
<1> HIDE DEF x
<1>5. HandlerFits(x, v) /\ x.task \notin {"bootstrap", "clear"}
  BY <1>2, <1>3, <1>4, SMT DEF Issued, HandlerFits, Rehydrates, LeftBehind
<1> QED BY <1>1, <1>2, <1>3, <1>4, <1>5, HandlerStarts, Zenon DEF Issued

\* setPendingGame(gameId), where v is w but for the assurances: a game is pending now.
LEMMA GettingPending ==
    ASSUME NEW w \in Memories, ShownBelongs(w), w.load.task = "none", NEW g \in Games,
           NEW A \in SUBSET Games
    PROVE  LET v == [w EXCEPT !.pending = g]
               u == [w EXCEPT !.pending = g, !.assured = A]
           IN  /\ LeftBehind(v, w) /\ MutationPending(v) /\ v.epoch = w.epoch /\ v.ui = w.ui
               /\ LeftBehind(u, w) /\ MutationPending(u) /\ u.epoch = w.epoch /\ u.ui = w.ui
               /\ Shows(v, w) /\ Shows(u, w)
<1> DEFINE v == [w EXCEPT !.pending = g]
           u == [w EXCEPT !.pending = g, !.assured = A]
<1>1. v \in Memories
  BY Setting, Zenon
<1>2. u = [v EXCEPT !.assured = A]
  BY SMT DEF Memories
<1>3. /\ v.ui = w.ui /\ v.shown = w.shown /\ v.session = w.session /\ v.pending = g
      /\ v.personal = w.personal /\ v.load = w.load /\ v.epoch = w.epoch
      /\ v.doubt = w.doubt
  BY Zenon DEF Memories
<1> HIDE DEF v, u
<1>4. u \in Memories
  BY <1>1, <1>2, Setting, Zenon
<1>5. /\ u.ui = w.ui /\ u.shown = w.shown /\ u.session = w.session /\ u.pending = g
      /\ u.personal = w.personal /\ u.load = w.load /\ u.epoch = w.epoch
      /\ u.doubt = w.doubt
  BY <1>1, <1>2, <1>3, SMT DEF Memories
<1>6. g # NoGame
  BY NamesAssumption
<1>7. LeftBehind(v, w) /\ MutationPending(v)
  BY <1>1, <1>3, <1>6, Zenon DEF LeftBehind, ShownBelongs, MutationPending
<1>8. LeftBehind(u, w) /\ MutationPending(u)
  BY <1>4, <1>5, <1>6, Zenon DEF LeftBehind, ShownBelongs, MutationPending
<1>9. Shows(v, w) /\ Shows(u, w)
  BY <1>3, <1>5, Zenon DEF Shows
<1> QED BY <1>3, <1>5, <1>7, <1>8, <1>9 DEF v, u

LEMMA SaveFeedbackKeeps ==
    ASSUME FlowInv, NEW t \in Tabs, SaveFeedback(t) PROVE FlowInv' /\ StaysStored
<1> DEFINE w == tab[t]
<1>1. PICK g \in Games, r \in Reactions \cup {NoReaction} :
         LET v == [w EXCEPT !.pending = g, !.assured = w.assured \ {g}]
             call == Signed(Call(t, v, "saveFeedback", "putFeedback"), v)
         IN  Click(t, v, {[call EXCEPT !.game = g, !.reaction = r]})
  BY Zenon DEF SaveFeedback
<1>2. /\ TypeOK /\ w \in Memories /\ ShownBelongs(w) /\ w.load.task = "none"
      /\ w.ui = "active" /\ ~MutationPending(w) /\ w.ui # "error"
  BY InWorkspace, Zenon DEF SaveFeedback
<1> DEFINE v == [w EXCEPT !.pending = g, !.assured = w.assured \ {g}]
           call == Signed(Call(t, v, "saveFeedback", "putFeedback"), v)
           x == [call EXCEPT !.game = g, !.reaction = r]
<1>3. /\ LeftBehind(v, w) /\ MutationPending(v) /\ v.epoch = w.epoch /\ v.ui = w.ui
      /\ Shows(v, w)
  <2>1. w.assured \in SUBSET Games
    BY <1>2, SMT DEF Memories
  <2>2. w.assured \ {g} \in SUBSET Games
    BY <2>1, Zenon
  <2> HIDE DEF w
  <2> QED BY <1>2, <2>2, GettingPending
<1>4. Click(t, v, {x})
  BY <1>1
<1> HIDE DEF v
<1>5. Issued(call, t, v, "saveFeedback", "putFeedback")
  <2>1. "saveFeedback" \in Tasks /\ "putFeedback" \in Ops /\ v \in Memories
    BY <1>3, Zenon DEF Tasks, Ops, Protected, LeftBehind
  <2> QED BY <1>2, <2>1, Calling
<1> HIDE DEF call
<1>6. Like(x, call, t, v.epoch) /\ x.game = g
  <2>2. Fresh(t, v.epoch, {call})
    BY <1>5, Zenon DEF Issued
  <2>3. Tells(x, call, g, r)
    BY DEF Tells
  <2> HIDE DEF x
  <2>4. r \in Reactions \cup {NoReaction} /\ g \in Games
    OBVIOUS
  <2> QED BY <2>2, <2>3, <2>4, DescribingReaction
<1> HIDE DEF x
<1>7. /\ Fresh(t, v.epoch, {x}) /\ x.task = "saveFeedback" /\ x.op = "putFeedback"
      /\ x.cookie = jar
  BY <1>5, <1>6, Zenon DEF Issued, Like
<1>8. HandlerFits(x, v) /\ x.task \notin {"bootstrap", "clear"}
  BY <1>2, <1>3, <1>6, <1>7, SMT DEF HandlerFits, Rehydrates, LeftBehind, FeedbackTasks
<1> QED BY <1>2, <1>3, <1>4, <1>7, <1>8, HandlerStarts, Zenon

LEMMA ClearFeedbackKeeps ==
    ASSUME FlowInv, NEW t \in Tabs, ClearFeedback(t) PROVE FlowInv' /\ StaysStored
<1> DEFINE w == tab[t]
<1>1. PICK g \in Games :
         LET v == [w EXCEPT !.pending = g]
         IN  Click(t, v, {[Signed(Call(t, v, "clearFeedback", "clearFeedback"), v)
                             EXCEPT !.game = g]})
  BY Zenon DEF ClearFeedback
<1>2. /\ TypeOK /\ w \in Memories /\ ShownBelongs(w) /\ w.load.task = "none"
      /\ w.ui = "active" /\ ~MutationPending(w) /\ w.ui # "error"
  BY InWorkspace, Zenon DEF ClearFeedback
<1> DEFINE v == [w EXCEPT !.pending = g]
           call == Signed(Call(t, v, "clearFeedback", "clearFeedback"), v)
           x == [call EXCEPT !.game = g]
<1>3. /\ LeftBehind(v, w) /\ MutationPending(v) /\ v.epoch = w.epoch /\ v.ui = w.ui
      /\ Shows(v, w)
  <2> HIDE DEF w
  <2> QED BY <1>2, GettingPending
<1>4. Click(t, v, {x})
  BY <1>1
<1> HIDE DEF v
<1>5. Issued(call, t, v, "clearFeedback", "clearFeedback")
  <2>1. "clearFeedback" \in Tasks /\ "clearFeedback" \in Ops /\ v \in Memories
    BY <1>3, Zenon DEF Tasks, Ops, Protected, LeftBehind
  <2> QED BY <1>2, <2>1, Calling
<1> HIDE DEF call
<1>6. Like(x, call, t, v.epoch) /\ x.game = g
  <2>1. NoPrefs \in Prefs \cup {NoPrefs} /\ g \in Games \cup {NoGame}
        /\ NoReaction \in Reactions \cup {NoReaction}
    OBVIOUS
  <2>2. Fresh(t, v.epoch, {call})
    BY <1>5, Zenon DEF Issued
  <2> QED BY <2>1, <2>2, Describing
<1> HIDE DEF x
<1>7. /\ Fresh(t, v.epoch, {x}) /\ x.task = "clearFeedback" /\ x.op = "clearFeedback"
      /\ x.cookie = jar
  BY <1>5, <1>6, Zenon DEF Issued, Like
<1>8. HandlerFits(x, v) /\ x.task \notin {"bootstrap", "clear"}
  BY <1>2, <1>3, <1>6, <1>7, SMT DEF HandlerFits, Rehydrates, LeftBehind, FeedbackTasks
<1> QED BY <1>2, <1>3, <1>4, <1>7, <1>8, HandlerStarts, Zenon

-----------------------------------------------------------------------------
(* The environment, the initial states and every step. *)

LEMMA EnvironmentKeeps == ASSUME FlowInv, Environment PROVE FlowInv' /\ StaysStored
<1>1. UNCHANGED <<tab, clicks, lost, switched, net, prefs, feedback, consent>>
  BY SMT DEF Environment, Upgrade, LapseCookie, EndSession
<1>2. /\ row' \in [Sessions -> {"unused", "live", "over"}] /\ version' \in Versions
      /\ jar' \in Sessions \cup {NoSession}
  BY NamesAssumption, SMT
     DEF FlowInv, TabsInv, TypeOK, Environment, Upgrade, LapseCookie, EndSession, Versions
<1>3. TypeOK /\ TypeOK'
  BY <1>1, <1>2, Zenon DEF FlowInv, TabsInv, TypeOK
<1>4. ShownBelongsToActiveSession'
  BY <1>1, Zenon DEF FlowInv, TabsInv, ShownBelongsToActiveSession, ShownBelongs
<1>5. AnswersAreHonest'
  BY <1>1, Zenon DEF FlowInv, TabsInv, AnswersAreHonest, Honest
<1>6. HandlersTakeTurns'
  <2> SUFFICES ASSUME NEW t \in Tabs PROVE TakeTurns(tab[t], Heard(t))'
    BY Zenon DEF HandlersTakeTurns
  <2>1. TakeTurns(tab[t], Heard(t))
    BY Zenon DEF FlowInv, TabsInv, HandlersTakeTurns
  <2>2. tab'[t] = tab[t] /\ Heard(t)' = Heard(t)
    BY <1>1, Zenon DEF Heard
  <2> QED BY <2>1, <2>2, Zenon
<1>7. TabsFollowTheCookie'
  <2>1. jar' \in {jar, NoSession}
    BY SMT DEF Environment, Upgrade, LapseCookie, EndSession
  <2>2. ASSUME NEW t \in Tabs \ switched' PROVE Tied(tab'[t], Heard(t)', jar')
    <3>1. Tied(tab[t], Heard(t), jar)
      BY <1>1, Following, Zenon DEF FlowInv
    <3>2. tab'[t] = tab[t] /\ Heard(t)' \subseteq Heard(t)
      BY <1>1, Zenon DEF Heard
    <3> QED BY <2>1, <3>1, <3>2, StaysTied, Zenon
  <2> QED BY <2>2, Following
<1>8. FlowInv'
  BY <1>3, <1>4, <1>5, <1>6, <1>7 DEF FlowInv, TabsInv
<1>9. ASSUME StoredInv PROVE StoredInv'
  <2> SUFFICES ASSUME NEW t \in Tabs \ switched, Undoubted(tab[t]),
                      row'[tab[t].session.id] # "over"
               PROVE  UpToDate(tab[t], Heard(t)', net', prefs[tab[t].session.id],
                               feedback[tab[t].session.id])
    BY <1>1, Storing, Zenon
  <2>1. tab[t].session.id \in Sessions
    BY ShowingIsSettled, Zenon DEF Undoubted
  <2>2. row[tab[t].session.id] # "over"
    BY <2>1, SMT DEF FlowInv, TabsInv, TypeOK, Environment, Upgrade, LapseCookie, EndSession
  <2>3. Heard(t)' = Heard(t) /\ net' = net
    BY <1>1, Zenon DEF Heard
  <2> QED BY <1>9, <2>2, <2>3, Storing, Zenon
<1>10. AnswersAreKnown => AnswersAreKnown'
  BY <1>1, Zenon DEF AnswersAreKnown, Known
<1> QED BY <1>8, <1>9, <1>10 DEF StaysStored

\* A tab that has loaded is in order.
LEMMA Loading ==
    ASSUME NEW start \in Starts
    PROVE  LET v == Loaded(start)
           IN  /\ v \in Memories /\ ShownBelongs(v) /\ v.load.task = "none"
               /\ v.shown # NoShown => OneSession(v) /\ v.session.id = start.session
               /\ v.shown # NoShown => /\ start.session \in Sessions
                                       /\ Agrees(v.shown, start.prefs, start.feedback)
               /\ v.personal = NoResult
<1> DEFINE fresh == Mounted(1, 1)
           optedIn == start.session # NoSession
           ui == IF optedIn THEN "active" ELSE "stateless"
           session == IF optedIn THEN [id |-> start.session, version |-> 1] ELSE NoLifecycle
           shown == IF optedIn
                    THEN [session |-> start.session, prefs |-> start.prefs,
                          prefsOf |-> start.session, feedback |-> start.feedback,
                          feedbackOf |-> start.session]
                    ELSE NoShown
           v1 == [fresh EXCEPT !.busy = FALSE]
           v2 == [v1 EXCEPT !.ui = ui]
           v3 == [v2 EXCEPT !.session = session]
           v == [v3 EXCEPT !.shown = shown]
<1>1. /\ start.session \in Sessions \cup {NoSession} /\ start.prefs \in Prefs \cup {NoPrefs}
      /\ start.feedback \in Feedback
  BY StartsAssumption
<1>2. 1 \in Versions
  BY NamesAssumption, SMT DEF Versions
<1>3. fresh \in Memories /\ fresh.personal = NoResult /\ fresh.load = NoLoad
  BY <1>2, Blanks, SMT DEF Mounted, Memories, States
<1>4. Loaded(start) = v
  <2>1. Loaded(start) = [fresh EXCEPT !.busy = FALSE, !.ui = ui, !.session = session,
                                      !.shown = shown]
    BY Zenon DEF Loaded
  <2> HIDE DEF fresh, ui, session, shown
  <2> QED BY <2>1, <1>3, SMT DEF Memories
<1>5. ui \in States
  BY DEF States
<1>6. session \in [id : Sessions \cup {NoSession}, version : Versions \cup {0}]
  BY <1>1, <1>2, Blanks, SMT
<1>7. shown \in ShownProfiles
  BY <1>1, Blanks, SMT DEF ShownProfiles
<1>8. /\ IF ui = "active" THEN shown.session \in Sessions /\ shown.session = session.id
         ELSE shown = NoShown
      /\ shown # NoShown => /\ shown.prefsOf = shown.session /\ shown.feedbackOf = shown.session
                            /\ session.id = start.session
                            /\ start.session \in Sessions
                            /\ Agrees(shown, start.prefs, start.feedback)
  BY <1>1, SMT DEF Agrees
<1> HIDE DEF fresh, ui, session, shown
<1>9. v1 \in Memories
  BY <1>3, Setting, Zenon
<1>10. v2 \in Memories
  <2> HIDE DEF v1
  <2> QED BY <1>5, <1>9, Setting, Zenon
<1>11. v3 \in Memories
  <2> HIDE DEF v2
  <2> QED BY <1>6, <1>10, Setting, Zenon
<1>12. v \in Memories
  <2> HIDE DEF v3
  <2> QED BY <1>7, <1>11, Setting, Zenon
<1>13. /\ v.ui = ui /\ v.session = session /\ v.shown = shown
       /\ v.personal = NoResult /\ v.load = NoLoad
  BY <1>3, SMT DEF Memories
<1> HIDE DEF v
<1> QED BY <1>4, <1>8, <1>12, <1>13, Blanks, Zenon DEF ShownBelongs, OneSession

LEMMA InitEstablishes == Init => AloneInv
<1> SUFFICES ASSUME Init PROVE AloneInv
  OBVIOUS
<1>1. PICK start \in Starts : /\ ApiInit(start.session, start.prefs, start.feedback)
                              /\ tab = [t \in Tabs |-> Loaded(start)]
  BY Zenon DEF Init
<1>2. /\ start.session \in Sessions \cup {NoSession} /\ start.prefs \in Prefs \cup {NoPrefs}
      /\ start.feedback \in Feedback
  BY StartsAssumption
<1>3. net = {} /\ clicks \in Nat /\ lost \in Nat /\ switched \subseteq Tabs
  BY <1>1, SMT DEF Init, ApiInit
<1>4. LET v == Loaded(start)
      IN  /\ v \in Memories /\ ShownBelongs(v) /\ v.load.task = "none"
          /\ v.shown # NoShown => OneSession(v) /\ v.session.id = start.session
          /\ v.shown # NoShown => /\ start.session \in Sessions
                                  /\ Agrees(v.shown, start.prefs, start.feedback)
          /\ v.personal = NoResult
  BY Loading
<1>5. TypeOK
  <2>1. 1 \in Versions /\ NoFeedback \in Feedback
    BY NamesAssumption, SMT DEF Versions, NoFeedback, Feedback
  <2>2. tab \in [Tabs -> Memories]
    BY <1>1, <1>4, Zenon
  <2>3. /\ row \in [Sessions -> {"unused", "live", "over"}]
        /\ consent \in [Sessions -> Versions] /\ version \in Versions
        /\ prefs \in [Sessions -> Prefs \cup {NoPrefs}]
        /\ feedback \in [Sessions -> Feedback]
        /\ jar \in Sessions \cup {NoSession}
    BY <1>1, <1>2, <2>1, SMT DEF ApiInit
  <2> QED BY <1>3, <2>2, <2>3, Zenon DEF TypeOK
<1>6. ShownBelongsToActiveSession
  BY <1>1, <1>4, Zenon DEF ShownBelongsToActiveSession
<1>7. HandlersTakeTurns
  <2> SUFFICES ASSUME NEW t \in Tabs PROVE TakeTurns(tab[t], Heard(t))
    BY Zenon DEF HandlersTakeTurns
  <2>1. Heard(t) = {} /\ tab[t].load.task = "none"
    BY <1>1, <1>3, <1>4, Zenon DEF Heard
  <2> QED BY <2>1, Zenon DEF TakeTurns, LoadFits
<1>8. AnswersAreHonest
  BY <1>3, Zenon DEF AnswersAreHonest
<1>9. TabsFollowTheCookie
  <2>1. jar = start.session
    BY <1>1, Zenon DEF ApiInit
  <2>2. ASSUME NEW t \in Tabs PROVE Tied(tab[t], Heard(t), jar)
    <3>1. Heard(t) = {} /\ tab[t] = Loaded(start)
      BY <1>1, <1>3, Zenon DEF Heard
    <3> QED BY <1>4, <2>1, <3>1, Zenon DEF Tied
  <2> QED BY <2>2, Following, Zenon
<1>10. StoredInv
  <2>1. \A s \in Sessions : s = start.session => /\ prefs[s] = start.prefs
                                                 /\ feedback[s] = start.feedback
    BY <1>1, SMT DEF ApiInit
  <2> DEFINE w == Loaded(start)
             s == w.session.id
  <2> HIDE DEF w
  <2> SUFFICES ASSUME w.shown # NoShown
               PROVE  UpToDate(w, {}, {}, prefs[s], feedback[s])
    <3>1. ASSUME NEW t \in Tabs PROVE Heard(t) = {} /\ tab[t] = w /\ w.load.task = "none"
      BY <1>1, <1>3, <1>4, Zenon DEF Heard, w
    <3>2. ASSUME NEW t \in Tabs, Undoubted(tab[t])
          PROVE  UpToDate(tab[t], Heard(t), net, prefs[tab[t].session.id],
                          feedback[tab[t].session.id])
      BY <1>3, <3>1, <3>2, Zenon DEF Undoubted
    <3> QED BY <3>2, Storing, Zenon
  <2>2. /\ Agrees(w.shown, prefs[s], feedback[s]) /\ w.personal = NoResult
        /\ w.load.task = "none"
    BY <1>4, <2>1, Zenon DEF w
  <2> QED BY <2>2, Zenon DEF UpToDate, Changing, WasTold, ShowsOrWillHear, Agrees
<1>11. AnswersAreKnown
  BY <1>3, Zenon DEF AnswersAreKnown
<1> QED BY <1>5, <1>6, <1>7, <1>8, <1>9, <1>10, <1>11 DEF FlowInv, TabsInv, AloneInv

LEMMA ReceiveKeeps == ASSUME FlowInv, Receive PROVE FlowInv' /\ StaysStored
<1>1. PICK c \in net : /\ c.stage # "detached"
                       /\ \E reply \in Outcomes(c) :
                             \/ BootstrapAnswered(c, reply)   \/ RehydrateAnswered(c, reply)
                             \/ ConsentAnswered(c, reply)     \/ ClearAnswered(c, reply)
                             \/ PreferencesAnswered(c, reply) \/ GenerationAnswered(c, reply)
                             \/ FeedbackAnswered(c, reply)    \/ RefreshAnswered(c, reply)
                             \/ LateAnswer(c, reply)
  BY Zenon DEF Receive
<1>2. PICK reply \in Outcomes(c) :
         \/ BootstrapAnswered(c, reply)   \/ RehydrateAnswered(c, reply)
         \/ ConsentAnswered(c, reply)     \/ ClearAnswered(c, reply)
         \/ PreferencesAnswered(c, reply) \/ GenerationAnswered(c, reply)
         \/ FeedbackAnswered(c, reply)    \/ RefreshAnswered(c, reply)
         \/ LateAnswer(c, reply)
  BY <1>1
<1>3. c.stage # "detached"
  BY <1>1
<1>4. CASE BootstrapAnswered(c, reply)    BY <1>3, <1>4, BootstrapKeeps
<1>5. CASE RehydrateAnswered(c, reply)    BY <1>3, <1>5, RehydrateKeeps
<1>6. CASE ConsentAnswered(c, reply)      BY <1>3, <1>6, ConsentKeeps
<1>7. CASE ClearAnswered(c, reply)        BY <1>3, <1>7, ClearKeeps
<1>8. CASE PreferencesAnswered(c, reply)  BY <1>3, <1>8, PreferencesKeep
<1>9. CASE GenerationAnswered(c, reply)   BY <1>3, <1>9, GenerationKeeps
<1>10. CASE FeedbackAnswered(c, reply)    BY <1>3, <1>10, FeedbackKeeps
<1>11. CASE RefreshAnswered(c, reply)     BY <1>3, <1>11, RefreshKeeps
<1>12. CASE LateAnswer(c, reply)          BY <1>3, <1>12, LateKeeps
<1> QED BY <1>2, <1>4, <1>5, <1>6, <1>7, <1>8, <1>9, <1>10, <1>11, <1>12

LEMMA UserKeeps == ASSUME FlowInv, User PROVE FlowInv' /\ StaysStored
<1>1. PICK t \in Tabs : \/ Retry(t) \/ Reload(t) \/ Enable(t) \/ Continue(t) \/ Clear(t)
                        \/ SavePreferences(t) \/ ClearPreferences(t) \/ Generate(t)
                        \/ SaveFeedback(t) \/ ClearFeedback(t)
  BY Zenon DEF User
<1>2. CASE Retry(t)             BY <1>2, RetryKeeps
<1>3. CASE Reload(t)            BY <1>3, ReloadKeeps
<1>4. CASE Enable(t)            BY <1>4, EnableKeeps
<1>5. CASE Continue(t)          BY <1>5, ContinueKeeps
<1>6. CASE Clear(t)             BY <1>6, ClearingKeeps
<1>7. CASE SavePreferences(t)   BY <1>7, SavePreferencesKeeps
<1>8. CASE ClearPreferences(t)  BY <1>8, ClearPreferencesKeeps
<1>9. CASE Generate(t)          BY <1>9, GenerateKeeps
<1>10. CASE SaveFeedback(t)     BY <1>10, SaveFeedbackKeeps
<1>11. CASE ClearFeedback(t)    BY <1>11, ClearFeedbackKeeps
<1> QED BY <1>1, <1>2, <1>3, <1>4, <1>5, <1>6, <1>7, <1>8, <1>9, <1>10, <1>11

LEMMA NextKeeps == FlowInv /\ [Next]_vars => FlowInv'
<1> SUFFICES ASSUME FlowInv, [Next]_vars PROVE FlowInv'
  OBVIOUS
<1>1. CASE User
  BY <1>1, UserKeeps
<1>2. CASE Receive
  BY <1>2, ReceiveKeeps
<1>3. CASE Handle
  <2>1. PICK c \in net : Serve(c)
    BY <1>3 DEF Handle
  <2> QED BY <1>3, <2>1, HandleKeeps DEF Handle
<1>4. CASE Environment
  BY <1>4, EnvironmentKeeps
<1>5. CASE UNCHANGED vars
  <2>1. UNCHANGED <<row, consent, prefs, feedback, version, jar, net, tab, clicks, lost, switched>>
    BY <1>5
  <2>2. TypeOK'
    BY <2>1, Zenon DEF FlowInv, TabsInv, TypeOK
  <2>3. ShownBelongsToActiveSession'
    BY <2>1, Zenon DEF FlowInv, TabsInv, ShownBelongsToActiveSession, ShownBelongs
  <2>4. AnswersAreHonest'
    BY <2>1, Zenon DEF FlowInv, TabsInv, AnswersAreHonest, Honest
  <2>5. HandlersTakeTurns'
    <3> SUFFICES ASSUME NEW t \in Tabs PROVE TakeTurns(tab[t], Heard(t))'
      BY Zenon DEF HandlersTakeTurns
    <3>1. TakeTurns(tab[t], Heard(t))
      BY Zenon DEF FlowInv, TabsInv, HandlersTakeTurns
    <3>2. tab'[t] = tab[t] /\ Heard(t)' = Heard(t)
      BY <2>1, Zenon DEF Heard
    <3> QED BY <3>1, <3>2, Zenon
  <2>6. TabsFollowTheCookie'
    <3>1. ASSUME NEW t \in Tabs \ switched' PROVE Tied(tab'[t], Heard(t)', jar')
      <4>1. Tied(tab[t], Heard(t), jar)
        BY <2>1, Following, Zenon DEF FlowInv
      <4>2. tab'[t] = tab[t] /\ Heard(t)' \subseteq Heard(t) /\ jar' \in {jar, NoSession}
        BY <2>1, Zenon DEF Heard
      <4> QED BY <4>1, <4>2, StaysTied, Zenon
    <3> QED BY <3>1, Following
  <2> QED BY <2>2, <2>3, <2>4, <2>5, <2>6 DEF FlowInv, TabsInv
<1> QED BY <1>1, <1>2, <1>3, <1>4, <1>5 DEF Next

\* In any number of tabs, over any number of sessions, clicks, redeployments and lost
\* answers: a tab is active exactly while it shows a saved profile, of the session it
\* names, recommendations on display were made for that session, its handlers never wait
\* at once (isMutationPending and requestEpoch of the component), every answer in flight is
\* the server's word for the session of the cookie, and until the browser gets another
\* cookie behind its back a tab follows the one of the session it loads or shows.
THEOREM FlowInvHolds == Spec => []FlowInv
<1>1. Init => FlowInv
  BY InitEstablishes DEF AloneInv
<1>2. FlowInv /\ [Next]_vars => FlowInv'
  BY NextKeeps
<1> QED BY <1>1, <1>2, PTL DEF Spec

\* The preferences and the feedback that a tab shows as one saved profile (rehydrate,
\* savePreferences and refreshFeedback put them there from separate answers) are of the
\* session it names, in any number of tabs and whatever ends, is cleared or gets lost,
\* until the browser gets another cookie behind the tab's back.
THEOREM OneSessionIsShown == Spec => []OneSessionShown
<1>1. FlowInv => OneSessionShown
  BY Zenon DEF FlowInv, TabsFollowTheCookie, FollowsTheCookie, OneSessionShown
<1> QED BY <1>1, FlowInvHolds, PTL

LEMMA AloneKeeps == OneTab /\ AloneInv /\ [Next]_vars => AloneInv'
<1> SUFFICES ASSUME OneTab, AloneInv, [Next]_vars PROVE AloneInv'
  OBVIOUS
<1>0. FlowInv /\ AnswersAreKnown /\ StoredInv /\ FlowInv'
  BY NextKeeps DEF AloneInv
<1> SUFFICES AnswersAreKnown' /\ StoredInv'
  BY <1>0 DEF AloneInv
<1>1. CASE User
  BY <1>0, <1>1, UserKeeps DEF StaysStored
<1>2. CASE Receive
  BY <1>0, <1>2, ReceiveKeeps DEF StaysStored
<1>3. CASE Handle
  <2>1. PICK c \in net : Serve(c)
    BY <1>3 DEF Handle
  <2> QED BY <1>3, <2>1, HandleStores DEF Handle
<1>4. CASE Environment
  BY <1>0, <1>4, EnvironmentKeeps DEF StaysStored
<1>5. CASE UNCHANGED vars
  <2>1. UNCHANGED <<row, prefs, feedback, net, tab, switched>>
    BY <1>5
  <2>2. AnswersAreKnown'
    BY <1>0, <2>1, Zenon DEF AnswersAreKnown, Known
  <2>3. \A t : Heard(t)' = Heard(t)
    BY <2>1, Zenon DEF Heard
  <2>4. StoredInv'
    BY <1>0, <2>1, <2>3, Storing, Zenon
  <2> QED BY <2>2, <2>4
<1> QED BY <1>1, <1>2, <1>3, <1>4, <1>5 DEF Next

\* In the only tab of a browser (savePreferences, persistFeedback, clearFeedback, generate
\* and rehydrate of the component against update_preferences and the feedback services):
\* when nothing is on its way, the preferences and the feedback that the tab shows are the
\* ones that are saved, and the recommendations on display were made from them, whatever
\* was refused, lost, served late or handled out of order, unless a change failed with an
\* unknown outcome since the last load or the cookie was replaced behind the tab's back.
THEOREM StoredIsShown == ASSUME OneTab PROVE Spec => []ShownIsStored
<1>1. Init => AloneInv
  BY InitEstablishes
<1>2. AloneInv /\ [Next]_vars => AloneInv'
  BY AloneKeeps
<1>3. AloneInv => ShownIsStored
  <2> SUFFICES ASSUME AloneInv, NEW t \in Tabs \ switched, tab[t].shown # NoShown,
                      ~tab[t].doubt, row[tab[t].session.id] = "live", \A c \in net : c.tab # t
               PROVE  LET w == tab[t]
                          p == prefs[w.session.id]
                          f == feedback[w.session.id]
                      IN  /\ w.shown.prefs = p /\ w.shown.feedback = f
                          /\ w.personal # NoResult =>
                               w.personal.prefs = p /\ w.personal.feedback = f
    BY Zenon DEF ShownIsStored
  <2>1. Heard(t) = {}
    BY Zenon DEF Heard
  <2>2. UpToDate(tab[t], Heard(t), net, prefs[tab[t].session.id], feedback[tab[t].session.id])
    BY Storing, SMT DEF AloneInv, Undoubted
  <2> QED BY <2>1, <2>2, Zenon DEF UpToDate, ShowsOrWillHear
<1> QED BY <1>1, <1>2, <1>3, PTL DEF Spec

-----------------------------------------------------------------------------
(* What a step may change on the server. *)

\* Neither a click nor an answer changes anything there.
LEMMA ClientsOnlyCall == ASSUME User \/ Receive PROVE UNCHANGED server
<1>1. \A t, w, calls : Click(t, w, calls) => UNCHANGED server
  BY Zenon DEF Click
<1>2. \A c, reply, w, calls : Settle(c, reply, w, calls) => UNCHANGED server
  BY Zenon DEF Settle
<1>3. CASE User
  <2>1. PICK t \in Tabs : \/ Retry(t) \/ Reload(t) \/ Enable(t) \/ Continue(t) \/ Clear(t)
                          \/ SavePreferences(t) \/ ClearPreferences(t) \/ Generate(t)
                          \/ SaveFeedback(t) \/ ClearFeedback(t)
    BY <1>3, Zenon DEF User
  <2>2. \E w, calls : Click(t, w, calls)
    <3>1. CASE Retry(t)             BY <3>1, Zenon DEF Retry
    <3>2. CASE Reload(t)            BY <3>2, Zenon DEF Reload
    <3>3. CASE Enable(t)            BY <3>3, Zenon DEF Enable
    <3>4. CASE Continue(t)          BY <3>4, Zenon DEF Continue
    <3>5. CASE Clear(t)             BY <3>5, Zenon DEF Clear
    <3>6. CASE SavePreferences(t)   BY <3>6, Zenon DEF SavePreferences
    <3>7. CASE ClearPreferences(t)  BY <3>7, Zenon DEF ClearPreferences
    <3>8. CASE Generate(t)          BY <3>8, Zenon DEF Generate
    <3>9. CASE SaveFeedback(t)      BY <3>9, Zenon DEF SaveFeedback
    <3>10. CASE ClearFeedback(t)    BY <3>10, Zenon DEF ClearFeedback
    <3> QED BY <2>1, <3>1, <3>2, <3>3, <3>4, <3>5, <3>6, <3>7, <3>8, <3>9, <3>10
  <2> QED BY <1>1, <2>2, Zenon
<1>4. CASE Receive
  <2>1. PICK c, reply :
           \/ BootstrapAnswered(c, reply)   \/ RehydrateAnswered(c, reply)
           \/ ConsentAnswered(c, reply)     \/ ClearAnswered(c, reply)
           \/ PreferencesAnswered(c, reply) \/ GenerationAnswered(c, reply)
           \/ FeedbackAnswered(c, reply)    \/ RefreshAnswered(c, reply)
           \/ LateAnswer(c, reply)
    BY <1>4, Zenon DEF Receive
  <2>2. CASE BootstrapAnswered(c, reply)    BY <1>2, <2>2, Zenon DEF BootstrapAnswered
  <2>3. CASE RehydrateAnswered(c, reply)    BY <1>2, <2>3, Zenon DEF RehydrateAnswered
  <2>4. CASE ConsentAnswered(c, reply)      BY <1>2, <2>4, Zenon DEF ConsentAnswered
  <2>5. CASE ClearAnswered(c, reply)        BY <1>2, <2>5, Zenon DEF ClearAnswered
  <2>6. CASE PreferencesAnswered(c, reply)  BY <1>2, <2>6, Zenon DEF PreferencesAnswered
  <2>7. CASE GenerationAnswered(c, reply)   BY <1>2, <2>7, Zenon DEF GenerationAnswered
  <2>8. CASE FeedbackAnswered(c, reply)     BY <1>2, <2>8, Zenon DEF FeedbackAnswered
  <2>9. CASE RefreshAnswered(c, reply)      BY <1>2, <2>9, Zenon DEF RefreshAnswered
  <2>10. CASE LateAnswer(c, reply)          BY <1>2, <2>10, Zenon DEF LateAnswer
  <2> QED BY <2>1, <2>2, <2>3, <2>4, <2>5, <2>6, <2>7, <2>8, <2>9, <2>10
<1> QED BY <1>3, <1>4

\* Only a call that is let through changes the rows of the server, and it is answered in
\* the same step.
LEMMA OnlyEffectsChange ==
    ASSUME FlowInv, [Next]_vars,
           ~(UNCHANGED <<prefs, feedback, consent>>
             /\ \A s \in Sessions : row[s] = "unused" => row'[s] # "live")
    PROVE  \E c \in net \ net' : c.stage # "served" /\ "ok" \in Verdicts(c) /\ Effect(c)
<1>1. \A s : row[s] = "unused" => row[s] # "live"
  OBVIOUS
<1>2. ~ UNCHANGED <<row, prefs, feedback, consent>>
  BY <1>1, Zenon
<1>3. ~ UNCHANGED vars /\ ~ UNCHANGED server
  BY <1>2
<1>4. ~Environment
  <2> SUFFICES ASSUME Environment PROVE FALSE
    OBVIOUS
  <2>1. UNCHANGED <<prefs, feedback, consent>>
    BY SMT DEF Environment, Upgrade, LapseCookie, EndSession
  <2>2. \A s \in Sessions : row[s] = "unused" => row'[s] # "live"
    BY SMT DEF FlowInv, TabsInv, TypeOK, Environment, Upgrade, LapseCookie, EndSession
  <2> QED BY <2>1, <2>2
<1>5. Handle
  BY <1>3, <1>4, ClientsOnlyCall DEF Next
<1>6. PICK c \in net : Serve(c)
  BY <1>5 DEF Handle
<1>7. c.stage # "served" /\ UNCHANGED version /\ "ok" \in Verdicts(c) /\ Effect(c)
  BY <1>2, <1>6, Zenon DEF Serve
<1>8. PICK reply \in Replies : AnswerWith(c, reply)
  BY <1>7, EffectAnswers, Zenon DEF FlowInv, TabsInv, Answered
<1>9. c \notin net'
  <2> DEFINE d == [c EXCEPT !.stage = "served", !.reply = reply]
  <2>1. c \in CallRecords
    BY Zenon DEF FlowInv, TabsInv, TypeOK
  <2>2. d.stage = "served"
    BY <2>1, SMT DEF CallRecords
  <2>3. net' \subseteq (net \ {c}) \cup {d}
    BY <1>8, Zenon DEF AnswerWith
  <2> HIDE DEF d
  <2> QED BY <1>7, <2>2, <2>3, Zenon
<1> QED BY <1>7, <1>9

\* What an effect changes: data only of the session of the cookie and with a protected
\* call, the consent and a session to life only by opting in.
LEMMA WhatEffectsChange ==
    ASSUME FlowInv, NEW c \in net, Effect(c), NEW s \in Sessions
    PROVE  /\ prefs'[s] # prefs[s] \/ feedback'[s] # feedback[s] =>
                 c.op \in Protected /\ c.cookie = s
           /\ consent'[s] # consent[s] \/ (row[s] = "unused" /\ row'[s] = "live") =>
                 c.op = "create" /\ consent'[s] = version
<1>1. ServerTypeOK
  BY Zenon DEF FlowInv, TabsInv, TypeOK, ServerTypeOK
<1>2. CASE c.op = "create" /\ CreateSession(c)
  <2>1. PICK n \in Sessions : /\ row' = [row EXCEPT ![n] = "live"]
                              /\ consent' = [consent EXCEPT ![n] = version]
                              /\ UNCHANGED <<prefs, feedback>>
    BY <1>2, Zenon DEF CreateSession
  <2> QED BY <1>1, <1>2, <2>1, SMT DEF ServerTypeOK
<1>3. CASE c.op = "create" /\ Reconsent(c)
  BY <1>1, <1>3, SMT DEF ServerTypeOK, Reconsent
<1>4. CASE c.op = "delete" /\ DeleteSession(c)
  BY <1>1, <1>4, SMT DEF ServerTypeOK, DeleteSession, Protected
<1>5. CASE c.op \in {"putPrefs", "clearPrefs"} /\ SetPreferences(c)
  BY <1>1, <1>5, SMT DEF ServerTypeOK, SetPreferences, Protected
<1>6. CASE c.op \in {"putFeedback", "clearFeedback"} /\ SetFeedback(c)
  <2>1. UNCHANGED <<row, consent, prefs>> /\ (feedback'[s] # feedback[s] => c.cookie = s)
    <3>1. s # c.cookie => feedback'[s] = feedback[s]
      BY <1>1, <1>6, SMT DEF ServerTypeOK, SetFeedback
    <3> QED BY <1>6, <3>1 DEF SetFeedback
  <2> QED BY <1>6, <2>1, SMT DEF Protected
<1>7. CASE c.op \in {"me", "getPrefs", "listFeedback", "recommend"} /\ Read(c)
  BY <1>7, SMT DEF Read
<1> QED BY <1>2, <1>3, <1>4, <1>5, <1>6, <1>7 DEF Effect

\* The saved preferences and feedback of a session change only by a call that carries its
\* CSRF token (_protected_credential): an effect touches the row of the cookie alone, and
\* the cookie agreed with the token when the call was let through.
THEOREM SpecChangesAreSigned == Spec => ChangesAreSigned
<1> DEFINE Signed_(s) == prefs'[s] # prefs[s] \/ feedback'[s] # feedback[s] =>
                           \E c \in net \ net' : c.stage # "served" /\ c.csrf = s
<1>1. ASSUME FlowInv, [Next]_vars, NEW s \in Sessions PROVE Signed_(s)
  <2> SUFFICES ASSUME prefs'[s] # prefs[s] \/ feedback'[s] # feedback[s]
               PROVE  \E c \in net \ net' : c.stage # "served" /\ c.csrf = s
    OBVIOUS
  <2>1. PICK c \in net \ net' : c.stage # "served" /\ "ok" \in Verdicts(c) /\ Effect(c)
    BY <1>1, OnlyEffectsChange
  <2>2. c.op \in Protected => c.csrf = c.cookie
    BY <1>1, <2>1, LetThrough, Zenon
  <2>3. c.op \in Protected /\ c.cookie = s
    BY <1>1, <2>1, WhatEffectsChange
  <2> QED BY <2>1, <2>2, <2>3
<1>2. FlowInv /\ [Next]_vars => [\A s \in Sessions : Signed_(s)]_vars
  BY <1>1
<1> QED BY <1>2, FlowInvHolds, PTL DEF Spec, ChangesAreSigned

\* Consent is recorded, or a session comes to life, only for a page that showed the notice
\* of the version that is recorded (create_or_reconsent).
THEOREM SpecConsentIsInformed == Spec => ConsentIsInformed
<1> DEFINE Informed(s) ==
      consent'[s] # consent[s] \/ (row[s] = "unused" /\ row'[s] = "live") =>
          \E c \in net \ net' : c.op = "create" /\ c.version = consent'[s]
<1>1. ASSUME FlowInv, [Next]_vars, NEW s \in Sessions PROVE Informed(s)
  <2> SUFFICES ASSUME consent'[s] # consent[s] \/ (row[s] = "unused" /\ row'[s] = "live")
               PROVE  \E c \in net \ net' : c.op = "create" /\ c.version = consent'[s]
    OBVIOUS
  <2>1. PICK c \in net \ net' : "ok" \in Verdicts(c) /\ Effect(c)
    BY <1>1, OnlyEffectsChange
  <2>2. c.op = "create" => c.version = version
    BY <1>1, <2>1, LetThrough, Zenon
  <2>3. c.op = "create" /\ consent'[s] = version
    BY <1>1, <2>1, WhatEffectsChange
  <2> QED BY <2>2, <2>3
<1>2. FlowInv /\ [Next]_vars => [\A s \in Sessions : Informed(s)]_vars
  BY <1>1
<1> QED BY <1>2, FlowInvHolds, PTL DEF Spec, ConsentIsInformed
=============================================================================
