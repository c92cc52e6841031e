---------------------------- MODULE ProfileAtomic ----------------------------
(***************************************************************************)
(* What the profile endpoints promise, without transactions: a request     *)
(* asks for something, and at one moment it is carried out on the state of *)
(* that moment and answered, or it is answered with a failure and changes  *)
(* nothing.  Only a lost acknowledgement separates effect and answer.      *)
(* Feedback is what is active for a game; its history is not visible here. *)
(***************************************************************************)
CONSTANTS Users, Requests, Games, Slugs, ContentSlugs, PreferenceBodies, StateTypes, Values,
          Ops, Answers, NoUser, NoGame, NoCall

VARIABLES sessions, saved, feedback, generations, asked, answer

vars == <<sessions, saved, feedback, generations, asked, answer>>

Session == [state : {"none", "live", "gone"},
            consent : {"null", "outdated", "current"}, revoked : BOOLEAN]

Call == [op : Ops, user : Users \cup {NoUser}, game : Games \cup {NoGame},
         desired : SUBSET (StateTypes \X Values), slugs : SUBSET Slugs]

Init == /\ sessions \in [Users -> Session]
        /\ saved \in [Users -> PreferenceBodies \cup {{}}]
        /\ feedback = [u \in Users |-> [g \in Games |-> {}]]
        /\ generations = {}
        /\ asked = [r \in Requests |-> NoCall]
        /\ answer = [r \in Requests |-> "none"]

\* A session that can be used, and one whose owner has agreed to the current terms.
Known(u)  == sessions[u].state = "live" /\ ~sessions[u].revoked
Agreed(u) == Known(u) /\ sessions[u].consent = "current"

PutFeedback(c) == /\ c.op = "feedback" /\ Agreed(c.user)
                  /\ feedback' = [feedback EXCEPT ![c.user][c.game] = c.desired]
                  /\ UNCHANGED <<sessions, saved, generations>>

PutPreferences(c) == /\ c.op = "preferences" /\ Agreed(c.user)
                     /\ saved' = [saved EXCEPT ![c.user] = c.slugs]
                     /\ UNCHANGED <<sessions, feedback, generations>>

Generate(r, c) == /\ c.op = "generate" /\ Agreed(c.user)
                  /\ saved[c.user] \cap ContentSlugs # {}
                  /\ generations' = generations \cup
                        {[generation |-> r, user |-> c.user, slugs |-> saved[c.user],
                          feedback |-> feedback[c.user]]}
                  /\ UNCHANGED <<sessions, saved, feedback>>

Delete(c) == /\ c.op = "delete" /\ Known(c.user)
             /\ sessions' = [sessions EXCEPT ![c.user] =
                    [state |-> "gone", consent |-> "null", revoked |-> FALSE]]
             /\ saved' = [saved EXCEPT ![c.user] = {}]
             /\ feedback' = [feedback EXCEPT ![c.user] = [g \in Games |-> {}]]
             /\ generations' = {e \in generations : e.user # c.user}

Consent(c) == /\ c.op = "consent" /\ Known(c.user)
              /\ sessions' = [sessions EXCEPT ![c.user].consent = "current"]
              /\ UNCHANGED <<saved, feedback, generations>>

\* A new identity starts with nothing.
Create(c) == /\ c.op = "create"
             /\ \E u \in Users :
                  /\ sessions[u].state = "none" /\ saved[u] = {}
                  /\ feedback[u] = [g \in Games |-> {}]
                  /\ sessions' = [sessions EXCEPT ![u] =
                        [state |-> "live", consent |-> "current", revoked |-> FALSE]]
             /\ UNCHANGED <<saved, feedback, generations>>

Effect(r) == \/ PutFeedback(asked[r]) \/ PutPreferences(asked[r]) \/ Generate(r, asked[r])
             \/ Delete(asked[r]) \/ Consent(asked[r]) \/ Create(asked[r])

Reply(r, a) == /\ answer[r] = "none"
               /\ answer' = [answer EXCEPT ![r] = a]
               /\ UNCHANGED asked

Ask(r) == /\ asked[r] = NoCall /\ answer[r] = "none"
          /\ asked'[r] \in Call
          /\ asked' = [asked EXCEPT ![r] = asked'[r]]
          /\ UNCHANGED <<sessions, saved, feedback, generations, answer>>

Serve(r) == Effect(r) /\ Reply(r, "ok")

\* The effect without the acknowledgement; a generation says so.
Lose(r) == Effect(r) /\ Reply(r, IF asked[r].op = "generate"
                                 THEN "outcome_unknown" ELSE "unavailable")

Fail(r) == /\ \E a \in Answers \ {"ok"} : Reply(r, a)
           /\ UNCHANGED <<sessions, saved, feedback, generations>>

Next == \E r \in Requests : Ask(r) \/ Serve(r) \/ Lose(r) \/ Fail(r)

Spec == Init /\ [][Next]_vars
=============================================================================
