---------------------------- MODULE MCRetention ----------------------------
(***************************************************************************)
(* Instances of Retention for TLC.                                         *)
(***************************************************************************)
EXTENDS Retention, TLC

CONSTANTS rpg

Row(consent, expires) == [state |-> "live", consent |-> consent, expires |-> expires,
                          revoked |-> FALSE, xmin |-> 1]
Legacy  == [state |-> "live", consent |-> "null", expires |-> Null,
            revoked |-> TRUE, xmin |-> 1]

Purge(at, revoked) == [kind |-> "purge", events |-> at, expired |-> at, revoked |-> revoked,
                       created |-> Null]
Revoke(at) == [kind |-> "revoke", events |-> Null, expired |-> Null, revoked |-> Null,
               created |-> at]

MCSlugs  == {rpg}
MCPrefs  == {{rpg}}

\* Sessions that are over, that a request can use, and that only a purge can.
SomeRows   == {NoRow, Row("current", 2), Row("outdated", 3), Legacy}

\* The clock is 1 at first: a purge up to the last time, one that leaves what expired after
\* its cutoff, and a revocation.
RaceJobs == {Purge(2, 1), Purge(1, 2), Revoke(1)}

=============================================================================
