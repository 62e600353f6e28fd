---------------------------- MODULE EnrolExchange ----------------------------
(***************************************************************************)
(* How a device gets its key registered: the client's enrolment (enroll.py)*)
(* walks the rungs of the connection ladder and posts the token of its     *)
(* profile; the server's listener (enroll_server.py) spends the token and  *)
(* registers the key, each request on a thread of its own, one redemption  *)
(* at a time.                                                              *)
(*                                                                         *)
(* One reserved client and its token are modelled, and several devices     *)
(* with a copy of the profile.  Keys are numbered in the order in which    *)
(* they are generated.  What the administrator does to the registry at the *)
(* same time in other processes is module ClientRegistry's; here it is one *)
(* step.  Of the two limiters only the one per token is kept: with a single*)
(* token the global one, which allows more, never acts first.              *)
(***************************************************************************)
EXTENDS Naturals, FiniteSets

CONSTANTS
    Devices,                    \* that hold a copy of the profile, by number
    ExRungs,                    \* rungs of the ladder that dial its endpoint
    MaxStrikes,                 \* token_limiter's max_failures
    MaxImports, MaxServerKills  \* bounds

ASSUME EnrolExchangeAssumption ==
    /\ Devices \subseteq Nat /\ {ExRungs, MaxStrikes} \subseteq Nat \ {0}
    /\ {MaxImports, MaxServerKills} \subseteq Nat

VARIABLES
    exDevice,  \* enroll() on each device: where it is, its rung and its key
    exPost,    \* requests under way and answers not yet heard: records [dev, rung, key, at]
    exToken,   \* the token: "fresh", "used" or "gone"
    exSlot,    \* the client's row: its state and its public key, 0 for none
    exBusy,    \* is enroll_lock held?
    exStrikes, exBarred, \* token_limiter
    exMishap,  \* history: a lost or late answer, a failed write, a kill
    exImports, exKills   \* what the bounds count

exServer == <<exToken, exSlot, exBusy, exStrikes, exBarred>>
exVars == <<exDevice, exPost, exServer, exMishap, exImports, exKills>>

ExInit ==
    /\ exDevice = [d \in Devices |-> [at |-> "idle", rung |-> 0, key |-> 0]]
    /\ exPost = {} /\ exToken = "fresh" /\ exSlot \in [state : {"active", "disabled"}, key : {0}]
    /\ exBusy = FALSE /\ exStrikes = 0 /\ exBarred = FALSE
    /\ exMishap = FALSE /\ exImports = 0 /\ exKills = 0

-----------------------------------------------------------------------------
(* The client.                                                             *)

DeviceTo(d, label) == exDevice' = [exDevice EXCEPT ![d].at = label]

\* enroll: a profile with a token and no key; the pair is generated once.
ImportProfile(d) ==
    /\ \/ exDevice[d].at = "failed"
       \/ exDevice[d].at = "idle" /\ \A e \in Devices : e < d => exDevice[e].at # "idle"
    /\ exImports < MaxImports /\ exImports' = exImports + 1
    /\ exDevice' = [exDevice EXCEPT ![d] = [at |-> "dial", rung |-> 1, key |-> exImports + 1]]
    /\ UNCHANGED <<exPost, exServer, exMishap, exKills>>

\* The next rung, or none is left.
ExNextRung(d) ==
    exDevice' = IF exDevice[d].rung < ExRungs
                THEN [exDevice EXCEPT ![d].at = "dial", ![d].rung = @ + 1]
                ELSE [exDevice EXCEPT ![d].at = "failed"]

\* _verify_endpoint, _open_forward: the rung does not carry, or another server
\* answers and nothing more is tried.
DialFails(d) ==
    /\ exDevice[d].at = "dial"
    /\ ExNextRung(d) \/ DeviceTo(d, "failed")
    /\ UNCHANGED <<exPost, exServer, exMishap, exImports, exKills>>

PostToken(d) ==
    /\ exDevice[d].at = "dial" /\ DeviceTo(d, "await")
    /\ exPost' = exPost \cup {[dev |-> d, rung |-> exDevice[d].rung, key |-> exDevice[d].key,
                               at |-> "sent"]}
    /\ UNCHANGED <<exServer, exMishap, exImports, exKills>>

Awaits(d, r) ==
    /\ exDevice[d].at = "await" /\ r.dev = d
    /\ r.key = exDevice[d].key /\ r.rung = exDevice[d].rung
PostTo(r, label) == exPost' = (exPost \ {r}) \cup {[r EXCEPT !.at = label]}

\* An answer to a connection that the device has closed reaches nobody.
AnswerTo(r, label) ==
    exPost' = (exPost \ {r}) \cup
              {[p EXCEPT !.at = label] : p \in {q \in {r} : Awaits(q.dev, q)}}

\* Mutant of HearAnswer: any answer of the server ends the wait for one.
HearAnything(d) ==
    /\ \E r \in exPost :
          /\ Awaits(d, r) /\ r.at \in {"ok", "refused"} /\ DeviceTo(d, "save")
          /\ exPost' = exPost \ {r}
    /\ UNCHANGED <<exServer, exMishap, exImports, exKills>>

\* _post: the server has answered.  A refusal ends the enrolment.
HearAnswer(d) ==
    /\ \E r \in exPost :
          /\ Awaits(d, r)
          /\ \/ r.at = "ok" /\ DeviceTo(d, "save")
             \/ r.at = "refused" /\ DeviceTo(d, "failed")
          /\ exPost' = exPost \ {r}
    /\ UNCHANGED <<exServer, exMishap, exImports, exKills>>

\* _post: no answer in twenty seconds, or a connection that breaks.  The same
\* token and key are posted on the next rung; the server may still be busy with
\* the first request.
GiveUpWaiting(d) ==
    /\ exDevice[d].at = "await" /\ ExNextRung(d)
    /\ exPost' = {r \in exPost : ~(Awaits(d, r) /\ r.at \in {"ok", "refused"})}
    /\ exMishap' = TRUE
    /\ UNCHANGED <<exServer, exImports, exKills>>

\* enroll_and_save.
SaveProfile(d) ==
    /\ exDevice[d].at = "save"
    /\ \/ DeviceTo(d, "enrolled") /\ UNCHANGED exMishap
       \/ DeviceTo(d, "failed") /\ exMishap' = TRUE
    /\ UNCHANGED <<exPost, exServer, exImports, exKills>>

-----------------------------------------------------------------------------
(* The server.                                                             *)

\* do_POST, up to the wait for enroll_lock.
ReceivePost(r) ==
    /\ r.at = "sent" /\ (IF exBarred THEN AnswerTo(r, "refused") ELSE PostTo(r, "queued"))
    /\ UNCHANGED <<exDevice, exServer, exMishap, exImports, exKills>>

\* _redeem, enrollment.redeem: the token is marked used, and that is saved,
\* before anything is registered.
SpendToken(r) ==
    /\ r.at = "queued" /\ ~exBusy /\ exToken = "fresh"
    /\ exToken' = "used" /\ exBusy' = TRUE /\ PostTo(r, "spent")
    /\ UNCHANGED <<exDevice, exSlot, exStrikes, exBarred, exMishap, exImports, exKills>>

\* A token that is used, has expired or was dropped: a failure is registered,
\* and the last one allowed bars the token and starts the count again.
RefuseToken(r) ==
    /\ r.at = "queued" /\ ~exBusy /\ exToken # "fresh"
    /\ exStrikes' = IF exStrikes + 1 < MaxStrikes THEN exStrikes + 1 ELSE 0
    /\ exBarred' = (exBarred \/ exStrikes' = 0)
    /\ AnswerTo(r, "refused")
    /\ UNCHANGED <<exDevice, exToken, exSlot, exBusy, exMishap, exImports, exKills>>

\* Mutant of MayEnrol: a disabled slot does not enrol.
MayEnrolActive == exSlot.state = "active" /\ exSlot.key = 0

\* A slot still enrols while it is disabled.
MayEnrol == exSlot.state # "revoked" /\ exSlot.key = 0

\* complete_enrollment: the row gets its key, or it is revoked or has one (409).
\* The answer is given whatever the callback of the manager does.
CompleteEnrolment(r) ==
    /\ r.at = "spent" /\ exBusy' = FALSE
    /\ IF MayEnrol
       THEN /\ exSlot' = [exSlot EXCEPT !.key = r.key] /\ AnswerTo(r, "ok")
            /\ exStrikes' = 0 /\ exBarred' = FALSE
       ELSE AnswerTo(r, "refused") /\ UNCHANGED <<exSlot, exStrikes, exBarred>>
    /\ UNCHANGED <<exDevice, exToken, exMishap, exImports, exKills>>

\* The configuration cannot be read, or not be written once the row has its
\* key: the client is told 500, and the token stays spent.
BreakEnrolment(r) ==
    /\ r.at = "spent" /\ exBusy' = FALSE /\ AnswerTo(r, "refused") /\ exMishap' = TRUE
    /\ \/ UNCHANGED exSlot
       \/ MayEnrol /\ exSlot' = [exSlot EXCEPT !.key = r.key]
    /\ UNCHANGED <<exDevice, exToken, exStrikes, exBarred, exImports, exKills>>

\* The server is killed and started again: its requests are cut off.
KillListener ==
    /\ exKills < MaxServerKills /\ exKills' = exKills + 1
    /\ exPost' = {r \in exPost : r.at \in {"ok", "refused"}}
    /\ exMishap' = (exMishap \/ exPost' # exPost)
    /\ exBusy' = FALSE /\ exStrikes' = 0 /\ exBarred' = FALSE
    /\ UNCHANGED <<exDevice, exToken, exSlot, exImports>>

-----------------------------------------------------------------------------
(* Time, and the administrator in other processes.                         *)

BarLifts ==
    /\ exBarred /\ exBarred' = FALSE
    /\ UNCHANGED <<exDevice, exPost, exToken, exSlot, exBusy, exStrikes, exMishap, exImports, exKills>>

TokenExpires ==
    /\ exToken = "fresh" /\ exToken' = "gone"
    /\ UNCHANGED <<exDevice, exPost, exSlot, exBusy, exStrikes, exBarred, exMishap, exImports, exKills>>

AdminRevokes ==
    /\ exSlot.state # "revoked" /\ exSlot' = [exSlot EXCEPT !.state = "revoked"]
    /\ exToken' = IF exToken = "fresh" THEN "gone" ELSE exToken
    /\ UNCHANGED <<exDevice, exPost, exBusy, exStrikes, exBarred, exMishap, exImports, exKills>>

ExNext ==
    \/ \E d \in Devices :
          \/ ImportProfile(d) \/ DialFails(d) \/ PostToken(d) \/ HearAnswer(d)
          \/ GiveUpWaiting(d) \/ SaveProfile(d)
    \/ \E r \in exPost :
          \/ ReceivePost(r) \/ SpendToken(r) \/ RefuseToken(r)
          \/ CompleteEnrolment(r) \/ BreakEnrolment(r)
    \/ KillListener \/ BarLifts \/ TokenExpires \/ AdminRevokes

ExSpec == ExInit /\ [][ExNext]_exVars

-----------------------------------------------------------------------------
(* Properties.                                                             *)

\* A device that has saved its profile holds the very key that the server
\* registered: whatever was retried on other rungs, imported twice, answered
\* late or redeemed by another copy of the profile.  (enroll.py: a profile is
\* only ever written out once it can connect.)
ExHeldKeyAdmitted ==
    \A d \in Devices : exDevice[d].at = "enrolled" => exSlot.key = exDevice[d].key

\* Once the token is spent, some device holds the registered key or is about to
\* be told so; unless an answer was lost or late, a file could not be written,
\* the server was killed, or the client was revoked meanwhile.
ExNobodyStranded ==
    exToken = "used" =>
        \/ \E r \in exPost : r.at = "spent"
        \/ \E d \in Devices : /\ exDevice[d].at \in {"await", "save", "enrolled"}
                              /\ exDevice[d].key = exSlot.key
        \/ exMishap \/ exSlot.state = "revoked"
=============================================================================
