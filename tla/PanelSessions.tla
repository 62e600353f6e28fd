---------------------------- MODULE PanelSessions ----------------------------
(***************************************************************************)
(* Who is let into the web panel (web_auth.py, web_server.py): logins with *)
(* the admin token, the sessions they open, the limiter of failed logins,  *)
(* the file that carries sessions over a restart of the panel, and the     *)
(* rotation of the token by `outwarp-server admin-token`.                  *)
(*                                                                         *)
(* Requests are served on threads of their own.  One client address is     *)
(* modelled: the limiter keeps addresses apart.  Tokens are the numbers of *)
(* their rotations, 0 is a wrong one.                                      *)
(***************************************************************************)
EXTENDS Naturals, Sequences, FiniteSets

CONSTANTS
    Handlers,              \* threads that serve requests, by number
    MaxFailures, Window, Lockout, \* of RateLimiter
    ShortTtl, LongTtl,     \* SessionStore.DEFAULT_TTL and REMEMBER_TTL
    SavesFail,             \* where the session file may fail to be written
    MaxClock, MaxRequests, MaxRotations, MaxRestarts \* bounds

ASSUME PanelSessionsAssumption ==
    /\ {MaxFailures, Window, Lockout, ShortTtl, LongTtl} \subseteq Nat \ {0}
    /\ {MaxClock, MaxRequests, MaxRotations, MaxRestarts} \subseteq Nat
    /\ SavesFail \subseteq {"open", "check", "logout", "purge"} /\ Handlers \subseteq Nat

Sids == 1 .. MaxRequests

VARIABLES
    psClock,    \* time.time()
    psToken,    \* the admin token: how many times it has been rotated, from 1
    psMemory,   \* SessionStore._sessions: records [sid, exp, token]
    psFile,     \* panel_sessions.json
    psHits,     \* RateLimiter._failures of the address: times of failures
    psLocked,   \* RateLimiter._locked_until of the address
    psHandler,  \* what each thread is doing
    psIssued,   \* history: expiry of every session ever opened, 0 for none
    psVoid,     \* history: sessions logged out, or open when the token rotated
    psWrongs,   \* history: wrong tokens verified since the address was locked,
    psPending,  \*   and how many requests were being verified at that moment
    psRequests, psRestarts  \* what the bounds count

psSessions == <<psToken, psMemory, psFile, psIssued, psVoid>>
psLimiter == <<psHits, psLocked, psWrongs, psPending>>
psVars == <<psClock, psSessions, psLimiter, psHandler, psRequests, psRestarts>>

Rest == [at |-> "idle", sid |-> 0, token |-> 0, since |-> 0, void |-> FALSE]

PsInit ==
    /\ psClock = 0 /\ psToken = 1 /\ psMemory = {} /\ psFile = {}
    /\ psHits = <<>> /\ psLocked = 0
    /\ psHandler = [h \in Handlers |-> Rest]
    /\ psIssued = [s \in Sids |-> 0] /\ psVoid = {} /\ psWrongs = 0 /\ psPending = 0
    /\ psRequests = 0 /\ psRestarts = 0

-----------------------------------------------------------------------------
(* Helpers.                                                                *)

Step(h, label) == psHandler' = [psHandler EXCEPT ![h].at = label]
Done(h) == psHandler' = [psHandler EXCEPT ![h] = Rest]
\* A request goes to the first idle thread.
Arrive(h, request) ==
    /\ psHandler[h].at = "idle" /\ \A g \in Handlers : g < h => psHandler[g].at # "idle"
    /\ psRequests < MaxRequests
    /\ psRequests' = psRequests + 1
    /\ psHandler' = [psHandler EXCEPT ![h] = request]

\* RateLimiter.retry_after, as a yes or no.
LockedOut == psLocked > psClock

\* _save_locked: an error is swallowed, and the file stays as it was.
Save(at, sessions) == psFile' = sessions \/ (at \in SavesFail /\ psFile' = psFile)

\* Mutant of Stale: a session is not bound to the token that opened it.
StaleByAge(e, now, current) == e.exp < now

Stale(e, now, current) == e.exp < now \/ e.token # current

-----------------------------------------------------------------------------
(* POST /auth.                                                             *)

\* A locked address is refused before its token is looked at.
AuthRefuse(h) ==
    /\ LockedOut /\ Arrive(h, Rest)
    /\ UNCHANGED <<psClock, psSessions, psLimiter, psRestarts>>

\* Mutant of AuthArrive: a locked address is only refused its failures.
AuthArriveLocked(h) ==
    /\ \E t \in {0, psToken} : Arrive(h, [Rest EXCEPT !.at = "verify", !.token = t])
    /\ UNCHANGED <<psClock, psSessions, psLimiter, psRestarts>>

AuthArrive(h) ==
    /\ ~LockedOut
    /\ \E t \in {0, psToken} : Arrive(h, [Rest EXCEPT !.at = "verify", !.token = t])
    /\ UNCHANGED <<psClock, psSessions, psLimiter, psRestarts>>

\* verify_token reads the stored hash, and then hashes the token it was given
\* for a tenth of a second outside every lock: what follows comes a step later.
VerifyToken(h) ==
    /\ psHandler[h].at = "verify"
    /\ Step(h, IF psHandler[h].token = psToken THEN "open" ELSE "fail")
    /\ psWrongs' = IF psHandler[h].token # psToken /\ LockedOut THEN psWrongs + 1 ELSE psWrongs
    /\ UNCHANGED <<psClock, psSessions, psHits, psLocked, psPending, psRequests, psRestarts>>

\* The failures of the last window, this one included; the last one allowed
\* locks the address and starts the count again.
RegisterFailure(h) ==
    /\ psHandler[h].at = "fail" /\ Done(h)
    /\ LET hits == Append(SelectSeq(psHits, LAMBDA t : t + Window > psClock), psClock)
       IN  IF Len(hits) >= MaxFailures
           THEN /\ psLocked' = psClock + Lockout /\ psHits' = <<>> /\ psWrongs' = 0
                /\ psPending' = Cardinality({g \in Handlers : psHandler[g].at = "verify"})
           ELSE psHits' = hits /\ UNCHANGED <<psLocked, psWrongs, psPending>>
    /\ UNCHANGED <<psClock, psSessions, psRequests, psRestarts>>

\* A right token resets the limiter and opens a session, bound to the token
\* that is in the file by now.
OpenSession(h) ==
    /\ psHandler[h].at = "open" /\ Done(h)
    /\ psHits' = <<>> /\ psLocked' = 0 /\ psWrongs' = 0 /\ psPending' = 0
    /\ \E ttl \in {ShortTtl, LongTtl} :
          LET sid == 1 + Cardinality({s \in Sids : psIssued[s] # 0})
              entry == [sid |-> sid, exp |-> psClock + ttl, token |-> psToken]
          IN  /\ psMemory' = psMemory \cup {entry} /\ Save("open", psMemory \cup {entry})
              /\ psIssued' = [psIssued EXCEPT ![sid] = entry.exp]
    /\ UNCHANGED <<psClock, psToken, psVoid, psRequests, psRestarts>>

-----------------------------------------------------------------------------
(* A request with a cookie: _authed, before the API or the event stream.   *)

\* The time and the fingerprint of the token are read before the lock.
RequestArrives(h) ==
    /\ \E s \in {x \in Sids : psIssued[x] # 0} :
          Arrive(h, [at |-> "check", sid |-> s, token |-> psToken, since |-> psClock,
                     void |-> s \in psVoid])
    /\ UNCHANGED <<psClock, psSessions, psLimiter, psRestarts>>

\* SessionStore.validate: a session that has ended is forgotten.
Validate(h) ==
    /\ psHandler[h].at = "check"
    /\ LET mine == {e \in psMemory : e.sid = psHandler[h].sid}
           good == {e \in mine : ~Stale(e, psHandler[h].since, psHandler[h].token)}
       IN  \/ good # {} /\ Step(h, "granted") /\ UNCHANGED <<psMemory, psFile>>
           \/ good = {} /\ mine # {} /\ Done(h)
              /\ psMemory' = psMemory \ mine /\ Save("check", psMemory \ mine)
           \/ mine = {} /\ Done(h) /\ UNCHANGED <<psMemory, psFile>>
    /\ UNCHANGED <<psClock, psToken, psIssued, psVoid, psLimiter, psRequests, psRestarts>>

\* The request is carried out and answered.
Serve(h) ==
    /\ psHandler[h].at = "granted" /\ Done(h)
    /\ UNCHANGED <<psClock, psSessions, psLimiter, psRequests, psRestarts>>

\* POST /logout of a session that is open: forgotten, saved, answered.  A kill
\* may fall before the save.
LogOut(h) ==
    /\ \E e \in psMemory :
          /\ Arrive(h, [Rest EXCEPT !.at = "leave", !.sid = e.sid])
          /\ psMemory' = psMemory \ {e}
    /\ UNCHANGED <<psClock, psToken, psFile, psIssued, psVoid, psLimiter, psRestarts>>

LoggedOut(h) ==
    /\ psHandler[h].at = "leave" /\ Done(h)
    /\ Save("logout", psMemory)
    /\ psVoid' = IF psFile' = psMemory THEN psVoid \cup {psHandler[h].sid} ELSE psVoid
    /\ UNCHANGED <<psClock, psToken, psMemory, psIssued, psLimiter, psRequests, psRestarts>>

-----------------------------------------------------------------------------
(* The rest of the world.                                                  *)

\* purge_expired, every five minutes.
Purge ==
    /\ \E e \in psMemory : Stale(e, psClock, psToken)
    /\ psMemory' = {e \in psMemory : ~Stale(e, psClock, psToken)} /\ Save("purge", psMemory')
    /\ UNCHANGED <<psClock, psToken, psIssued, psVoid, psLimiter, psHandler, psRequests, psRestarts>>

\* `outwarp-server admin-token --rotate`, another process.
RotateToken ==
    /\ psToken <= MaxRotations /\ psToken' = psToken + 1
    /\ psVoid' = psVoid \cup {s \in Sids : psIssued[s] # 0}
    /\ UNCHANGED <<psClock, psMemory, psFile, psIssued, psLimiter, psHandler, psRequests, psRestarts>>

\* The panel is killed and started again: _load keeps what has not expired.
RestartPanel ==
    /\ psRestarts < MaxRestarts /\ psRestarts' = psRestarts + 1
    /\ psMemory' = {e \in psFile : e.exp > psClock}
    /\ psHits' = <<>> /\ psLocked' = 0 /\ psWrongs' = 0 /\ psPending' = 0
    /\ psHandler' = [h \in Handlers |-> Rest]
    /\ UNCHANGED <<psClock, psToken, psFile, psIssued, psVoid, psRequests>>

Tick ==
    /\ psClock < MaxClock /\ psClock' = psClock + 1
    /\ UNCHANGED <<psSessions, psLimiter, psHandler, psRequests, psRestarts>>

PsNext ==
    \/ \E h \in Handlers :
          \/ AuthRefuse(h) \/ AuthArrive(h) \/ VerifyToken(h) \/ RegisterFailure(h)
          \/ OpenSession(h) \/ RequestArrives(h) \/ Validate(h) \/ Serve(h)
          \/ LogOut(h) \/ LoggedOut(h)
    \/ Purge \/ RotateToken \/ RestartPanel \/ Tick

PsSpec == PsInit /\ [][PsNext]_psVars

-----------------------------------------------------------------------------
(* Properties.                                                             *)

\* A request is served only if its session, when the request arrived, had not
\* expired, been logged out (and that been answered) or been open at a rotation
\* of the token: whatever was saved, purged or reloaded in between.
PsGrantsAreLive ==
    \A h \in Handlers :
        psHandler[h].at = "granted" =>
            ~psHandler[h].void /\ psIssued[psHandler[h].sid] >= psHandler[h].since

\* Once an address is locked, the only tokens still tried are those of requests
\* that were already being verified.
PsLockoutHolds == LockedOut => psWrongs <= psPending
=============================================================================
