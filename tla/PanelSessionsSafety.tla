------------------------- MODULE PanelSessionsSafety -------------------------
(***************************************************************************)
(* Theorems about PanelSessions: no request is let in on a session that had *)
(* ended when it arrived, for any number of threads, sessions, restarts,   *)
(* rotations and failing saves.                                            *)
(*                                                                         *)
(* PsGrantsAreLive only looks at a request that was granted.  What makes   *)
(* it hold lies in the two stores: an entry of either says the truth about *)
(* its session, there is one per session, and a session that is void has   *)
(* either no entry left or one bound to a token that is no longer current. *)
(* The file may be older than the memory, and come back in a restart, so   *)
(* all of it is said of both.                                              *)
(*                                                                         *)
(* The lockout of an address (PsLockoutHolds) is a theorem of its own, on  *)
(* the requests whose token is being verified when it falls.               *)
(***************************************************************************)
EXTENDS PanelSessions, FiniteSetTheorems, TLAPS

Entries == [sid : Nat, exp : Nat, token : Nat]
Labels == {"idle", "verify", "open", "fail", "check", "granted", "leave"}
Requests == [at : Labels, sid : Nat, token : Nat, since : Nat, void : BOOLEAN]

PsTypeOK ==
    /\ psClock \in Nat /\ psToken \in Nat
    /\ psMemory \subseteq Entries /\ psFile \subseteq Entries
    /\ psHandler \in [Handlers -> Requests]
    /\ psIssued \in [Sids -> Nat] /\ psVoid \subseteq Nat

Kept == psMemory \cup psFile
Opened == {s \in Sids : psIssued[s] # 0}

\* Sessions are numbered in the order in which they are opened.
Numbered == \E n \in 0 .. MaxRequests : Opened = 1 .. n

\* An entry holds its session's expiry; that of a void session an old token.
Truthful ==
    \A e \in Kept :
        /\ e.token <= psToken
        /\ e.sid \in Sids => psIssued[e.sid] = e.exp /\ e.exp # 0
        /\ e.sid \in Sids \cap psVoid => e.token < psToken

\* One entry for a session, in memory and file together.
OneEntry == \A d, e \in Kept : d.sid = e.sid /\ d.sid \in Sids => d = e

\* Only a session that was opened is void.
VoidsOpened == psVoid \cap Sids \subseteq Opened

\* A request being checked whose session was void finds no entry that fits; a
\* session being logged out is no longer in memory; what was granted was due.
Sound(h) ==
    LET request == psHandler[h]
    IN  /\ request.at = "check" =>
              /\ request.sid \in Opened /\ request.token <= psToken
              /\ request.void =>
                    \A e \in Kept : e.sid = request.sid => e.token < request.token
        /\ request.at = "leave" /\ request.sid \in Sids =>
              request.sid \in Opened /\ \A e \in psMemory : e.sid # request.sid
        /\ request.at = "granted" =>
              /\ request.sid \in Opened
              /\ ~request.void /\ psIssued[request.sid] >= request.since

RequestsSound == \A h \in Handlers : Sound(h)

StoresSound == Numbered /\ Truthful /\ OneEntry /\ VoidsOpened

PsIInv == PsTypeOK /\ StoresSound /\ RequestsSound

-----------------------------------------------------------------------------
LEMMA StartsSound == PsInit => PsIInv
<1> SUFFICES ASSUME PsInit PROVE PsIInv OBVIOUS
<1> USE PanelSessionsAssumption DEF PsInit, Sids, Rest
<1>1. PsTypeOK BY DEF PsTypeOK, Entries, Requests, Labels
<1>2. Opened = 1 .. 0 BY DEF Opened
<1> QED BY <1>1, <1>2 DEF PsIInv, StoresSound, Numbered, Truthful, OneEntry, VoidsOpened,
                          RequestsSound, Sound, Kept

(* What the three ways to change a thread's state leave behind.            *)
LEMMA ArriveSets ==
  ASSUME PsTypeOK, NEW h \in Handlers, NEW request \in Requests, Arrive(h, request)
  PROVE  /\ psHandler' \in [Handlers -> Requests] /\ psHandler'[h] = request
         /\ \A g \in Handlers \ {h} : psHandler'[g] = psHandler[g]
  BY DEF PsTypeOK, Arrive

LEMMA DoneSets ==
  ASSUME PsTypeOK, NEW h \in Handlers, Done(h)
  PROVE  /\ psHandler' \in [Handlers -> Requests] /\ psHandler'[h] = Rest
         /\ \A g \in Handlers \ {h} : psHandler'[g] = psHandler[g]
<1>1. Rest \in Requests BY DEF Rest, Requests, Labels
<1> QED BY <1>1 DEF PsTypeOK, Done

LEMMA StepSets ==
  ASSUME PsTypeOK, NEW h \in Handlers, NEW label \in Labels, Step(h, label)
  PROVE  /\ psHandler' \in [Handlers -> Requests]
         /\ psHandler'[h] = [psHandler[h] EXCEPT !.at = label]
         /\ psHandler'[h].at = label
         /\ \A g \in Handlers \ {h} : psHandler'[g] = psHandler[g]
<1>1. psHandler[h] \in Requests BY DEF PsTypeOK
<1>2. [psHandler[h] EXCEPT !.at = label] \in Requests BY <1>1 DEF Requests
<1>3. [psHandler[h] EXCEPT !.at = label].at = label BY <1>1 DEF Requests
<1>4. psHandler' = [psHandler EXCEPT ![h] = [psHandler[h] EXCEPT !.at = label]] BY DEF Step
<1> QED BY <1>2, <1>3, <1>4 DEF PsTypeOK

(* The entry that opens the next session: its number, and what is opened then. *)
LEMMA NextSession ==
  ASSUME PsTypeOK, Numbered
  PROVE  LET sid == 1 + Cardinality(Opened)
         IN  sid \in Nat \ {0} /\ sid \notin Opened /\ (sid \in Sids => Opened \cup {sid} = 1 .. sid)
                 /\ (sid \notin Sids => Opened = Sids)
<1> USE PanelSessionsAssumption DEF Sids
<1>1. PICK n \in 0 .. MaxRequests : Opened = 1 .. n BY DEF Numbered
<1>2. Cardinality(Opened) = n
  <2>1. Cardinality(1 .. n) = IF 1 > n THEN 0 ELSE n - 1 + 1 BY <1>1, FS_Interval
  <2> QED BY <2>1, <1>1
<1>3. 1 + Cardinality(Opened) = n + 1 BY <1>2
<1> QED BY <1>1, <1>3 DEF Opened

LEMMA TypesStay == PsIInv /\ [PsNext]_psVars => PsTypeOK'
<1> SUFFICES ASSUME PsTypeOK, Numbered, [PsNext]_psVars PROVE PsTypeOK' BY DEF PsIInv, StoresSound
<1> USE PanelSessionsAssumption DEF psSessions, psLimiter, Save
<1>1. ASSUME NEW h \in Handlers, AuthRefuse(h) PROVE PsTypeOK'
  <2>1. Rest \in Requests BY DEF Rest, Requests, Labels
  <2> QED BY <1>1, <2>1, ArriveSets DEF AuthRefuse, PsTypeOK
<1>2. ASSUME NEW h \in Handlers, AuthArrive(h) PROVE PsTypeOK'
  <2>1. PICK t \in {0, psToken} : Arrive(h, [Rest EXCEPT !.at = "verify", !.token = t])
        BY <1>2 DEF AuthArrive
  <2>2. [Rest EXCEPT !.at = "verify", !.token = t] \in Requests
    <3>1. t \in Nat BY DEF PsTypeOK
    <3> QED BY <3>1 DEF Rest, Requests, Labels
  <2> QED BY <1>2, <2>1, <2>2, ArriveSets DEF AuthArrive, PsTypeOK
<1>3. ASSUME NEW h \in Handlers, VerifyToken(h) PROVE PsTypeOK'
  <2> DEFINE label == IF psHandler[h].token = psToken THEN "open" ELSE "fail"
  <2>1. label \in Labels /\ Step(h, label) BY <1>3 DEF VerifyToken, Labels
  <2> HIDE DEF label
  <2> QED BY <1>3, <2>1, StepSets DEF VerifyToken, PsTypeOK
<1>4. ASSUME NEW h \in Handlers, RegisterFailure(h) PROVE PsTypeOK'
  BY <1>4, DoneSets DEF RegisterFailure, PsTypeOK
<1>5. ASSUME NEW h \in Handlers, OpenSession(h) PROVE PsTypeOK'
  <2> DEFINE sid == 1 + Cardinality(Opened)
  <2>1. PICK ttl \in {ShortTtl, LongTtl} :
           LET entry == [sid |-> sid, exp |-> psClock + ttl, token |-> psToken]
           IN  /\ psMemory' = psMemory \cup {entry} /\ Save("open", psMemory \cup {entry})
               /\ psIssued' = [psIssued EXCEPT ![sid] = entry.exp]
        BY <1>5 DEF OpenSession, Opened
  <2>2. sid \in Nat BY NextSession
  <2> HIDE DEF sid
  <2>3. [sid |-> sid, exp |-> psClock + ttl, token |-> psToken] \in Entries
        BY <2>2 DEF PsTypeOK, Entries
  <2>4. psIssued' \in [Sids -> Nat]
    <3>1. psIssued' = [psIssued EXCEPT ![sid] = psClock + ttl] BY <2>1
    <3>2. psClock + ttl \in Nat BY DEF PsTypeOK
    <3> QED BY <3>1, <3>2 DEF PsTypeOK
  <2> QED BY <1>5, <2>1, <2>3, <2>4, DoneSets DEF OpenSession, PsTypeOK
<1>6. ASSUME NEW h \in Handlers, RequestArrives(h) PROVE PsTypeOK'
  <2>1. PICK s \in Sids :
           Arrive(h, [at |-> "check", sid |-> s, token |-> psToken, since |-> psClock,
                      void |-> s \in psVoid])
        BY <1>6 DEF RequestArrives
  <2>2. [at |-> "check", sid |-> s, token |-> psToken, since |-> psClock,
         void |-> s \in psVoid] \in Requests
        BY DEF PsTypeOK, Requests, Labels, Sids
  <2> QED BY <1>6, <2>1, <2>2, ArriveSets DEF RequestArrives, PsTypeOK
<1>7. ASSUME NEW h \in Handlers, Validate(h) PROVE PsTypeOK'
  <2>1. psMemory' \subseteq psMemory /\ psFile' \subseteq psMemory \cup psFile
        BY <1>7 DEF Validate
  <2>2. psHandler' \in [Handlers -> Requests]
    <3>1. Step(h, "granted") \/ Done(h) BY <1>7 DEF Validate
    <3>2. "granted" \in Labels BY DEF Labels
    <3> QED BY <3>1, <3>2, StepSets, DoneSets
  <2> QED BY <1>7, <2>1, <2>2 DEF Validate, PsTypeOK
<1>8. ASSUME NEW h \in Handlers, Serve(h) PROVE PsTypeOK'
  BY <1>8, DoneSets DEF Serve, PsTypeOK
<1>9. ASSUME NEW h \in Handlers, LogOut(h) PROVE PsTypeOK'
  <2>1. PICK e \in psMemory : /\ Arrive(h, [Rest EXCEPT !.at = "leave", !.sid = e.sid])
                              /\ psMemory' = psMemory \ {e}
        BY <1>9 DEF LogOut
  <2>2. [Rest EXCEPT !.at = "leave", !.sid = e.sid] \in Requests
        BY DEF PsTypeOK, Rest, Requests, Labels, Entries
  <2> QED BY <1>9, <2>1, <2>2, ArriveSets DEF LogOut, PsTypeOK
<1>10. ASSUME NEW h \in Handlers, LoggedOut(h) PROVE PsTypeOK'
  <2>1. psHandler[h].sid \in Nat BY DEF PsTypeOK, Requests
  <2>2. psVoid' \subseteq Nat BY <1>10, <2>1 DEF LoggedOut, PsTypeOK
  <2> QED BY <1>10, <2>2, DoneSets DEF LoggedOut, PsTypeOK
<1>11. CASE Purge BY <1>11 DEF Purge, PsTypeOK
<1>12. CASE RotateToken
  <2>1. {s \in Sids : psIssued[s] # 0} \subseteq Nat BY DEF Sids
  <2>2. psVoid' = psVoid \cup {s \in Sids : psIssued[s] # 0} BY <1>12 DEF RotateToken
  <2>3. psVoid' \subseteq Nat BY <2>1, <2>2 DEF PsTypeOK
  <2>4. psToken' = psToken + 1 /\ UNCHANGED <<psClock, psMemory, psFile, psIssued, psHandler>>
        BY <1>12 DEF RotateToken
  <2> QED BY <2>3, <2>4 DEF PsTypeOK
<1>13. CASE RestartPanel
  <2>1. Rest \in Requests BY DEF Rest, Requests, Labels
  <2> QED BY <1>13, <2>1 DEF RestartPanel, PsTypeOK
<1>14. CASE Tick BY <1>14 DEF Tick, PsTypeOK
<1>15. CASE UNCHANGED psVars BY <1>15 DEF psVars, PsTypeOK
<1> QED BY <1>1, <1>2, <1>3, <1>4, <1>5, <1>6, <1>7, <1>8, <1>9, <1>10, <1>11, <1>12,
           <1>13, <1>14, <1>15 DEF PsNext

(* Entries that leave, or that belong to a session nobody has opened yet, do   *)
(* not disturb the requests under way on other threads.                       *)
LEMMA OthersStaySound ==
  ASSUME PsIInv, NEW h \in Handlers, NEW g \in Handlers \ {h}, psHandler'[g] = psHandler[g],
         \A e \in Kept' : e \in Kept \/ e.sid \notin Opened,
         \A e \in psMemory' : e \in psMemory \/ e.sid \notin Opened,
         \A s \in Opened : psIssued'[s] = psIssued[s],
         psToken' = psToken
  PROVE  Sound(g)'
<1>1. Sound(g) BY DEF PsIInv, RequestsSound
<1>2. Opened \subseteq Opened' BY DEF Opened
<1> QED BY <1>1, <1>2 DEF Sound, Opened

(* A step of one thread that opens no session: its own request is left to show. *)
LEMMA ThreadStaysSound ==
  ASSUME PsIInv, NEW h \in Handlers, \A g \in Handlers \ {h} : psHandler'[g] = psHandler[g],
         Kept' \subseteq Kept, psMemory' \subseteq psMemory,
         UNCHANGED <<psIssued, psToken>>, Sound(h)'
  PROVE  RequestsSound'
<1>1. ASSUME NEW g \in Handlers \ {h} PROVE Sound(g)'
  BY OthersStaySound
<1> QED BY <1>1 DEF RequestsSound

(* The two stores.                                                            *)
LEMMA StoresStaySound == PsIInv /\ [PsNext]_psVars => StoresSound'
<1> SUFFICES ASSUME PsTypeOK, StoresSound, RequestsSound, [PsNext]_psVars PROVE StoresSound'
    BY DEF PsIInv
<1> USE PanelSessionsAssumption DEF Sids, StoresSound, psSessions, Save
<1>1. ASSUME NEW h \in Handlers, OpenSession(h) PROVE StoresSound'
  <2> DEFINE sid == 1 + Cardinality(Opened)
  <2>1. PICK ttl \in {ShortTtl, LongTtl} :
           LET entry == [sid |-> sid, exp |-> psClock + ttl, token |-> psToken]
           IN  /\ psMemory' = psMemory \cup {entry} /\ Save("open", psMemory \cup {entry})
               /\ psIssued' = [psIssued EXCEPT ![sid] = entry.exp]
        BY <1>1 DEF OpenSession, Opened
  <2>2. /\ sid \in Nat \ {0} /\ sid \notin Opened
        /\ sid \in Sids => Opened \cup {sid} = 1 .. sid
        /\ sid \notin Sids => Opened = Sids
        BY NextSession
  <2>3. UNCHANGED <<psToken, psVoid>> BY <1>1 DEF OpenSession
  <2> HIDE DEF sid
  <2> DEFINE entry == [sid |-> sid, exp |-> psClock + ttl, token |-> psToken]
  <2>4. entry.sid = sid /\ entry.exp = psClock + ttl /\ entry.token = psToken OBVIOUS
  <2>5. psClock + ttl \in Nat \ {0} BY DEF PsTypeOK
  <2>6. psIssued' = [psIssued EXCEPT ![sid] = psClock + ttl] BY <2>1, <2>4
  <2>7. Kept' \subseteq Kept \cup {entry} BY <2>1 DEF Kept
  <2> HIDE DEF entry
  <2>8. Opened' = IF sid \in Sids THEN Opened \cup {sid} ELSE Opened
        BY <2>5, <2>6 DEF Opened, PsTypeOK
  <2>9. \A e \in Kept : e.sid \in Sids => e.sid \in Opened
        BY DEF Truthful, Opened
  <2>10. Numbered'
    <3>1. CASE sid \in Sids BY <2>2, <2>8, <3>1 DEF Numbered
    <3>2. CASE sid \notin Sids BY <2>8, <3>2 DEF Numbered
    <3> QED BY <3>1, <3>2
  <2>11. Truthful'
    <3> SUFFICES ASSUME NEW e \in Kept'
                 PROVE  /\ e.token <= psToken
                        /\ e.sid \in Sids => psIssued'[e.sid] = e.exp /\ e.exp # 0
                        /\ e.sid \in Sids \cap psVoid => e.token < psToken
        BY <2>3 DEF Truthful
    <3>1. CASE e \in Kept
      <4>1. e.sid \in Sids => e.sid # sid BY <2>2, <2>9, <3>1
      <4> QED BY <3>1, <4>1, <2>6 DEF Truthful, PsTypeOK
    <3>2. CASE e = entry
      <4>1. sid \in Sids => sid \notin psVoid BY <2>2 DEF VoidsOpened
      <4> QED BY <2>4, <2>5, <2>6, <3>2, <4>1 DEF PsTypeOK
    <3> QED BY <2>7, <3>1, <3>2
  <2>12. OneEntry' BY <2>2, <2>4, <2>7, <2>9 DEF OneEntry
  <2>13. VoidsOpened' BY <2>3, <2>8 DEF VoidsOpened
  <2> QED BY <2>10, <2>11, <2>12, <2>13
<1>2. ASSUME NEW h \in Handlers, LoggedOut(h) PROVE StoresSound'
  <2>1. psHandler[h].sid \in Sids =>
            psHandler[h].sid \in Opened /\ \A e \in psMemory : e.sid # psHandler[h].sid
        BY <1>2 DEF LoggedOut, RequestsSound, Sound
  <2>2. Kept' \subseteq Kept /\ UNCHANGED <<psIssued, psToken>> BY <1>2 DEF LoggedOut, Kept
  <2>3. psVoid' = psVoid \/ (Kept' = psMemory /\ psVoid' = psVoid \cup {psHandler[h].sid})
        BY <1>2 DEF LoggedOut, Kept
  <2>4. Numbered' /\ VoidsOpened' BY <2>1, <2>2, <2>3 DEF Numbered, VoidsOpened, Opened
  <2>5. Truthful' BY <2>1, <2>2, <2>3 DEF Truthful
  <2>6. OneEntry' BY <2>2 DEF OneEntry
  <2> QED BY <2>4, <2>5, <2>6
<1>3. CASE RotateToken
  <2>1. /\ psToken' = psToken + 1 /\ psVoid' \cap Sids \subseteq Opened
        /\ UNCHANGED <<psMemory, psFile, psIssued>>
        BY <1>3 DEF RotateToken, VoidsOpened, Opened
  <2>2. \A e \in Kept : e.token \in Nat BY DEF Kept, PsTypeOK, Entries
  <2>3. Truthful' BY <2>1, <2>2 DEF Truthful, Kept, PsTypeOK
  <2>4. Numbered' /\ OneEntry' /\ VoidsOpened'
        BY <2>1 DEF Numbered, OneEntry, VoidsOpened, Kept, Opened
  <2> QED BY <2>3, <2>4
<1>4. ASSUME UNCHANGED <<psToken, psIssued, psVoid>>, Kept' \subseteq Kept PROVE StoresSound'
  BY <1>4 DEF Numbered, Truthful, OneEntry, VoidsOpened, Opened
<1>5. ASSUME NEW h \in Handlers,
             \/ AuthRefuse(h) \/ AuthArrive(h) \/ VerifyToken(h) \/ RegisterFailure(h)
             \/ RequestArrives(h) \/ Serve(h) \/ Validate(h) \/ LogOut(h)
      PROVE  StoresSound'
  <2>1. UNCHANGED <<psToken, psIssued, psVoid>> /\ Kept' \subseteq Kept
        BY <1>5 DEF AuthRefuse, AuthArrive, VerifyToken, RegisterFailure, RequestArrives,
                    Serve, Validate, LogOut, Kept
  <2> QED BY <2>1, <1>4
<1>6. CASE Purge \/ RestartPanel \/ Tick \/ UNCHANGED psVars
  <2>1. UNCHANGED <<psToken, psIssued, psVoid>> /\ Kept' \subseteq Kept
        BY <1>6 DEF Purge, RestartPanel, Tick, psVars, Kept
  <2> QED BY <2>1, <1>4
<1> QED BY <1>1, <1>2, <1>3, <1>5, <1>6 DEF PsNext

LEMMA RequestsStaySound == PsIInv /\ [PsNext]_psVars => RequestsSound'
<1> SUFFICES ASSUME PsIInv, PsTypeOK, PsTypeOK', StoresSound, RequestsSound, [PsNext]_psVars
             PROVE  RequestsSound'
    BY TypesStay DEF PsIInv
<1> USE PanelSessionsAssumption DEF psSessions, Save
<1>1. ASSUME NEW h \in Handlers, \/ AuthRefuse(h) \/ AuthArrive(h) \/ RegisterFailure(h)
                                 \/ Serve(h) \/ LoggedOut(h)
      PROVE  RequestsSound'
  <2>1. Rest \in Requests /\ Rest.at = "idle" BY DEF Rest, Requests, Labels
  <2>2. psHandler'[h].at \in {"idle", "verify"}
        /\ \A g \in Handlers \ {h} : psHandler'[g] = psHandler[g]
    <3>1. ASSUME NEW t \in {0, psToken}
          PROVE  /\ [Rest EXCEPT !.at = "verify", !.token = t] \in Requests
                 /\ [Rest EXCEPT !.at = "verify", !.token = t].at = "verify"
      <4>1. t \in Nat BY DEF PsTypeOK
      <4> QED BY <4>1 DEF Rest, Requests, Labels
    <3>2. CASE AuthRefuse(h) BY <2>1, <3>2, ArriveSets DEF AuthRefuse
    <3>3. CASE AuthArrive(h) BY <3>1, <3>3, ArriveSets DEF AuthArrive
    <3>4. CASE RegisterFailure(h) \/ Serve(h) \/ LoggedOut(h)
          BY <2>1, <3>4, DoneSets DEF RegisterFailure, Serve, LoggedOut
    <3> QED BY <1>1, <3>2, <3>3, <3>4
  <2>3. Kept' \subseteq Kept /\ UNCHANGED <<psMemory, psIssued, psToken>>
        BY <1>1 DEF AuthRefuse, AuthArrive, RegisterFailure, Serve, LoggedOut, Kept
  <2>4. Sound(h)' BY <2>2 DEF Sound
  <2> QED BY <2>2, <2>3, <2>4, ThreadStaysSound
<1>2. ASSUME NEW h \in Handlers, VerifyToken(h) PROVE RequestsSound'
  <2> DEFINE label == IF psHandler[h].token = psToken THEN "open" ELSE "fail"
  <2>1. label \in Labels /\ label \in {"open", "fail"} /\ Step(h, label)
        BY <1>2 DEF VerifyToken, Labels
  <2> HIDE DEF label
  <2>2. Kept' \subseteq Kept /\ UNCHANGED <<psMemory, psIssued, psToken>>
        BY <1>2 DEF VerifyToken, Kept
  <2>3. Sound(h)' BY <2>1, StepSets DEF Sound
  <2> QED BY <2>1, <2>2, <2>3, StepSets, ThreadStaysSound
<1>3. ASSUME NEW h \in Handlers, OpenSession(h) PROVE RequestsSound'
  <2> DEFINE sid == 1 + Cardinality(Opened)
  <2>1. PICK ttl \in {ShortTtl, LongTtl} :
           LET entry == [sid |-> sid, exp |-> psClock + ttl, token |-> psToken]
           IN  /\ psMemory' = psMemory \cup {entry} /\ Save("open", psMemory \cup {entry})
               /\ psIssued' = [psIssued EXCEPT ![sid] = entry.exp]
        BY <1>3 DEF OpenSession, Opened
  <2>2. sid \notin Opened BY NextSession DEF StoresSound
  <2> HIDE DEF sid
  <2> DEFINE entry == [sid |-> sid, exp |-> psClock + ttl, token |-> psToken]
  <2>3. entry.sid = sid OBVIOUS
  <2>4. psMemory' = psMemory \cup {entry} /\ Kept' \subseteq Kept \cup {entry} BY <2>1 DEF Kept
  <2>5. \A s \in Opened : psIssued'[s] = psIssued[s] BY <2>1, <2>2 DEF Opened, PsTypeOK
  <2> HIDE DEF entry
  <2>6. psToken' = psToken /\ Done(h) BY <1>3 DEF OpenSession
  <2>7. ASSUME NEW g \in Handlers \ {h} PROVE Sound(g)'
        BY <2>2, <2>3, <2>4, <2>5, <2>6, DoneSets, OthersStaySound
  <2>8. Sound(h)'
    <3>1. psHandler'[h].at = "idle" BY <2>6, DoneSets DEF Rest
    <3> QED BY <3>1 DEF Sound
  <2> QED BY <2>7, <2>8 DEF RequestsSound
<1>4. ASSUME NEW h \in Handlers, RequestArrives(h) PROVE RequestsSound'
  <2>1. PICK s \in Opened :
           Arrive(h, [at |-> "check", sid |-> s, token |-> psToken, since |-> psClock,
                      void |-> s \in psVoid])
        BY <1>4 DEF RequestArrives, Opened
  <2> DEFINE request == [at |-> "check", sid |-> s, token |-> psToken, since |-> psClock,
                         void |-> s \in psVoid]
  <2>2. request \in Requests BY DEF PsTypeOK, Requests, Labels, Sids, Opened
  <2>3. /\ request.at = "check" /\ request.sid = s /\ request.token = psToken
        /\ request.void => s \in psVoid
        OBVIOUS
  <2> HIDE DEF request
  <2>4. psHandler'[h] = request /\ \A g \in Handlers \ {h} : psHandler'[g] = psHandler[g]
        BY <2>1, <2>2, ArriveSets DEF request
  <2>5. UNCHANGED <<psMemory, psFile, psIssued, psToken>> /\ Kept' = Kept /\ Opened' = Opened
        BY <1>4 DEF RequestArrives, Kept, Opened
  <2>6. Sound(h)'
    <3>1. s \in psVoid => \A e \in Kept : e.sid = s => e.token < psToken
          BY DEF StoresSound, Truthful, Opened
    <3>2. psHandler'[h] = request BY <2>4
    <3>3. psToken <= psToken BY DEF PsTypeOK
    <3> QED BY <2>3, <2>5, <3>1, <3>2, <3>3 DEF Sound
  <2> QED BY <2>4, <2>5, <2>6, ThreadStaysSound
<1>5. ASSUME NEW h \in Handlers, Validate(h) PROVE RequestsSound'
  <2>1. /\ psMemory' \subseteq psMemory /\ Kept' \subseteq Kept
        /\ UNCHANGED <<psIssued, psToken>> /\ psHandler[h].at = "check"
        BY <1>5 DEF Validate, Kept
  <2>2. CASE Done(h)
    <3>1. psHandler'[h].at = "idle" BY <2>2, DoneSets DEF Rest
    <3>2. Sound(h)' BY <3>1 DEF Sound
    <3> QED BY <2>1, <2>2, <3>2, DoneSets, ThreadStaysSound
  <2>3. ASSUME NEW e \in psMemory, e.sid = psHandler[h].sid, Step(h, "granted"),
               ~Stale(e, psHandler[h].since, psHandler[h].token)
        PROVE  RequestsSound'
    <3>1. /\ psHandler[h].sid \in Opened
          /\ psHandler[h].void =>
                \A d \in Kept : d.sid = psHandler[h].sid => d.token < psHandler[h].token
          BY <2>1 DEF RequestsSound, Sound
    <3>2. psHandler[h] \in Requests /\ e \in Entries BY DEF PsTypeOK
    <3>3. e.exp >= psHandler[h].since /\ e.token = psHandler[h].token
          BY <2>3, <3>2 DEF Stale, Requests, Entries
    <3>4. ~psHandler[h].void BY <2>3, <3>1, <3>2, <3>3 DEF Kept, Requests, Entries
    <3>5. psIssued[e.sid] = e.exp BY <2>3, <3>1 DEF StoresSound, Truthful, Kept, Opened
    <3>6. psHandler'[h] = [psHandler[h] EXCEPT !.at = "granted"]
          /\ \A g \in Handlers \ {h} : psHandler'[g] = psHandler[g]
      <4>1. "granted" \in Labels BY DEF Labels
      <4> QED BY <2>3, <4>1, StepSets
    <3>7. /\ psHandler'[h].at = "granted" /\ psHandler'[h].sid = psHandler[h].sid
          /\ psHandler'[h].void = psHandler[h].void /\ psHandler'[h].since = psHandler[h].since
          BY <3>2, <3>6 DEF Requests
    <3>8. Opened' = Opened BY <2>1 DEF Opened
    <3>9. Sound(h)' BY <2>1, <2>3, <3>1, <3>3, <3>4, <3>5, <3>7, <3>8 DEF Sound
    <3> QED BY <2>1, <3>6, <3>9, ThreadStaysSound
  <2> QED BY <1>5, <2>2, <2>3 DEF Validate
<1>6. ASSUME NEW h \in Handlers, LogOut(h) PROVE RequestsSound'
  <2>1. PICK e \in psMemory : /\ Arrive(h, [Rest EXCEPT !.at = "leave", !.sid = e.sid])
                              /\ psMemory' = psMemory \ {e}
        BY <1>6 DEF LogOut
  <2>2. /\ [Rest EXCEPT !.at = "leave", !.sid = e.sid] \in Requests
        /\ [Rest EXCEPT !.at = "leave", !.sid = e.sid].at = "leave"
        /\ [Rest EXCEPT !.at = "leave", !.sid = e.sid].sid = e.sid
        BY DEF PsTypeOK, Rest, Requests, Labels, Entries
  <2>3. /\ psHandler'[h].at = "leave" /\ psHandler'[h].sid = e.sid
        /\ \A g \in Handlers \ {h} : psHandler'[g] = psHandler[g]
        BY <2>1, <2>2, ArriveSets
  <2>4. UNCHANGED <<psFile, psIssued, psToken>> /\ Kept' \subseteq Kept /\ Opened' = Opened
        BY <1>6, <2>1 DEF LogOut, Kept, Opened
  <2>5. e.sid \in Sids => e.sid \in Opened /\ \A d \in psMemory' : d.sid # e.sid
        BY <2>1 DEF StoresSound, Truthful, OneEntry, Kept, Opened
  <2>6. Sound(h)' BY <2>3, <2>4, <2>5 DEF Sound
  <2> QED BY <2>1, <2>3, <2>4, <2>6, ThreadStaysSound
<1>7. CASE Purge \/ Tick \/ UNCHANGED psVars
  <2>1. /\ UNCHANGED <<psToken, psIssued, psHandler>>
        /\ psMemory' \subseteq psMemory /\ Kept' \subseteq Kept
        BY <1>7 DEF Purge, Tick, psVars, Kept
  <2> QED BY <2>1 DEF RequestsSound, Sound, Opened
<1>8. CASE RotateToken
  <2>1. psToken' = psToken + 1 /\ UNCHANGED <<psMemory, psFile, psIssued, psHandler>>
        BY <1>8 DEF RotateToken
  <2>2. \A h \in Handlers : psHandler[h] \in Requests BY DEF PsTypeOK
  <2> QED BY <2>1, <2>2 DEF RequestsSound, Sound, Opened, Kept, PsTypeOK, Requests
<1>9. CASE RestartPanel
  <2>1. \A h \in Handlers : psHandler'[h].at = "idle" BY <1>9 DEF RestartPanel, Rest
  <2> QED BY <2>1 DEF RequestsSound, Sound
<1> QED BY <1>1, <1>2, <1>3, <1>4, <1>5, <1>6, <1>7, <1>8, <1>9 DEF PsNext

LEMMA StaysSound == PsIInv /\ [PsNext]_psVars => PsIInv'
  BY TypesStay, StoresStaySound, RequestsStaySound DEF PsIInv

LEMMA SoundIsEnough == PsIInv => PsGrantsAreLive
  BY DEF PsIInv, PsGrantsAreLive, RequestsSound, Sound

(* A request is served only if its session, when the request arrived, had not *)
(* expired, been logged out or been open at a rotation of the admin token      *)
(* (web_auth.py, web_server.py's _authed), over restarts and failed saves.     *)
THEOREM GrantsStayLive == PsSpec => []PsGrantsAreLive
<1>1. PsSpec => []PsIInv BY StartsSound, StaysSound, PTL DEF PsSpec
<1> QED BY <1>1, SoundIsEnough, PTL

-----------------------------------------------------------------------------
(* The lockout.  A request whose token is being verified when the address is *)
(* locked will still be counted; nobody joins those while the lock lasts.    *)

\* The requests whose token is being verified.
Verifying == {h \in Handlers : psHandler[h].at = "verify"}

\* Which values the variables of the limiter take.
LimiterTypeOK == {psLocked, psWrongs, psPending} \subseteq Nat /\ IsFiniteSet(Verifying)

\* What has been tried since the lock and what may still be is within what was
\* being verified when it fell.
Allowed == LockedOut => psWrongs + Cardinality(Verifying) <= psPending

\* The invariant of the limiter.
LockoutInv == LimiterTypeOK /\ Allowed


(* A thread that does not go on to verify: the set loses it, if it was   *)
(* there.                                                                *)
LEMMA VerifyingShrinks ==
    ASSUME PsTypeOK, LimiterTypeOK, NEW h \in Handlers, psHandler'[h].at # "verify",
           \A g \in Handlers \ {h} : psHandler'[g] = psHandler[g]
    PROVE  /\ Verifying' = Verifying \ {h} /\ IsFiniteSet(Verifying')
           /\ Cardinality(Verifying) \in Nat
           /\ Cardinality(Verifying') = IF psHandler[h].at = "verify"
                                        THEN Cardinality(Verifying) - 1 ELSE Cardinality(Verifying)
<1>1. Verifying' = Verifying \ {h} BY DEF Verifying
<1>2. h \in Verifying <=> psHandler[h].at = "verify" BY DEF Verifying
<1>3. IsFiniteSet(Verifying) BY DEF LimiterTypeOK
<1> HIDE DEF Verifying
<1>4. Cardinality(Verifying) \in Nat BY <1>3, FS_CardinalityType
<1>5. /\ IsFiniteSet(Verifying \ {h})
      /\ Cardinality(Verifying \ {h}) = IF h \in Verifying THEN Cardinality(Verifying) - 1
                                                           ELSE Cardinality(Verifying)
  BY <1>3, FS_RemoveElement
<1> QED BY <1>1, <1>2, <1>4, <1>5

(* A wrong token that is counted was being verified, and nobody begins   *)
(* to be while the address is locked.                                    *)
LEMMA LockoutStep == PsTypeOK /\ LockoutInv /\ [PsNext]_psVars => LockoutInv'
<1> SUFFICES ASSUME PsTypeOK, LimiterTypeOK, Allowed, [PsNext]_psVars PROVE LockoutInv'
    BY DEF LockoutInv
<1> USE PanelSessionsAssumption DEF psLimiter
<1>0. psClock \in Nat /\ IsFiniteSet(Verifying) /\ Cardinality(Verifying) \in Nat
  BY FS_CardinalityType DEF PsTypeOK, LimiterTypeOK
<1>1. ASSUME NEW h \in Handlers, AuthArrive(h) PROVE LockoutInv'
  <2>1. PICK t \in {0, psToken} : Arrive(h, [Rest EXCEPT !.at = "verify", !.token = t])
        BY <1>1 DEF AuthArrive
  <2>2. Verifying' \subseteq Verifying \cup {h}
    <3>1. \A g \in Handlers \ {h} : psHandler'[g] = psHandler[g]
      BY <2>1 DEF Arrive, PsTypeOK
    <3> QED BY <3>1 DEF Verifying
  <2>3. IsFiniteSet(Verifying')
    <3>1. IsFiniteSet(Verifying \cup {h}) BY <1>0, FS_AddElement
    <3> QED BY <2>2, <3>1, FS_Subset
  <2>4. UNCHANGED <<psClock, psLocked, psWrongs, psPending>> /\ ~LockedOut
        BY <1>1 DEF AuthArrive
  <2> QED BY <2>3, <2>4 DEF LockoutInv, LimiterTypeOK, Allowed, LockedOut
<1>2. ASSUME NEW h \in Handlers, VerifyToken(h) PROVE LockoutInv'
  <2> DEFINE label == IF psHandler[h].token = psToken THEN "open" ELSE "fail"
  <2>1. label \in {"open", "fail"} /\ label \in Labels /\ Step(h, label)
        /\ psHandler[h].at = "verify"
        BY <1>2 DEF VerifyToken, Labels
  <2> HIDE DEF label
  <2>2. psHandler'[h].at # "verify" /\ \A g \in Handlers \ {h} : psHandler'[g] = psHandler[g]
        BY <2>1, StepSets
  <2>3. IsFiniteSet(Verifying') /\ Cardinality(Verifying') = Cardinality(Verifying) - 1
        BY <2>1, <2>2, VerifyingShrinks
  <2>4. psWrongs' \in {psWrongs, psWrongs + 1} /\ UNCHANGED <<psClock, psLocked, psPending>>
        BY <1>2 DEF VerifyToken
  <2>5. LimiterTypeOK' BY <2>3, <2>4 DEF LimiterTypeOK
  <2>6. Allowed' BY <1>0, <2>3, <2>4 DEF Allowed, LimiterTypeOK, LockedOut
  <2> QED BY <2>5, <2>6 DEF LockoutInv
<1>3. ASSUME NEW h \in Handlers, RegisterFailure(h) PROVE LockoutInv'
  <2>1. psHandler'[h].at # "verify" /\ (\A g \in Handlers \ {h} : psHandler'[g] = psHandler[g])
        /\ psHandler[h].at # "verify" /\ psClock' = psClock
        BY <1>3, DoneSets DEF RegisterFailure, Rest
  <2>2. IsFiniteSet(Verifying') /\ Cardinality(Verifying') = Cardinality(Verifying)
        BY <2>1, VerifyingShrinks
  <2>3. \/ UNCHANGED <<psLocked, psWrongs, psPending>>
        \/ /\ psLocked' = psClock + Lockout /\ psWrongs' = 0
           /\ psPending' = Cardinality(Verifying)
        BY <1>3 DEF RegisterFailure, Verifying
  <2>4. LimiterTypeOK' BY <1>0, <2>2, <2>3 DEF LimiterTypeOK
  <2>5. Allowed' BY <1>0, <2>1, <2>2, <2>3 DEF Allowed, LimiterTypeOK, LockedOut
  <2> QED BY <2>4, <2>5 DEF LockoutInv
<1>4. ASSUME NEW h \in Handlers, OpenSession(h) PROVE LockoutInv'
  <2>1. psHandler'[h].at # "verify" /\ (\A g \in Handlers \ {h} : psHandler'[g] = psHandler[g])
        BY <1>4, DoneSets DEF OpenSession, Rest
  <2>2. psLocked' = 0 /\ psWrongs' = 0 /\ psPending' = 0 /\ psClock' = psClock
        BY <1>4 DEF OpenSession
  <2>3. IsFiniteSet(Verifying') BY <2>1, VerifyingShrinks
  <2> QED BY <1>0, <2>2, <2>3 DEF LockoutInv, LimiterTypeOK, Allowed, LockedOut
<1>5. ASSUME NEW h \in Handlers, psHandler'[h].at # "verify", psClock' = psClock,
             \A g \in Handlers \ {h} : psHandler'[g] = psHandler[g], UNCHANGED psLimiter
      PROVE  LockoutInv'
  <2>1. IsFiniteSet(Verifying') /\ Cardinality(Verifying') <= Cardinality(Verifying)
        /\ Cardinality(Verifying') \in Nat
        BY <1>5, VerifyingShrinks, FS_CardinalityType
  <2>2. LimiterTypeOK' BY <1>5, <2>1 DEF LimiterTypeOK
  <2>3. Allowed' BY <1>0, <1>5, <2>1 DEF Allowed, LimiterTypeOK, LockedOut
  <2> QED BY <2>2, <2>3 DEF LockoutInv
<1>6. ASSUME NEW h \in Handlers, \/ AuthRefuse(h) \/ RequestArrives(h) \/ Validate(h)
                                 \/ Serve(h) \/ LogOut(h) \/ LoggedOut(h)
      PROVE  LockoutInv'
  <2>1. UNCHANGED psLimiter /\ psClock' = psClock
        BY <1>6 DEF AuthRefuse, RequestArrives, Validate, Serve, LogOut, LoggedOut
  <2>2. psHandler'[h].at # "verify" /\ \A g \in Handlers \ {h} : psHandler'[g] = psHandler[g]
    <3>1. CASE AuthRefuse(h) BY <3>1 DEF AuthRefuse, Arrive, PsTypeOK, Rest
    <3>2. CASE RequestArrives(h) BY <3>2 DEF RequestArrives, Arrive, PsTypeOK
    <3>3. CASE Validate(h)
      <4>1. Step(h, "granted") \/ Done(h) BY <3>3 DEF Validate
      <4>2. CASE Step(h, "granted")
        <5>1. "granted" \in Labels BY DEF Labels
        <5> QED BY <4>2, <5>1, StepSets
      <4>3. CASE Done(h)
        <5>1. psHandler'[h] = Rest /\ \A g \in Handlers \ {h} : psHandler'[g] = psHandler[g]
          BY <4>3, DoneSets
        <5>2. Rest.at = "idle" BY DEF Rest
        <5> QED BY <5>1, <5>2
      <4> QED BY <4>1, <4>2, <4>3
    <3>4. CASE Serve(h) \/ LoggedOut(h)
      BY <3>4, DoneSets DEF Serve, LoggedOut, Rest
    <3>5. CASE LogOut(h)
      <4>1. PICK e \in psMemory : Arrive(h, [Rest EXCEPT !.at = "leave", !.sid = e.sid])
        BY <3>5 DEF LogOut
      <4> QED BY <4>1 DEF Arrive, PsTypeOK, Rest
    <3> QED BY <1>6, <3>1, <3>2, <3>3, <3>4, <3>5
  <2> QED BY <1>5, <2>1, <2>2
<1>7. CASE RestartPanel
  <2>1. \A h \in Handlers : psHandler'[h].at = "idle" BY <1>7 DEF RestartPanel, Rest
  <2>2. Verifying' = {} BY <2>1 DEF Verifying
  <2>3. psLocked' = 0 /\ psWrongs' = 0 /\ psPending' = 0 /\ psClock' = psClock
        BY <1>7 DEF RestartPanel
  <2> QED BY <1>0, <2>2, <2>3, FS_EmptySet DEF LockoutInv, LimiterTypeOK, Allowed, LockedOut
<1>8. CASE Purge \/ RotateToken \/ Tick \/ UNCHANGED psVars
  <2>1. UNCHANGED <<psHandler, psLocked, psWrongs, psPending>> /\ psClock' \in {psClock, psClock + 1}
        BY <1>8 DEF Purge, RotateToken, Tick, psVars
  <2>2. Verifying' = Verifying BY <2>1 DEF Verifying
  <2> QED BY <1>0, <2>1, <2>2 DEF LockoutInv, LimiterTypeOK, Allowed, LockedOut
<1> QED BY <1>1, <1>2, <1>3, <1>4, <1>6, <1>7, <1>8 DEF PsNext

(* Once an address is locked, the only wrong tokens still looked at are those *)
(* of requests that were being verified when it was (web_auth.py,             *)
(* RateLimiter; web_server.py hashes outside the limiter's lock).             *)
THEOREM LockoutHolds == PsSpec => []PsLockoutHolds
<1>1. PsInit => LockoutInv
  <2> SUFFICES ASSUME PsInit PROVE LockoutInv OBVIOUS
  <2>1. Verifying = {} BY DEF PsInit, Verifying, Rest
  <2> QED BY <2>1, FS_EmptySet DEF PsInit, LockoutInv, LimiterTypeOK, Allowed, LockedOut
<1>2. LockoutInv => PsLockoutHolds
  BY FS_CardinalityType DEF LockoutInv, LimiterTypeOK, Allowed, PsLockoutHolds
<1>3. PsIInv => PsTypeOK BY DEF PsIInv
<1> QED BY <1>1, <1>2, <1>3, LockoutStep, StartsSound, StaysSound, PTL DEF PsSpec
=============================================================================
