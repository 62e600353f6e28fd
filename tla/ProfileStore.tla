---------------------------- MODULE ProfileStore ----------------------------
(***************************************************************************)
(* The client's profiles on disk (config.py, profiles.py) and the signing  *)
(* keys it has pinned (profile_trust.py).  The window, the terminal and    *)
(* the daemon are processes of their own and nothing locks these files: an *)
(* import pins the issuer's key, redeems the profile, chooses a directory, *)
(* and writes config.json, its pristine copy and the active pointer, one   *)
(* after another; and every listing of the profiles first moves a          *)
(* configuration of the single-profile days into the new layout.           *)
(* Every profile is called the same here, as two servers' "laptop" are.    *)
(***************************************************************************)
EXTENDS Naturals, FiniteSets

CONSTANTS
    Servers,        \* server.endpoint of the profiles that are imported
    Processes,      \* processes that import or list profiles, by number
    MaxPfOps,       \* bound: imports, edits, removals and resets
    MaxPfKills      \* bound: processes killed in the middle of one

ASSUME ProfileStoreAssumption ==
    /\ Servers # {} /\ "none" \notin Servers
    /\ Processes \subseteq Nat /\ MaxPfOps \in Nat /\ MaxPfKills \in Nat

Ids == 1 .. MaxPfOps + 1                \* slug, slug-2, slug-3, ...
PfKeys == 0 .. MaxPfOps                 \* private keys, by the import that brought them
Addresses == {"issued", "edited"}
Absent == [server |-> "none", address |-> "issued", key |-> 0]
Signers == {"none", "invalid", "first", "second"}

VARIABLES
    pfConfig,   \* profiles/<id>/config.json, Absent when there is none
    pfOriginal, \* profiles/<id>/config.original.json
    pfLegacy,   \* config.json of the single-profile layout
    pfLegacyOriginal,
    pfPointer,  \* the id in active_profile, 0 for none
    pfKnown,    \* known_servers.json: the key pinned for each server, "none" for none
    pfTask,     \* each process: [at, server, signer, known, key, id, again]
    pfPinned,   \* history: the key first pinned for each server
    pfKept,     \* history: the keys that must still be on disk
    pfTrouble,  \* history: "pins" and "files": overlaps and kills at these files
    pfOps, pfKills

pfFiles == <<pfConfig, pfOriginal, pfLegacy, pfLegacyOriginal, pfPointer>>
pfVars == <<pfFiles, pfKnown, pfTask, pfPinned, pfKept, pfTrouble, pfOps, pfKills>>

AtRest == [at |-> "idle", server |-> "none", signer |-> "none",
           known |-> [s \in Servers |-> "none"], key |-> 0, id |-> 0, again |-> FALSE]

PfInit ==
    /\ pfConfig = [i \in Ids |-> Absent] /\ pfOriginal = [i \in Ids |-> Absent]
    /\ pfLegacy = [Absent EXCEPT !.server = CHOOSE s \in Servers : TRUE]
    /\ pfLegacyOriginal = pfLegacy
    /\ pfPointer = 0 /\ pfKnown = [s \in Servers |-> "none"]
    /\ pfTask = [p \in Processes |-> AtRest]
    /\ pfPinned = pfKnown /\ pfKept = {0}
    /\ pfTrouble = {} /\ pfOps = 0 /\ pfKills = 0

-----------------------------------------------------------------------------
(* Helpers.                                                                *)

PfLeast(ids) == CHOOSE i \in ids : \A k \in ids : i <= k

\* list_profiles, after the migration it begins with.
Listed == {i \in Ids : pfConfig[i] # Absent}
ActiveId == IF pfPointer \in Listed THEN pfPointer
            ELSE IF Listed = {} THEN 0 ELSE PfLeast(Listed)
MigrationDue == pfLegacy # Absent /\ Listed = {}

PfBusy(labels) == \E p \in Processes : pfTask[p].at \in labels
PinSteps == {"pin", "pinWrite"}
FileSteps == {"save", "snapshot", "point", "moveOriginal", "moveConfig", "pointMigrated"}

PfTo(p, label) == pfTask' = [pfTask EXCEPT ![p].at = label]
PfEnd(p) == pfTask' = [pfTask EXCEPT ![p] = AtRest]
FirstIdle(p) == pfTask[p] = AtRest /\ \A q \in Processes : q < p => pfTask[q] # AtRest
PfBegins == pfOps < MaxPfOps /\ pfOps' = pfOps + 1

\* A step beside another one at the same files is remembered.
Overlap(p, labels, files) ==
    pfTrouble' = IF \E q \in Processes \ {p} : pfTask[q].at \in labels
                 THEN pfTrouble \cup {files} ELSE pfTrouble

-----------------------------------------------------------------------------
(* import_owcfg_text_with_verdict: the signature.                          *)

\* Signing keys are named in the order in which they turn up for a server.
KeyIsNew(s) == pfPinned[s] = "none" /\ \A q \in Processes : pfTask[q].server # s

\* verify_and_pin: an invalid signature is refused, and so is a profile without
\* one when the server's key is pinned; another key than the pinned one is only
\* reported, and the pin stays.  The private key that the profile will turn out to
\* bring is named here.
VerifyProfile(p) ==
    /\ FirstIdle(p) /\ PfBegins
    /\ \E s \in Servers, signer \in Signers :
          /\ signer # "invalid" /\ ~(signer = "second" /\ KeyIsNew(s))
          /\ (signer = "none" => pfKnown[s] = "none")
          /\ pfTask' = [pfTask EXCEPT ![p] =
                [AtRest EXCEPT !.at = IF signer # "none" /\ pfKnown[s] = "none" THEN "pin"
                                      ELSE "parse",
                               !.server = s, !.signer = signer, !.key = pfOps']]
          /\ IF signer # "none" /\ pfKnown[s] = "none" THEN Overlap(p, PinSteps, "pins")
             ELSE UNCHANGED pfTrouble
    /\ UNCHANGED <<pfFiles, pfKnown, pfPinned, pfKept, pfKills>>

\* Mutant of LoadPins: the file is not read again before it is written.
LoadNoPins(p) ==
    /\ pfTask[p].at = "pin" /\ PfTo(p, "pinWrite")
    /\ UNCHANGED <<pfFiles, pfKnown, pfPinned, pfKept, pfTrouble, pfOps, pfKills>>

\* _pin: the whole file is read, ...
LoadPins(p) ==
    /\ pfTask[p].at = "pin"
    /\ pfTask' = [pfTask EXCEPT ![p].at = "pinWrite", ![p].known = pfKnown]
    /\ UNCHANGED <<pfFiles, pfKnown, pfPinned, pfKept, pfTrouble, pfOps, pfKills>>

\* ... and written back with one more entry; an error is swallowed.
StorePins(p) ==
    /\ pfTask[p].at = "pinWrite"
    /\ pfTask' = [pfTask EXCEPT ![p].at = "parse", ![p].known = AtRest.known]
    /\ \/ LET s == pfTask[p].server
          IN  /\ pfKnown' = [pfTask[p].known EXCEPT ![s] = pfTask[p].signer]
              /\ pfPinned' = IF pfPinned[s] = "none"
                             THEN [pfPinned EXCEPT ![s] = pfTask[p].signer] ELSE pfPinned
       \/ UNCHANGED <<pfKnown, pfPinned>>
    /\ UNCHANGED <<pfFiles, pfKept, pfTrouble, pfOps, pfKills>>

-----------------------------------------------------------------------------
(* _parse and _finish_import.                                              *)

\* The document is parsed and, when it carries a token, redeemed; or it is
\* malformed, from a newer server, expired, without a key or a place to get one,
\* or it could not be enrolled, and the import ends here.
ParseAndRedeem(p) ==
    /\ pfTask[p].at = "parse"
    /\ \/ pfTask' = [pfTask EXCEPT ![p].at = "target", ![p].signer = "none"]
       \/ PfEnd(p)
    /\ UNCHANGED <<pfFiles, pfKnown, pfPinned, pfKept, pfTrouble, pfOps, pfKills>>

\* Mutant of ChooseTarget: the names that are taken are not looked up.
ChooseSlug(p) ==
    /\ pfTask[p].at = "target" /\ ~MigrationDue
    /\ pfTask' = [pfTask EXCEPT ![p].at = "save", ![p].id = 1]
    /\ Overlap(p, FileSteps, "files")
    /\ UNCHANGED <<pfFiles, pfKnown, pfPinned, pfKept, pfOps, pfKills>>

\* target_for_import: the profile of the same server and address, or a new id.
\* Listing the profiles migrates the old layout first.  (An id is always left:
\* there are more of them than operations.)
ChooseTarget(p) ==
    /\ pfTask[p].at = "target" /\ ~MigrationDue
    /\ LET same == {i \in Listed : /\ pfConfig[i].server = pfTask[p].server
                                   /\ pfConfig[i].address = "issued"}
           candidates == IF same # {} THEN same ELSE Ids \ Listed
       IN  /\ candidates # {}
           /\ pfTask' = [pfTask EXCEPT ![p].at = "save", ![p].again = same # {},
                                       ![p].id = PfLeast(candidates)]
    /\ Overlap(p, FileSteps, "files")
    /\ UNCHANGED <<pfFiles, pfKnown, pfPinned, pfKept, pfOps, pfKills>>

Imported(p) == [server |-> pfTask[p].server, address |-> "issued", key |-> pfTask[p].key]

\* config.save(dest): written whole or not at all.
SaveConfig(p) ==
    /\ pfTask[p].at = "save"
    /\ \/ LET i == pfTask[p].id
          IN  /\ PfTo(p, "snapshot")
              /\ pfConfig' = [pfConfig EXCEPT ![i] = Imported(p)]
              /\ pfKept' = (IF pfTask[p].again THEN pfKept \ {pfConfig[i].key} ELSE pfKept)
                           \cup {pfTask[p].key}
              /\ UNCHANGED pfTrouble
       \/ /\ PfEnd(p) /\ pfTrouble' = pfTrouble \cup {"files"}
          /\ UNCHANGED <<pfConfig, pfKept>>
    /\ UNCHANGED <<pfOriginal, pfLegacy, pfLegacyOriginal, pfPointer, pfKnown, pfPinned, pfOps,
                   pfKills>>

\* config.save(original_config_path(dest)).
SaveOriginal(p) ==
    /\ pfTask[p].at = "snapshot" /\ PfTo(p, "point")
    /\ pfOriginal' = [pfOriginal EXCEPT ![pfTask[p].id] = Imported(p)]
    /\ UNCHANGED <<pfConfig, pfLegacy, pfLegacyOriginal, pfPointer, pfKnown, pfPinned, pfKept,
                   pfTrouble, pfOps, pfKills>>

\* profiles.set_active: a profile that is gone by now is an error.
PointAtImport(p) ==
    /\ pfTask[p].at = "point" /\ PfEnd(p)
    /\ pfPointer' = IF pfTask[p].id \in Listed THEN pfTask[p].id ELSE pfPointer
    /\ UNCHANGED <<pfConfig, pfOriginal, pfLegacy, pfLegacyOriginal, pfKnown, pfPinned, pfKept,
                   pfTrouble, pfOps, pfKills>>

-----------------------------------------------------------------------------
(* migrate_legacy: whoever lists the profiles.  Two processes may be in it.*)

BeginMigration(p) ==
    /\ MigrationDue /\ (FirstIdle(p) \/ pfTask[p].at = "target")
    /\ PfTo(p, "moveOriginal")
    /\ UNCHANGED <<pfFiles, pfKnown, pfPinned, pfKept, pfTrouble, pfOps, pfKills>>

\* The pristine copy first, when it is still there.
MoveOriginal(p) ==
    /\ pfTask[p].at = "moveOriginal" /\ PfTo(p, "moveConfig")
    /\ IF pfLegacyOriginal = Absent THEN UNCHANGED <<pfOriginal, pfLegacyOriginal>>
       ELSE /\ pfOriginal' = [pfOriginal EXCEPT ![1] = pfLegacyOriginal]
            /\ pfLegacyOriginal' = Absent
    /\ UNCHANGED <<pfConfig, pfLegacy, pfPointer, pfKnown, pfPinned, pfKept, pfTrouble, pfOps,
                   pfKills>>

\* Then the configuration; another process may have been faster.
MoveConfig(p) ==
    /\ pfTask[p].at = "moveConfig"
    /\ IF pfLegacy = Absent
       THEN /\ IF pfTask[p].server = "none" THEN PfEnd(p) ELSE PfTo(p, "target")
            /\ UNCHANGED <<pfConfig, pfLegacy>>
       ELSE /\ PfTo(p, "pointMigrated")
            /\ pfConfig' = [pfConfig EXCEPT ![1] = pfLegacy] /\ pfLegacy' = Absent
    /\ UNCHANGED <<pfOriginal, pfLegacyOriginal, pfPointer, pfKnown, pfPinned, pfKept, pfTrouble,
                   pfOps, pfKills>>

PointAtMigrated(p) ==
    /\ pfTask[p].at = "pointMigrated" /\ pfPointer' = 1
    /\ IF pfTask[p].server = "none" THEN PfEnd(p) ELSE PfTo(p, "target")
    /\ UNCHANGED <<pfConfig, pfOriginal, pfLegacy, pfLegacyOriginal, pfKnown, pfPinned, pfKept,
                   pfTrouble, pfOps, pfKills>>

-----------------------------------------------------------------------------
(* apply_profile_patch, reset, remove: one step here, ManagerSwitch has the*)
(* rest of them.                                                           *)

\* An edit never touches the key; it may change the tunnel address.
EditActive ==
    /\ ~MigrationDue /\ ActiveId # 0 /\ PfBegins
    /\ pfConfig' = [pfConfig EXCEPT ![ActiveId].address = "edited"]
    /\ UNCHANGED <<pfOriginal, pfLegacy, pfLegacyOriginal, pfPointer, pfKnown, pfTask, pfPinned,
                   pfKept, pfTrouble, pfKills>>

\* Back to the pristine copy, if it can be read.
ResetActive ==
    /\ ~MigrationDue /\ ActiveId # 0 /\ pfOriginal[ActiveId] # Absent /\ PfBegins
    /\ pfConfig' = [pfConfig EXCEPT ![ActiveId] = pfOriginal[ActiveId]]
    /\ pfTrouble' = IF PfBusy({"snapshot"}) THEN pfTrouble \cup {"files"} ELSE pfTrouble
    /\ UNCHANGED <<pfOriginal, pfLegacy, pfLegacyOriginal, pfPointer, pfKnown, pfTask, pfPinned,
                   pfKept, pfKills>>

\* remove: the directory goes; another profile, if any, becomes the active one.
RemoveStored ==
    /\ ~MigrationDue /\ PfBegins
    /\ \E i \in Listed :
          /\ pfConfig' = [pfConfig EXCEPT ![i] = Absent]
          /\ pfOriginal' = [pfOriginal EXCEPT ![i] = Absent]
          /\ pfKept' = pfKept \ {pfConfig[i].key}
          /\ pfPointer' = IF ActiveId # i THEN pfPointer
                          ELSE LET left == Listed \ {i}
                               IN  IF left = {} THEN 0 ELSE PfLeast(left)
    /\ pfTrouble' = IF PfBusy(FileSteps) THEN pfTrouble \cup {"files"} ELSE pfTrouble
    /\ UNCHANGED <<pfLegacy, pfLegacyOriginal, pfKnown, pfTask, pfPinned, pfKills>>

\* A process dies at its files (before them it is an import that comes to nothing).
\* In the middle of write_text it leaves an empty file, which reads as no pins at all.
KillImport(p) ==
    /\ pfTask[p].at \in FileSteps \cup {"pinWrite"} /\ pfKills < MaxPfKills /\ pfKills' = pfKills + 1
    /\ PfEnd(p)
    /\ pfTrouble' = pfTrouble \cup (IF pfTask[p].at = "pinWrite" THEN {"pins"} ELSE {})
                              \cup (IF pfTask[p].at = "snapshot" THEN {"files"} ELSE {})
    /\ \/ UNCHANGED pfKnown
       \/ pfTask[p].at = "pinWrite" /\ pfKnown' = [s \in Servers |-> "none"]
    /\ UNCHANGED <<pfFiles, pfPinned, pfKept, pfOps>>

PfNext ==
    \/ EditActive \/ ResetActive \/ RemoveStored
    \/ \E p \in Processes :
          \/ VerifyProfile(p) \/ LoadPins(p) \/ StorePins(p) \/ ParseAndRedeem(p)
          \/ ChooseTarget(p) \/ SaveConfig(p) \/ SaveOriginal(p) \/ PointAtImport(p)
          \/ BeginMigration(p) \/ MoveOriginal(p) \/ MoveConfig(p) \/ PointAtMigrated(p)
          \/ KillImport(p)

PfSpec == PfInit /\ [][PfNext]_pfVars

-----------------------------------------------------------------------------
(* Properties.                                                             *)

\* The key first pinned for a server stays the pinned one, whatever is imported
\* for it or for another server later, unless two imports were writing the pins
\* at once or one was killed while it wrote: so a profile stripped of its
\* signature is refused from then on.  (profile_trust.py: "a stripped signature
\* must not downgrade the pin".)
PfPinHolds ==
    "pins" \notin pfTrouble =>
        \A s \in Servers : pfPinned[s] # "none" => pfKnown[s] = pfPinned[s]

\* Every private key that was imported is still on disk, in the profile it
\* belongs to or in the file that is about to be migrated, until the same profile
\* is issued again or removed; and "reset to defaults" would not bring back
\* another one.  Unless an import was cut short after its first file, or met
\* another one or a removal at the files.
PfKeysKept ==
    "files" \notin pfTrouble =>
        /\ pfKept \subseteq {c.key : c \in {pfConfig[i] : i \in Listed}
                                           \cup ({pfLegacy} \ {Absent})}
        /\ ~PfBusy(FileSteps) => \A i \in Listed : pfOriginal[i].key = pfConfig[i].key
=============================================================================
