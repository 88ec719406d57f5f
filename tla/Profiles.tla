------------------------------ MODULE Profiles ------------------------------
(* Managed launch profiles of one suite (internal/profiles).                 *)
(*                                                                           *)
(* What a user sees is merged on every read: the profiles that travel with   *)
(* the package (the seed) overlaid with the records of the stored document,  *)
(* then the records the package does not have, then normalised so that one   *)
(* launchable profile is the default.  Every operation loads, merges,        *)
(* changes the merged list, normalises it and saves the whole of it, under   *)
(* the service's mutex.  A launch asks for the default by file name.         *)
(* The store may fail, a write in the middle; the package may be replaced by *)
(* another version.  The store is the file, without the cache in front of it *)
(* (profiles/cache.go), which goes stale as the one of CatalogCache does.    *)
EXTENDS Integers, Sequences, FiniteSets, SequencesExt

CONSTANTS Releases,       \* the package's versions: the profiles each carries, in order
          Files,          \* file names a user may give a profile
          MaxProfileOps   \* bound: operations

(* No two profiles of a package have one name (perf.yaml beside perf.yml). *)
ASSUME ReleasesAssumption ==
  /\ Releases \in Seq(Seq([file : STRING, default : BOOLEAN])) /\ Releases # <<>> /\ Files \subseteq STRING
  /\ \A r \in DOMAIN Releases : \A i, j \in DOMAIN Releases[r] : Releases[r][i].file = Releases[r][j].file => i = j

VARIABLES release,        \* the package version that is pulled
          document,       \* the stored records, in order
          chosen,         \* history: the default as the last operation left it
          profileOps

profileVars == <<release, document, chosen, profileOps>>

NoProfile == <<>>
seed == Releases[release]
(* scopeFromFileName: a profile whose file name says base cannot be launched *)
Launchable(file) == file # "base"

(* seedSuiteProfiles.  An id is a file name and the number that makes it     *)
(* unique; a seed record has its file name's own                             *)
SeedRecord(p) == [id |-> <<p.file, 1>>, file |-> p.file, default |-> p.default,
                  launchable |-> Launchable(p.file)]

-----------------------------------------------------------------------------
Least(places) == CHOOSE i \in places : \A j \in places : i <= j

(* toLaunchOptions: what can be launched; and which of it is the default *)
LaunchOptions(records) == {i \in DOMAIN records : records[i].launchable}
Marked(records) == {i \in LaunchOptions(records) : records[i].default}

(* a mutant: the last record that asks to be the default gets it *)
NormalizeLastWins(records) ==
  LET asking == Marked(records)
      able   == LaunchOptions(records)
      winner == IF asking # {} THEN CHOOSE i \in asking : \A j \in asking : j <= i
                ELSE IF able # {} THEN Least(able) ELSE 0
  IN  [i \in DOMAIN records |-> [records[i] EXCEPT !.default = (i = winner)]]

(* normalizeRecords: the first launchable record that asks to be the default *)
(* is, the others are not; if none asks, the first launchable one is         *)
NormalizeRecords(records) ==
  LET pool   == IF Marked(records) # {} THEN Marked(records) ELSE LaunchOptions(records)
      winner == IF pool # {} THEN Least(pool) ELSE 0
  IN  [i \in DOMAIN records |-> [records[i] EXCEPT !.default = (i = winner)]]

IndexOf(records, id) ==
  LET found == {i \in DOMAIN records : records[i].id = id}
  IN  IF found = {} THEN 0 ELSE Least(found)

(* the records at the given places, in their order *)
RecordsAt(records, places) ==
  [k \in 1..Cardinality(places) |-> records[CHOOSE i \in places : Cardinality({j \in places : j <= i}) = k]]

(* mergeSuiteProfiles: the package's profiles in its order, each with what   *)
(* the document stores for its id, then the records only the document has    *)
MergeSuiteProfiles(package, records) ==
  LET base == NormalizeRecords([i \in DOMAIN package |-> SeedRecord(package[i])])
      Overlaid(s) == IF IndexOf(records, s.id) = 0 THEN s
                     ELSE [records[IndexOf(records, s.id)] EXCEPT !.launchable = s.launchable]
      extra == RecordsAt(records, {i \in DOMAIN records : IndexOf(base, records[i].id) = 0})
  IN  IF records = <<>> THEN base
      ELSE NormalizeRecords([i \in DOMAIN base |-> Overlaid(base[i])] \o extra)

(* what the page shows; without the document it shows an error *)
Visible == MergeSuiteProfiles(seed, document)

(* what a launch sees: safeLoadDocument answers an empty document when the   *)
(* store cannot be read                                                      *)
SafeLoadDocument(loads) == IF loads THEN document ELSE <<>>
LaunchProfiles(loads) == MergeSuiteProfiles(seed, SafeLoadDocument(loads))

(* defaultProfile, of the profiles package *)
DefaultProfile(records) == IF Marked(records) = {} THEN NoProfile ELSE records[Least(Marked(records))].id

(* the launch's own defaultProfile: the first option marked default, else    *)
(* the first option                                                          *)
LaunchDefault(records) ==
  IF Marked(records) # {} THEN records[Least(Marked(records))].id
  ELSE IF LaunchOptions(records) # {} THEN records[Least(LaunchOptions(records))].id ELSE NoProfile

(* uniqueProfileID: the file name's id, numbered while it is taken           *)
UniqueProfileID(records, file) ==
  LET free == {n \in 1..(Len(records) + 1) : IndexOf(records, <<file, n>>) = 0}
  IN  <<file, Least(free)>>

(* validateRecord: file names are unique among the suite's profiles          *)
FileTaken(records, file, except) ==
  \E i \in DOMAIN records : records[i].id # except /\ records[i].file = file

(* writeSuiteProfiles and Save: the file is truncated and written anew, so   *)
(* that a save that fails leaves it alone or cut short                       *)
SaveProfiles(records) ==
  \/ document' = NormalizeRecords(records)
  \/ UNCHANGED document
  \/ \E n \in 0..(Len(records) - 1) : document' = SubSeq(NormalizeRecords(records), 1, n)
CutShort(records) == document' \notin {document, NormalizeRecords(records)}

-----------------------------------------------------------------------------
ProfilesInit ==
  /\ release = 1 /\ document = <<>>
  /\ chosen = DefaultProfile(MergeSuiteProfiles(seed, <<>>)) /\ profileOps = 0

ProfileOp == profileOps < MaxProfileOps /\ profileOps' = profileOps + 1

(* CreateProfile: the new record goes to the end of the list; it is the      *)
(* default only where there was none                                         *)
CreateProfile(file, default) ==
  LET records == Visible
      record == [id |-> UniqueProfileID(records, file), file |-> file,
                 default |-> default, launchable |-> TRUE]
  IN  /\ ProfileOp
      /\ ~FileTaken(records, file, NoProfile)
      /\ SaveProfiles(NormalizeRecords(Append(records, record)))
      /\ chosen' = IF chosen = NoProfile \/ CutShort(NormalizeRecords(Append(records, record)))
                     THEN DefaultProfile(MergeSuiteProfiles(seed, document')) ELSE chosen
      /\ UNCHANGED release

(* UpdateProfile: the request's file name and default replace the record's *)
UpdateProfile(id, file, default) ==
  LET records == Visible
      i == IndexOf(records, id)
      edited == [records EXCEPT ![i].file = file, ![i].default = default /\ records[i].launchable]
  IN  /\ ProfileOp
      /\ i # 0 /\ ~FileTaken(records, file, id)
      /\ SaveProfiles(NormalizeRecords(edited))
      /\ chosen' = IF records[i].default # default \/ CutShort(NormalizeRecords(edited))
                     THEN DefaultProfile(MergeSuiteProfiles(seed, document')) ELSE chosen
      /\ UNCHANGED release

(* DeleteProfile refuses the profiles that cannot be launched.  A profile of  *)
(* the package is not in the saved list but is merged in again by every read, *)
(* with the default flag the package gives it                                 *)
DeleteProfile(id) ==
  LET records == Visible
      i == IndexOf(records, id)
  IN  /\ ProfileOp
      /\ i # 0 /\ records[i].launchable
      /\ SaveProfiles(NormalizeRecords(RemoveAt(records, i)))
      /\ chosen' = IF \/ id = chosen \/ id \in {SeedRecord(p).id : p \in Range(seed)}
                      \/ CutShort(NormalizeRecords(RemoveAt(records, i)))
                     THEN DefaultProfile(MergeSuiteProfiles(seed, document')) ELSE chosen
      /\ UNCHANGED release

SetDefaultProfile(id) ==
  LET records == Visible
      i == IndexOf(records, id)
      only == [k \in DOMAIN records |-> [records[k] EXCEPT !.default = (records[k].id = id)]]
  IN  /\ ProfileOp
      /\ i # 0 /\ records[i].launchable
      /\ SaveProfiles(NormalizeRecords(only))
      /\ chosen' = IF document' = document THEN chosen
                   ELSE IF CutShort(NormalizeRecords(only)) THEN DefaultProfile(MergeSuiteProfiles(seed, document')) ELSE id
      /\ UNCHANGED release

(* a new version of the package is pulled *)
PackageReplaced ==
  /\ release < Len(Releases) /\ release' = release + 1
  /\ ProfileOp
  /\ chosen' = DefaultProfile(MergeSuiteProfiles(Releases[release'], document))
  /\ UNCHANGED document

ProfilesNext ==
  \/ \E file \in Files, default \in BOOLEAN : CreateProfile(file, default)
  \/ \E i \in DOMAIN Visible, file \in Files, default \in BOOLEAN :
       UpdateProfile(Visible[i].id, file, default)
  \/ \E i \in DOMAIN Visible : DeleteProfile(Visible[i].id) \/ SetDefaultProfile(Visible[i].id)
  \/ PackageReplaced

ProfilesSpec == ProfilesInit /\ [][ProfilesNext]_profileVars

-----------------------------------------------------------------------------
(* The profile a launch without a profile runs with is the one the profiles  *)
(* page shows as the default, and it is the one the user chose: creating a   *)
(* profile, editing one without touching its default flag, or deleting       *)
(* another managed one never moves it, nor does a save that fails unless it  *)
(* cut the file short.  The exception is a launch that cannot read the store *)
(* (service.go:256): it runs with a profile of the package, the one the      *)
(* package would have without the document, whatever was chosen.             *)
DefaultIsTheChosen ==
  /\ DefaultProfile(Visible) = chosen
  /\ \A loads \in BOOLEAN :
       LET default == LaunchDefault(LaunchProfiles(loads))
       IN  IF loads THEN default = chosen
           ELSE \/ default = NoProfile /\ \A p \in Range(seed) : ~Launchable(p.file)
                \/ \E p \in Range(seed) : Launchable(p.file) /\ default = SeedRecord(p).id
=============================================================================
