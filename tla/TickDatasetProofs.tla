-------------------------- MODULE TickDatasetProofs --------------------------
(***************************************************************************)
(* Proofs about TickDataset, for any number of chunks, commands and runs   *)
(* and any contents and rules.                                             *)
(***************************************************************************)
EXTENDS TickDataset, SequenceTheorems, TLAPS

-----------------------------------------------------------------------------
(* The inductive invariant *)

Process == [pc: {"idle", "load", "work", "save", "write"}, stages: Seq(Stages),
            at: 1 .. N + 1, force: BOOLEAN, rule: Maybe(Rules), failed: BOOLEAN,
            man: Maybe(Manifest)]

TypeInv == TypeOK /\ procs \in [Procs -> Process]

\* The commands exclude each other: whoever runs has created the lock file.
Exclusive == \A p \in Procs : procs[p].pc # "idle" => lock = p

(***************************************************************************)
(* What a manifest says of a chunk agrees with itself and with the files:  *)
(* a settled download has a checksum, a settled normalization was made     *)
(* from that download, and complete ones are what the files hold.          *)
(***************************************************************************)
Matches(entry, file, made) ==
    LET download == entry.download
        normalize == entry.normalize
    IN  /\ download.status \in Settled => download.sha \in Contents
        /\ download.status = "complete" => file = download.sha
        /\ normalize.status \in Settled =>
             /\ download.status \in Settled
             /\ normalize.raw = download.sha
        /\ normalize.status = "complete" =>
             /\ normalize.sha \in Contents
             /\ made = normalize.sha
             /\ made = file

Sane(man, rs, ns) == \A k \in Chunks : Matches(man.chunks[k], rs[k], ns[k])

\* A report that passed names sound contents only, whatever happened since.
Vetted(man) ==
    (man.validation # None /\ man.validation.ok) =>
        \A k \in Chunks :
            man.validation.fingerprint[k].status = "complete" =>
                man.validation.fingerprint[k].sha \in Sound

ImportMatches(man) ==
    (man.import # None /\ man.import.complete) =>
        /\ man.convert # None
        /\ man.import.fingerprint = man.convert.fingerprint

Proper(man) == Vetted(man) /\ ImportMatches(man)

\* No settled entry of the manifest old differs in the manifest new.
Keeps(old, new) ==
    \A k \in Chunks :
        /\ old.chunks[k].download.status \in Settled =>
             new.chunks[k].download = old.chunks[k].download
        /\ old.chunks[k].normalize.status \in Settled =>
             new.chunks[k].normalize = old.chunks[k].normalize

\* A running command: it knows its rule, and its manifest is on disk or saved next.
Running(p) ==
    /\ procs[p].force => forced
    /\ procs[p].pc # "idle" =>
         /\ procs[p].stages # <<>>
         /\ \A i \in 1 .. Len(procs[p].stages) :
              procs[p].stages[i] = "convert" => procs[p].rule \in Rules
    /\ procs[p].pc \in {"work", "save", "write"} =>
         /\ procs[p].man \in Manifest
         /\ Proper(procs[p].man)
         /\ ~forced => Sane(procs[p].man, raw, normalized)
    /\ procs[p].pc \in {"work", "write"} => disk = procs[p].man
    /\ procs[p].pc = "save" =>
         /\ procs[p].at \in Chunks
         /\ disk \in Manifest
         /\ ~forced => Keeps(disk, procs[p].man)
    /\ procs[p].pc = "write" =>
         /\ MayConvert(procs[p].man)
         /\ procs[p].rule \in Rules

OnDisk ==
    disk # None =>
        /\ disk \in Manifest
        /\ Proper(disk)
        /\ ~forced => Sane(disk, raw, normalized)

Inv ==
    /\ TypeInv
    /\ Exclusive
    /\ \A p \in Procs : Running(p)
    /\ OnDisk
    /\ ConvertedDataWasValidated

-----------------------------------------------------------------------------
(* What the commands make of a manifest *)

LEMMA Numbers == N \in Nat /\ N \in Chunks /\ \A k \in Chunks : k \in Int /\ k + 1 \in 1 .. N + 1
  BY TickDatasetAssumption DEF Chunks

LEMMA EntryParts ==
    ASSUME NEW man \in Manifest, NEW k \in Chunks
    PROVE  man.chunks[k].download \in Download /\ man.chunks[k].normalize \in Normalize
  BY DEF Manifest

LEMMA FingerprintType ==
    ASSUME NEW man \in Manifest
    PROVE  Fingerprint(man) \in Fingerprints
  BY EntryParts DEF Fingerprint, Fingerprints, Normalize

LEMMA NewManifestIsProper ==
    /\ NewManifest \in Manifest
    /\ Proper(NewManifest)
    /\ \A rs, ns : Sane(NewManifest, rs, ns)
  <1>1. NewManifest \in Manifest
    BY DEF NewManifest, Manifest, NotDownloaded, NotNormalized, Download, Normalize, Maybe
  <1>2. Proper(NewManifest)
    BY DEF NewManifest, Proper, Vetted, ImportMatches
  <1>3. \A rs, ns : Sane(NewManifest, rs, ns)
    BY DEF NewManifest, Sane, Matches, NotDownloaded, NotNormalized, Settled
  <1> QED
    BY <1>1, <1>2, <1>3

\* A new entry for a chunk changes nothing else of a manifest.
LEMMA DownloadNoted ==
    ASSUME NEW p \in Procs, procs[p].man \in Manifest, Here(p) \in Chunks,
           NEW download \in Download
    PROVE  LET man == procs[p].man
               new == WithDownload(p, download)
           IN  /\ new \in Manifest
               /\ new.chunks[Here(p)] = [download |-> download, normalize |-> NotNormalized]
               /\ \A k \in Chunks \ {Here(p)} : new.chunks[k] = man.chunks[k]
               /\ Proper(man) => Proper(new)
  <1> DEFINE man == procs[p].man
             entry == [download |-> download, normalize |-> NotNormalized]
             new == WithDownload(p, download)
  <1>1. entry \in [download: Download, normalize: Normalize]
    BY DEF NotNormalized, Normalize, Maybe
  <1>2. /\ new = [man EXCEPT !.chunks = [man.chunks EXCEPT ![Here(p)] = entry]]
        /\ man.chunks \in [Chunks -> [download: Download, normalize: Normalize]]
    BY DEF WithDownload, Manifest
  <1>3. /\ new.chunks = [man.chunks EXCEPT ![Here(p)] = entry]
        /\ new.validation = man.validation /\ new.convert = man.convert
        /\ new.import = man.import /\ new.verification = man.verification
    BY <1>2 DEF Manifest
  <1>4. new \in Manifest
    <2> DEFINE chunks == [man.chunks EXCEPT ![Here(p)] = entry]
    <2>1. chunks \in [Chunks -> [download: Download, normalize: Normalize]]
      BY <1>1, <1>2
    <2>2. new = [man EXCEPT !.chunks = chunks]
      BY <1>2
    <2> HIDE DEF chunks, new
    <2> QED
      BY <2>1, <2>2 DEF Manifest
  <1> QED
    BY <1>2, <1>3, <1>4 DEF Proper, Vetted, ImportMatches

LEMMA NormalizeNoted ==
    ASSUME NEW p \in Procs, procs[p].man \in Manifest, Here(p) \in Chunks,
           NEW normalize \in Normalize
    PROVE  LET man == procs[p].man
               new == WithNormalize(p, normalize)
           IN  /\ new \in Manifest
               /\ new.chunks[Here(p)] = [download |-> man.chunks[Here(p)].download,
                                         normalize |-> normalize]
               /\ \A k \in Chunks \ {Here(p)} : new.chunks[k] = man.chunks[k]
               /\ Proper(man) => Proper(new)
  <1> DEFINE man == procs[p].man
             k == Here(p)
             entry == [man.chunks[k] EXCEPT !.normalize = normalize]
             new == WithNormalize(p, normalize)
  <1>1. /\ entry = [download |-> man.chunks[k].download, normalize |-> normalize]
        /\ entry \in [download: Download, normalize: Normalize]
    BY DEF Manifest
  <1>2. /\ new = [man EXCEPT !.chunks = [man.chunks EXCEPT ![k] = entry]]
        /\ man.chunks \in [Chunks -> [download: Download, normalize: Normalize]]
    BY DEF WithNormalize, Manifest
  <1>3. /\ new.chunks = [man.chunks EXCEPT ![k] = entry]
        /\ new.validation = man.validation /\ new.convert = man.convert
        /\ new.import = man.import /\ new.verification = man.verification
    BY <1>2 DEF Manifest
  <1>4. new \in Manifest
    <2> DEFINE chunks == [man.chunks EXCEPT ![k] = entry]
    <2>1. chunks \in [Chunks -> [download: Download, normalize: Normalize]]
      BY <1>1, <1>2
    <2>2. new = [man EXCEPT !.chunks = chunks]
      BY <1>2
    <2> HIDE DEF chunks, new
    <2> QED
      BY <2>1, <2>2 DEF Manifest
  <1> QED
    BY <1>1, <1>2, <1>3, <1>4 DEF Proper, Vetted, ImportMatches

-----------------------------------------------------------------------------
(* A step of one command: the others are idle. *)

LEMMA Alone ==
    ASSUME Inv, NEW p \in Procs, procs[p].pc # "idle", NEW q \in Procs, q # p
    PROVE  procs[q].pc = "idle"
  BY DEF Inv, Exclusive

LEMMA AtWork ==
    ASSUME Inv, NEW p \in Procs, procs[p].pc \in {"work", "write"}
    PROVE  /\ procs[p].man \in Manifest /\ Proper(procs[p].man) /\ disk = procs[p].man
           /\ ~forced => Sane(procs[p].man, raw, normalized)
           /\ procs[p] \in Process /\ lock = p
  BY DEF Inv, Running, TypeInv, Exclusive

\* The others stay idle, so that only the invariant of p is left to show.
LEMMA OneStep ==
    ASSUME Inv, NEW p \in Procs, \A q \in Procs \ {p} : procs[q].pc = "idle",
           procs' \in [Procs -> Process],
           \A q \in Procs \ {p} : procs'[q] = procs[q],
           procs'[p].pc # "idle" => lock' = p,
           forced => forced',
           lock' \in Maybe(Procs), runs' \in Nat, forced' \in BOOLEAN,
           raw' \in [Chunks -> Maybe(Contents)],
           normalized' \in [Chunks -> Maybe(Contents)],
           mt5' \in [Chunks -> Maybe(MonthFile)],
           Running(p)', OnDisk', ConvertedDataWasValidated'
    PROVE  Inv'
  <1>1. disk' \in Maybe(Manifest)
    BY DEF OnDisk, Maybe
  <1>2. TypeInv'
    BY <1>1 DEF TypeInv, TypeOK, Process
  <1>3. Exclusive'
    BY DEF Exclusive
  <1>4. \A q \in Procs : Running(q)'
    BY DEF Inv, Running
  <1> QED
    BY <1>2, <1>3, <1>4 DEF Inv

\* The manifest in memory changes, and the files of a chunk that is not settled.
LEMMA NoteStep ==
    ASSUME Inv, NEW p \in Procs, procs[p].pc \in {"work", "write"},
           NEW man \in Manifest, Proper(man), NEW at \in Chunks, NEW failed \in BOOLEAN,
           Note(p, man, at, failed), UNCHANGED <<lock, disk, mt5, runs, forced>>,
           raw' \in [Chunks -> Maybe(Contents)],
           normalized' \in [Chunks -> Maybe(Contents)],
           ~forced => /\ Sane(man, raw', normalized')
                      /\ Sane(procs[p].man, raw', normalized')
                      /\ Keeps(procs[p].man, man)
    PROVE  Inv'
  <1>1. procs[p] \in Process /\ disk = procs[p].man /\ disk \in Manifest /\ Proper(disk)
    BY AtWork
  <1>2. /\ procs'[p] = [procs[p] EXCEPT !.pc = "save", !.man = man, !.at = at,
                                        !.failed = procs[p].failed \/ failed]
        /\ \A q \in Procs \ {p} : procs'[q] = procs[q]
        /\ procs' \in [Procs -> Process]
    <2> DEFINE new == [procs[p] EXCEPT !.pc = "save", !.man = man, !.at = at,
                                       !.failed = procs[p].failed \/ failed]
    <2>1. procs \in [Procs -> Process] /\ procs' = [procs EXCEPT ![p] = new]
      BY DEF Note, Inv, TypeInv
    <2>2. at \in 1 .. N + 1 /\ man \in Maybe(Manifest) /\ (procs[p].failed \/ failed) \in BOOLEAN
      BY <1>1, Numbers DEF Chunks, Maybe, Process
    <2>3. new \in Process
      BY <1>1, <2>2 DEF Process
    <2> HIDE DEF new
    <2>4. procs'[p] = new /\ \A q \in Procs \ {p} : procs'[q] = procs[q]
      BY <2>1
    <2>5. procs' \in [Procs -> Process]
      BY <2>1, <2>3
    <2> QED
      BY <2>4, <2>5 DEF new
  <1>3. /\ procs'[p].pc = "save" /\ procs'[p].man = man /\ procs'[p].at = at
        /\ procs'[p].stages = procs[p].stages /\ procs'[p].force = procs[p].force
        /\ procs'[p].rule = procs[p].rule
    BY <1>1, <1>2 DEF Process
  <1>4. Running(p)
    BY DEF Inv
  <1>5. Running(p)'
    BY <1>1, <1>3, <1>4 DEF Running
  <1>6. OnDisk' /\ ConvertedDataWasValidated'
    BY <1>1 DEF Inv, OnDisk, ConvertedDataWasValidated, OnlyValidatedIsConverted
  <1>7. /\ lock' \in Maybe(Procs) /\ lock' = p /\ runs' \in Nat /\ forced' \in BOOLEAN
        /\ mt5' \in [Chunks -> Maybe(MonthFile)]
        /\ \A q \in Procs \ {p} : procs[q].pc = "idle"
    BY Alone, AtWork DEF Inv, TypeInv, TypeOK
  <1> QED
    BY <1>2, <1>5, <1>6, <1>7, OneStep

\* A command ends, whatever becomes of the lock file.
LEMMA EndStep ==
    ASSUME Inv, NEW p \in Procs, procs[p].pc # "idle", procs' = [procs EXCEPT ![p] = Idle],
           lock' \in {None, lock}, UNCHANGED <<disk, mt5, runs, forced>>,
           raw' \in [Chunks -> Maybe(Contents)],
           normalized' \in [Chunks -> Maybe(Contents)],
           ~forced /\ disk # None => Sane(disk, raw', normalized')
    PROVE  Inv'
  <1>1. Idle \in Process /\ Idle.pc = "idle" /\ Idle.force = FALSE
    BY Numbers DEF Idle, Process, Maybe
  <1>2. /\ procs'[p] = Idle
        /\ \A q \in Procs \ {p} : procs'[q] = procs[q]
        /\ procs' \in [Procs -> Process]
    BY <1>1 DEF Inv, TypeInv
  <1>3. Running(p)'
    BY <1>1, <1>2 DEF Running
  <1>4. OnDisk' /\ ConvertedDataWasValidated'
    BY DEF Inv, OnDisk, ConvertedDataWasValidated, OnlyValidatedIsConverted
  <1>5. /\ lock' \in Maybe(Procs) /\ runs' \in Nat /\ forced' \in BOOLEAN
        /\ mt5' \in [Chunks -> Maybe(MonthFile)]
        /\ \A q \in Procs \ {p} : procs[q].pc = "idle"
    BY Alone DEF Inv, TypeInv, TypeOK, Maybe
  <1> QED
    BY <1>1, <1>2, <1>3, <1>4, <1>5, OneStep

LEMMA RaiseStep ==
    ASSUME Inv, NEW p \in Procs, procs[p].pc # "idle", Raise(p), UNCHANGED mt5,
           raw' \in [Chunks -> Maybe(Contents)],
           normalized' \in [Chunks -> Maybe(Contents)],
           ~forced /\ disk # None => Sane(disk, raw', normalized')
    PROVE  Inv'
  BY EndStep DEF Raise, End

\* A running command goes on, to its next chunk or stage or to the month files.
LEMMA GoOnStep ==
    ASSUME Inv, NEW p \in Procs, procs[p].pc \in {"work", "write"},
           NEW new \in Process, procs' = [procs EXCEPT ![p] = new],
           new.pc \in {"work", "write"}, new.man = procs[p].man,
           new.force = procs[p].force, new.rule = procs[p].rule,
           new.stages # <<>>,
           \A i \in 1 .. Len(new.stages) : new.stages[i] = "convert" => new.rule \in Rules,
           new.pc = "write" => MayConvert(procs[p].man) /\ procs[p].rule \in Rules,
           UNCHANGED <<lock, disk, raw, normalized, runs, forced>>,
           mt5' \in [Chunks -> Maybe(MonthFile)], ConvertedDataWasValidated'
    PROVE  Inv'
  <1>1. /\ procs'[p] = new /\ \A q \in Procs \ {p} : procs'[q] = procs[q]
        /\ procs' \in [Procs -> Process]
    BY DEF Inv, TypeInv
  <1>2. Running(p)'
    BY <1>1 DEF Inv, Running
  <1>3. OnDisk'
    BY DEF Inv, OnDisk
  <1>4. /\ lock' \in Maybe(Procs) /\ lock' = p /\ runs' \in Nat /\ forced' \in BOOLEAN
        /\ raw' \in [Chunks -> Maybe(Contents)] /\ normalized' \in [Chunks -> Maybe(Contents)]
        /\ \A q \in Procs \ {p} : procs[q].pc = "idle"
    BY Alone, AtWork DEF Inv, TypeInv, TypeOK
  <1> QED
    BY <1>1, <1>2, <1>3, <1>4, OneStep

LEMMA PassStep ==
    ASSUME Inv, NEW p \in Procs, procs[p].pc \in {"work", "write"}, Here(p) \in Chunks,
           NEW failed \in BOOLEAN, Pass(p, failed),
           UNCHANGED <<lock, disk, raw, normalized, runs, forced>>,
           mt5' \in [Chunks -> Maybe(MonthFile)], ConvertedDataWasValidated'
    PROVE  Inv'
  <1> DEFINE new == [procs[p] EXCEPT !.at = procs[p].at + 1,
                                     !.failed = procs[p].failed \/ failed]
  <1>1. procs[p] \in Process /\ Running(p)
    BY AtWork DEF Inv
  <1>2. procs[p].at + 1 \in 1 .. N + 1 /\ (procs[p].failed \/ failed) \in BOOLEAN
    BY <1>1, Numbers DEF Here, Process
  <1>3. /\ new \in Process /\ new.pc = procs[p].pc /\ new.man = procs[p].man
        /\ new.force = procs[p].force /\ new.rule = procs[p].rule
        /\ new.stages = procs[p].stages
    BY <1>1, <1>2 DEF Process
  <1>4. procs' = [procs EXCEPT ![p] = new]
    BY DEF Pass
  <1> HIDE DEF new
  <1>5. /\ new.stages # <<>>
        /\ \A i \in 1 .. Len(new.stages) : new.stages[i] = "convert" => new.rule \in Rules
        /\ new.pc = "write" => MayConvert(procs[p].man) /\ procs[p].rule \in Rules
    BY <1>1, <1>3 DEF Running
  <1> QED
    BY <1>3, <1>4, <1>5, GoOnStep

LEMMA StartStep ==
    ASSUME Inv, NEW p \in Procs, NEW command \in Commands, NEW force \in ForcesOf(command),
           NEW rule \in RulesOf(command), Start(p, command, force, rule)
    PROVE  Inv'
  <1> DEFINE new == [Idle EXCEPT !.pc = "load", !.stages = command, !.force = force,
                                 !.rule = rule]
  <1>1. lock = None /\ lock' = p /\ forced' = (forced \/ force) /\ runs' = runs + 1
        /\ UNCHANGED <<disk, raw, normalized, mt5>> /\ procs' = [procs EXCEPT ![p] = new]
    BY DEF Start, StartUnlocked, files
  <1>2. force \in BOOLEAN
    BY TickDatasetAssumption DEF ForcesOf
  <1>3. /\ command \in Seq(Stages) /\ command # <<>>
        /\ \A i \in 1 .. Len(command) : command[i] = "convert" => rule \in Rules
        /\ rule \in Maybe(Rules)
    <2>1. CASE \E s \in Stages : command = <<s>>
      BY <2>1 DEF RulesOf, Maybe
    <2>2. CASE command = <<"download", "normalize", "validate">>
      BY <2>2 DEF RulesOf, Maybe, Stages
    <2>3. CASE command = <<"download", "normalize", "validate", "convert">>
      BY <2>3 DEF RulesOf, Maybe, Stages
    <2> QED
      BY <2>1, <2>2, <2>3 DEF Commands
  <1>4. Idle \in Process
    BY Numbers DEF Idle, Process, Maybe
  <1>5. /\ new.pc = "load" /\ new.stages = command /\ new.force = force /\ new.rule = rule
        /\ new \in Process
    BY <1>2, <1>3, <1>4 DEF Process
  <1> HIDE DEF new
  <1>6. \A q \in Procs : procs[q].pc = "idle"
    BY <1>1, TickDatasetAssumption DEF Inv, Exclusive
  <1>7. /\ procs'[p] = new /\ \A q \in Procs \ {p} : procs'[q] = procs[q]
        /\ procs' \in [Procs -> Process]
    BY <1>1, <1>5 DEF Inv, TypeInv
  <1>8. Running(p)'
    BY <1>1, <1>2, <1>3, <1>5, <1>7 DEF Running
  <1>9. OnDisk' /\ ConvertedDataWasValidated'
    BY <1>1, <1>2 DEF Inv, OnDisk, ConvertedDataWasValidated, OnlyValidatedIsConverted,
                      TypeInv, TypeOK
  <1>10. /\ lock' \in Maybe(Procs) /\ runs' \in Nat /\ forced' \in BOOLEAN
         /\ raw' \in [Chunks -> Maybe(Contents)] /\ normalized' \in [Chunks -> Maybe(Contents)]
         /\ mt5' \in [Chunks -> Maybe(MonthFile)]
         /\ forced => forced'
    BY <1>1, <1>2 DEF Inv, TypeInv, TypeOK, Maybe
  <1> QED
    BY <1>1, <1>6, <1>7, <1>8, <1>9, <1>10, OneStep

LEMMA LoadStep ==
    ASSUME Inv, NEW p \in Procs, Load(p)
    PROVE  Inv'
  <1> DEFINE man == IF disk = None THEN NewManifest ELSE disk
             new == [procs[p] EXCEPT !.pc = "work", !.man = man]
  <1>1. /\ procs[p].pc = "load" /\ disk' = man /\ procs' = [procs EXCEPT ![p] = new]
        /\ UNCHANGED <<lock, raw, normalized, mt5, runs, forced>>
    BY DEF Load, files
  <1>2. /\ man \in Manifest /\ Proper(man)
        /\ ~forced => Sane(man, raw, normalized)
    BY NewManifestIsProper DEF Inv, OnDisk
  <1> HIDE DEF man
  <1>3. procs[p] \in Process /\ Running(p) /\ lock = p
    BY <1>1 DEF Inv, TypeInv, Exclusive
  <1>4. /\ new \in Process /\ new.pc = "work" /\ new.man = man
        /\ new.stages = procs[p].stages /\ new.force = procs[p].force
        /\ new.rule = procs[p].rule
    BY <1>2, <1>3 DEF Process, Maybe
  <1> HIDE DEF new
  <1>5. /\ procs'[p] = new /\ \A q \in Procs \ {p} : procs'[q] = procs[q]
        /\ procs' \in [Procs -> Process]
    BY <1>1, <1>4 DEF Inv, TypeInv
  <1>6. Running(p)'
    BY <1>1, <1>2, <1>3, <1>4, <1>5 DEF Running
  <1>7. OnDisk' /\ ConvertedDataWasValidated'
    BY <1>1, <1>2 DEF Inv, OnDisk, ConvertedDataWasValidated, OnlyValidatedIsConverted
  <1>8. /\ lock' \in Maybe(Procs) /\ lock' = p /\ runs' \in Nat /\ forced' \in BOOLEAN
        /\ raw' \in [Chunks -> Maybe(Contents)] /\ normalized' \in [Chunks -> Maybe(Contents)]
        /\ mt5' \in [Chunks -> Maybe(MonthFile)]
        /\ \A q \in Procs \ {p} : procs[q].pc = "idle"
    BY <1>1, <1>3, Alone DEF Inv, TypeInv, TypeOK
  <1> QED
    BY <1>1, <1>5, <1>6, <1>7, <1>8, OneStep

LEMMA SaveStep ==
    ASSUME Inv, NEW p \in Procs, Save(p)
    PROVE  Inv'
  <1> DEFINE man == procs[p].man
             new == [procs[p] EXCEPT !.pc = "work", !.at = procs[p].at + 1]
  <1>1. /\ procs[p].pc = "save" /\ disk' = man /\ procs' = [procs EXCEPT ![p] = new]
        /\ UNCHANGED <<lock, raw, normalized, mt5, runs, forced>>
    BY DEF Save, files
  <1>2. procs[p] \in Process /\ Running(p) /\ lock = p
    BY <1>1 DEF Inv, TypeInv, Exclusive
  <1>3. /\ man \in Manifest /\ Proper(man)
        /\ ~forced => Sane(man, raw, normalized)
        /\ procs[p].at + 1 \in 1 .. N + 1
    BY <1>1, <1>2, Numbers DEF Running
  <1>4. /\ new \in Process /\ new.pc = "work" /\ new.man = man
        /\ new.stages = procs[p].stages /\ new.force = procs[p].force
        /\ new.rule = procs[p].rule
    BY <1>2, <1>3 DEF Process
  <1> HIDE DEF new
  <1>5. /\ procs'[p] = new /\ \A q \in Procs \ {p} : procs'[q] = procs[q]
        /\ procs' \in [Procs -> Process]
    BY <1>1, <1>4 DEF Inv, TypeInv
  <1>6. Running(p)'
    BY <1>1, <1>2, <1>3, <1>4, <1>5 DEF Running
  <1>7. OnDisk' /\ ConvertedDataWasValidated'
    BY <1>1, <1>3 DEF Inv, OnDisk, ConvertedDataWasValidated, OnlyValidatedIsConverted
  <1>8. /\ lock' \in Maybe(Procs) /\ lock' = p /\ runs' \in Nat /\ forced' \in BOOLEAN
        /\ raw' \in [Chunks -> Maybe(Contents)] /\ normalized' \in [Chunks -> Maybe(Contents)]
        /\ mt5' \in [Chunks -> Maybe(MonthFile)]
        /\ \A q \in Procs \ {p} : procs[q].pc = "idle"
    BY <1>1, <1>2, Alone DEF Inv, TypeInv, TypeOK
  <1> QED
    BY <1>1, <1>5, <1>6, <1>7, <1>8, OneStep

LEMMA FinishStageStep ==
    ASSUME Inv, NEW p \in Procs, FinishStage(p)
    PROVE  Inv'
  <1>1. /\ procs[p].pc = "work"
        /\ UNCHANGED <<disk, raw, normalized, mt5, runs, forced>>
        /\ procs[p] \in Process /\ Running(p)
    BY DEF FinishStage, files, Inv, TypeInv
  <1>2. CASE End(p)
    <2>1. /\ raw' \in [Chunks -> Maybe(Contents)]
          /\ normalized' \in [Chunks -> Maybe(Contents)]
          /\ ~forced /\ disk # None => Sane(disk, raw', normalized')
      BY <1>1 DEF Inv, TypeInv, TypeOK, OnDisk
    <2> QED
      BY <1>1, <1>2, <2>1, EndStep DEF End
  <1>3. CASE /\ Len(procs[p].stages) # 1 /\ UNCHANGED lock
             /\ procs' = [procs EXCEPT ![p].stages = Tail(@), ![p].at = 1]
    <2> DEFINE old == procs[p].stages
               new == [procs[p] EXCEPT !.stages = Tail(old), !.at = 1]
    <2>1. old \in Seq(Stages) /\ old # <<>> /\ Len(old) # 1
      BY <1>1, <1>3 DEF Process, Running
    <2>2. /\ Tail(old) \in Seq(Stages) /\ Tail(old) # <<>>
          /\ Len(Tail(old)) = Len(old) - 1 /\ Len(old) \in Nat
          /\ \A i \in 1 .. Len(Tail(old)) : Tail(old)[i] = old[i + 1]
      <3>1. Len(old) \in Nat /\ Len(old) # 0
        BY <2>1, EmptySeq, LenProperties
      <3>2. /\ Tail(old) \in Seq(Stages) /\ Len(Tail(old)) = Len(old) - 1
            /\ \A i \in 1 .. Len(Tail(old)) : Tail(old)[i] = old[i + 1]
        BY <2>1, HeadTailProperties
      <3>3. Tail(old) # <<>>
        <4>1. Len(Tail(old)) # 0
          BY <2>1, <3>1, <3>2
        <4> QED
          BY <3>2, <4>1, EmptySeq
      <3> QED
        BY <3>1, <3>2, <3>3
    <2>3. \A i \in 1 .. Len(Tail(old)) : Tail(old)[i] = "convert" => procs[p].rule \in Rules
      BY <1>1, <2>2 DEF Running
    <2> HIDE DEF old
    <2>4. /\ new \in Process /\ new.pc = "work" /\ new.man = procs[p].man
          /\ new.force = procs[p].force /\ new.rule = procs[p].rule
          /\ new.stages = Tail(old)
      <3>1. 1 \in 1 .. N + 1
        BY Numbers
      <3> QED
        BY <1>1, <2>2, <3>1 DEF Process
    <2>5. procs' = [procs EXCEPT ![p] = new]
      BY <1>3 DEF old
    <2>6. mt5' \in [Chunks -> Maybe(MonthFile)] /\ ConvertedDataWasValidated'
      BY <1>1 DEF Inv, TypeInv, TypeOK, ConvertedDataWasValidated, OnlyValidatedIsConverted
    <2> HIDE DEF new
    <2> QED
      <3>1. /\ new.stages # <<>>
            /\ \A i \in 1 .. Len(new.stages) : new.stages[i] = "convert" => new.rule \in Rules
            /\ new.pc # "write"
        BY <2>2, <2>3, <2>4
      <3> QED
        BY <1>1, <1>3, <2>4, <2>5, <2>6, <3>1, GoOnStep
  <1> QED
    BY <1>2, <1>3 DEF FinishStage

-----------------------------------------------------------------------------
(* download and normalize touch only what is not settled. *)

\* A chunk that is worked on, and what is known of its entry.
LEMMA WorkedOn ==
    ASSUME Inv, NEW p \in Procs, NEW stage, InStage(p, stage)
    PROVE  /\ procs[p].pc = "work" /\ Here(p) \in Chunks
           /\ procs[p].man \in Manifest /\ Proper(procs[p].man) /\ disk = procs[p].man
           /\ Entry(p) = procs[p].man.chunks[Here(p)]
           /\ Entry(p).download \in Download /\ Entry(p).normalize \in Normalize
           /\ ~forced => Sane(procs[p].man, raw, normalized)
           /\ ~forced => ~procs[p].force
           /\ raw \in [Chunks -> Maybe(Contents)] /\ normalized \in [Chunks -> Maybe(Contents)]
  BY AtWork, EntryParts DEF InStage, Here, Entry, Inv, Running, TypeInv, TypeOK

LEMMA FetchIsOfUnsettled ==
    ASSUME Inv, NEW p \in Procs, InStage(p, "download"), ~SkipDownload(p), ~forced
    PROVE  Entry(p).download.status \notin Settled /\ Entry(p).normalize.status \notin Settled
  <1> DEFINE k == Here(p)
  <1>1. k \in Chunks /\ ~AlreadyDownloaded(Entry(p).download, raw[k])
    BY WorkedOn DEF SkipDownload
  <1>2. Matches(Entry(p), raw[k], normalized[k])
    BY <1>1, WorkedOn DEF Sane
  <1>3. Entry(p).download.status # "empty"
    BY <1>1 DEF AlreadyDownloaded
  <1>4. Entry(p).download.status # "complete"
    BY <1>1, <1>2, TickDatasetAssumption DEF AlreadyDownloaded, Matches, Settled
  <1> QED
    BY <1>2, <1>3, <1>4 DEF Matches, Settled

LEMMA NormalizeIsOfUnsettled ==
    ASSUME Inv, NEW p \in Procs, InStage(p, "normalize"), ~SkipNormalize(p), ~forced
    PROVE  Entry(p).normalize.status \notin Settled
  <1> DEFINE k == Here(p)
  <1>1. Matches(Entry(p), raw[k], normalized[k])
    BY WorkedOn DEF Sane
  <1>2. CASE Entry(p).normalize.status \in Settled
    <2>1. Entry(p).normalize.raw = Entry(p).download.sha
      BY <1>1, <1>2 DEF Matches
    <2>2. Entry(p).normalize.status = "complete" => normalized[k] # None
      BY <1>1, TickDatasetAssumption DEF Matches
    <2> QED
      BY <1>2, <2>1, <2>2, WorkedOn DEF SkipNormalize
  <1> QED
    BY <1>2

\* An entry that is not settled matches any file.
LEMMA UnsettledMatches ==
    ASSUME NEW entry, entry.download.status \notin Settled,
           entry.normalize.status \notin Settled
    PROVE  \A file, made : Matches(entry, file, made)
  BY DEF Matches, Settled

\* The raw file of one chunk may be replaced, as its download is not settled.
LEMMA RawReplaced ==
    ASSUME Inv, NEW p \in Procs, InStage(p, "download"), ~SkipDownload(p),
           MayReplaceRaw(Here(p)), UNCHANGED normalized
    PROVE  /\ raw' \in [Chunks -> Maybe(Contents)]
           /\ normalized' \in [Chunks -> Maybe(Contents)]
           /\ \A j \in Chunks \ {Here(p)} : raw'[j] = raw[j]
           /\ ~forced => Sane(procs[p].man, raw', normalized')
  <1> DEFINE k == Here(p)
  <1>1. k \in Chunks /\ raw \in [Chunks -> Maybe(Contents)]
    BY WorkedOn
  <1>2. /\ raw' \in [Chunks -> Maybe(Contents)]
        /\ \A j \in Chunks \ {k} : raw'[j] = raw[j]
    BY <1>1 DEF MayReplaceRaw, Maybe
  <1>3. ~forced => Matches(procs[p].man.chunks[k], raw'[k], normalized'[k])
    BY FetchIsOfUnsettled, WorkedOn, UnsettledMatches
  <1> QED
    BY <1>1, <1>2, <1>3, WorkedOn DEF Sane

\* The chunk's entry is replaced by that of a download that the raw file agrees with.
LEMMA DownloadStep ==
    ASSUME Inv, NEW p \in Procs, InStage(p, "download"), ~SkipDownload(p),
           MayReplaceRaw(Here(p)), NEW download \in Download, NEW failed \in BOOLEAN,
           Note(p, WithDownload(p, download), Here(p), failed),
           download.status \in Settled => download.sha \in Contents,
           download.status = "complete" => raw'[Here(p)] = download.sha,
           UNCHANGED <<lock, disk, normalized, mt5, runs, forced>>
    PROVE  Inv'
  <1> DEFINE k == Here(p)
             man == procs[p].man
             new == WithDownload(p, download)
  <1>1. k \in Chunks /\ man \in Manifest /\ Proper(man) /\ procs[p].pc = "work"
    BY WorkedOn
  <1>2. /\ new \in Manifest /\ Proper(new)
        /\ new.chunks[k] = [download |-> download, normalize |-> NotNormalized]
        /\ \A j \in Chunks \ {k} : new.chunks[j] = man.chunks[j]
    BY <1>1, DownloadNoted
  <1>3. /\ raw' \in [Chunks -> Maybe(Contents)] /\ normalized' \in [Chunks -> Maybe(Contents)]
        /\ \A j \in Chunks \ {k} : raw'[j] = raw[j]
        /\ ~forced => Sane(man, raw', normalized')
    BY RawReplaced
  <1>4. Matches(new.chunks[k], raw'[k], normalized'[k])
    BY <1>2 DEF Matches, NotNormalized, Settled
  <1> HIDE DEF new
  <1>5. ~forced => Sane(new, raw', normalized')
    BY <1>1, <1>2, <1>3, <1>4 DEF Sane
  <1>6. ~forced => Keeps(man, new)
    BY <1>1, <1>2, FetchIsOfUnsettled, WorkedOn DEF Keeps
  <1> QED
    BY <1>1, <1>2, <1>3, <1>5, <1>6, NoteStep DEF new

LEMMA DownloadSteps ==
    ASSUME Inv, NEW p \in Procs,
           DownloadSkipped(p) \/ Fetch(p) \/ FetchFails(p) \/ FetchRefused(p)
    PROVE  Inv'
  <1>1. CASE DownloadSkipped(p)
    <2>1. mt5' \in [Chunks -> Maybe(MonthFile)] /\ ConvertedDataWasValidated'
      BY <1>1 DEF DownloadSkipped, files, Inv, TypeInv, TypeOK, ConvertedDataWasValidated,
                  OnlyValidatedIsConverted
    <2> QED
      BY <1>1, <2>1, WorkedOn, PassStep DEF DownloadSkipped, files
  <1>2. CASE Fetch(p)
    <2>1. PICK x \in Contents :
            /\ raw' = [raw EXCEPT ![Here(p)] = x]
            /\ Note(p, WithDownload(p, [status |-> DownloadStatus(x), sha |-> x]),
                    Here(p), FALSE)
      BY <1>2 DEF Fetch
    <2>2. [status |-> DownloadStatus(x), sha |-> x] \in Download
      BY DEF DownloadStatus, Download, Maybe
    <2>3. raw'[Here(p)] = x /\ MayReplaceRaw(Here(p))
      BY <1>2, <2>1, WorkedOn DEF Fetch, MayReplaceRaw
    <2> QED
      BY <1>2, <2>1, <2>2, <2>3, DownloadStep DEF Fetch
  <1>3. CASE FetchFails(p)
    <2>1. [status |-> "failed", sha |-> None] \in Download
      BY DEF Download, Maybe
    <2>2. "failed" \notin Settled /\ "failed" # "complete"
      BY DEF Settled
    <2> QED
      BY <1>3, <2>1, <2>2, DownloadStep DEF FetchFails
  <1>4. CASE FetchRefused(p)
    <2>1. /\ InStage(p, "download") /\ ~SkipDownload(p) /\ MayReplaceRaw(Here(p))
          /\ Raise(p) /\ UNCHANGED <<normalized, mt5>>
      BY <1>4 DEF FetchRefused
    <2> QED
      BY <2>1, RawReplaced, WorkedOn, RaiseStep
  <1> QED
    BY <1>1, <1>2, <1>3, <1>4

\* The chunk's normalized file may be replaced, as its normalization is not settled.
LEMMA MadeReplaced ==
    ASSUME Inv, NEW p \in Procs, InStage(p, "normalize"), ~SkipNormalize(p),
           NEW x \in Maybe(Contents), normalized' = [normalized EXCEPT ![Here(p)] = x],
           UNCHANGED raw
    PROVE  /\ raw' \in [Chunks -> Maybe(Contents)]
           /\ normalized' \in [Chunks -> Maybe(Contents)] /\ normalized'[Here(p)] = x
           /\ \A j \in Chunks \ {Here(p)} : normalized'[j] = normalized[j]
           /\ ~forced => Sane(procs[p].man, raw', normalized')
  <1> DEFINE k == Here(p)
             entry == procs[p].man.chunks[k]
  <1>1. k \in Chunks
    BY WorkedOn
  <1>2. /\ raw' \in [Chunks -> Maybe(Contents)]
        /\ normalized' \in [Chunks -> Maybe(Contents)] /\ normalized'[k] = x
        /\ \A j \in Chunks \ {k} : normalized'[j] = normalized[j]
    BY <1>1, WorkedOn
  <1>3. ~forced => Matches(entry, raw'[k], normalized'[k])
    <2>1. ~forced => /\ entry.normalize.status \notin Settled
                     /\ Matches(entry, raw[k], normalized[k])
      BY <1>1, NormalizeIsOfUnsettled, WorkedOn DEF Sane
    <2> QED
      BY <2>1 DEF Matches, Settled
  <1> QED
    BY <1>1, <1>2, <1>3, WorkedOn DEF Sane

LEMMA NormalizeStep ==
    ASSUME Inv, NEW p \in Procs, InStage(p, "normalize"), ~SkipNormalize(p),
           NEW x \in Maybe(Contents), normalized' = [normalized EXCEPT ![Here(p)] = x],
           NEW normalize \in Normalize,
           Note(p, WithNormalize(p, normalize), Here(p), FALSE),
           normalize.raw = Entry(p).download.sha,
           Entry(p).download.status \in Settled,
           normalize.status = "complete" =>
               /\ Entry(p).download.status = "complete"
               /\ x = raw[Here(p)] /\ normalize.sha = x /\ x \in Contents,
           UNCHANGED <<lock, disk, raw, mt5, runs, forced>>
    PROVE  Inv'
  <1> DEFINE k == Here(p)
             man == procs[p].man
             new == WithNormalize(p, normalize)
  <1>1. k \in Chunks /\ man \in Manifest /\ Proper(man) /\ procs[p].pc = "work"
    BY WorkedOn
  <1>2. /\ new \in Manifest /\ Proper(new)
        /\ new.chunks[k] = [download |-> man.chunks[k].download, normalize |-> normalize]
        /\ \A j \in Chunks \ {k} : new.chunks[j] = man.chunks[j]
    BY <1>1, NormalizeNoted
  <1>3. /\ raw' \in [Chunks -> Maybe(Contents)] /\ normalized' \in [Chunks -> Maybe(Contents)]
        /\ normalized'[k] = x
        /\ \A j \in Chunks \ {k} : normalized'[j] = normalized[j]
        /\ ~forced => Sane(man, raw', normalized')
    BY MadeReplaced
  <1>4. ~forced => Matches(new.chunks[k], raw'[k], normalized'[k])
    <2>1. ~forced => Matches(man.chunks[k], raw[k], normalized[k])
      BY <1>1, WorkedOn DEF Sane
    <2>2. /\ new.chunks[k].download = man.chunks[k].download
          /\ new.chunks[k].normalize = normalize
      BY <1>2
    <2>3. man.chunks[k].download = Entry(p).download /\ raw'[k] = raw[k] /\ normalized'[k] = x
      BY <1>3, WorkedOn
    <2>4. Entry(p).download.status \in Settled /\ normalize.raw = Entry(p).download.sha
      OBVIOUS
    <2>5. normalize.status = "complete" => x = raw[k] /\ normalize.sha = x /\ x \in Contents
      OBVIOUS
    <2> HIDE DEF man, new, k
    <2> QED
      BY ONLY <2>1, <2>2, <2>3, <2>4, <2>5 DEF Matches
  <1> HIDE DEF new
  <1>5. ~forced => Sane(new, raw', normalized')
    BY <1>1, <1>2, <1>3, <1>4 DEF Sane
  <1>6. ~forced => Keeps(man, new)
    BY <1>1, <1>2, NormalizeIsOfUnsettled, WorkedOn DEF Keeps
  <1> QED
    BY <1>1, <1>2, <1>3, <1>5, <1>6, NoteStep DEF new

LEMMA NormalizeSteps ==
    ASSUME Inv, NEW p \in Procs,
           NormalizeSkipped(p) \/ NormalizeEmpty(p) \/ NormalizeFile(p) \/ NormalizeRaises(p)
    PROVE  Inv'
  <1>1. CASE NormalizeSkipped(p)
    <2>1. mt5' \in [Chunks -> Maybe(MonthFile)] /\ ConvertedDataWasValidated'
      BY <1>1 DEF NormalizeSkipped, files, Inv, TypeInv, TypeOK, ConvertedDataWasValidated,
                  OnlyValidatedIsConverted
    <2>2. Pass(p, TRUE) \/ Pass(p, FALSE)
      BY <1>1 DEF NormalizeSkipped
    <2> QED
      BY <1>1, <2>1, <2>2, WorkedOn, PassStep DEF NormalizeSkipped, files
  <1>2. CASE NormalizeEmpty(p)
    <2>1. [status |-> "empty", raw |-> Entry(p).download.sha, sha |-> None] \in Normalize
      BY <1>2, WorkedOn DEF NormalizeEmpty, Normalize, Download, Maybe
    <2>2. Entry(p).download.status \in Settled /\ "empty" # "complete" /\ None \in Maybe(Contents)
      BY <1>2 DEF NormalizeEmpty, Settled, Maybe
    <2> QED
      BY <1>2, <2>1, <2>2, NormalizeStep DEF NormalizeEmpty
  <1>3. CASE NormalizeFile(p)
    <2> DEFINE x == raw[Here(p)]
               normalize == [status |-> IF x \in Ticked THEN "complete" ELSE "empty",
                             raw |-> Entry(p).download.sha, sha |-> x]
    <2>1. InStage(p, "normalize") /\ x \in Contents /\ x \in Maybe(Contents)
      BY <1>3, WorkedOn DEF NormalizeFile, Maybe
    <2>2. normalize \in Normalize
      BY <2>1, WorkedOn DEF Normalize, Download, Maybe
    <2>3. Entry(p).download.status = "complete" /\ Entry(p).download.status \in Settled
      BY <1>3 DEF NormalizeFile, Settled
    <2>4. normalized' = [normalized EXCEPT ![Here(p)] = x]
          /\ Note(p, WithNormalize(p, normalize), Here(p), FALSE)
          /\ UNCHANGED <<lock, disk, raw, mt5, runs, forced>> /\ ~SkipNormalize(p)
      BY <1>3 DEF NormalizeFile
    <2>5. normalize.raw = Entry(p).download.sha /\ normalize.sha = x
      OBVIOUS
    <2> HIDE DEF normalize
    <2> QED
      BY <2>1, <2>2, <2>3, <2>4, <2>5, NormalizeStep
  <1>4. CASE NormalizeRaises(p)
    <2>1. /\ InStage(p, "normalize") /\ ~SkipNormalize(p) /\ Raise(p) /\ UNCHANGED <<raw, mt5>>
          /\ UNCHANGED normalized \/ normalized' = [normalized EXCEPT ![Here(p)] = raw[Here(p)]]
      BY <1>4 DEF NormalizeRaises
    <2>2. raw[Here(p)] \in Maybe(Contents)
      BY <2>1, WorkedOn
    <2>3. /\ raw' \in [Chunks -> Maybe(Contents)]
          /\ normalized' \in [Chunks -> Maybe(Contents)]
          /\ ~forced => Sane(procs[p].man, raw', normalized')
      BY <2>1, <2>2, MadeReplaced, WorkedOn
    <2> QED
      BY <2>1, <2>3, WorkedOn, RaiseStep
  <1> QED
    BY <1>1, <1>2, <1>3, <1>4

-----------------------------------------------------------------------------
(* validate, convert and the records of the import *)

\* The command's first step is the stage at hand.
LEMMA HeadOfStages ==
    ASSUME Inv, NEW p \in Procs, InStage(p, "convert")
    PROVE  procs[p].rule \in Rules
  <1>1. /\ procs[p].stages \in Seq(Stages) /\ procs[p].stages # <<>>
        /\ \A i \in 1 .. Len(procs[p].stages) :
             procs[p].stages[i] = "convert" => procs[p].rule \in Rules
    BY DEF InStage, Inv, Running, TypeInv, Process
  <1>2. Len(procs[p].stages) \in Nat /\ Len(procs[p].stages) # 0
    BY <1>1, EmptySeq, LenProperties
  <1>3. procs[p].stages[1] = "convert"
    BY <1>1 DEF InStage
  <1> QED
    BY <1>1, <1>2, <1>3

\* A manifest whose chunks are as they were agrees with the files as before.
LEMMA RecordStep ==
    ASSUME Inv, NEW p \in Procs, procs[p].pc \in {"work", "write"},
           NEW man \in Manifest, Proper(man), man.chunks = procs[p].man.chunks,
           NEW failed \in BOOLEAN, Note(p, man, N, failed),
           UNCHANGED <<lock, disk, files, runs, forced>>
    PROVE  Inv'
  <1>1. /\ raw' \in [Chunks -> Maybe(Contents)] /\ normalized' \in [Chunks -> Maybe(Contents)]
        /\ UNCHANGED <<raw, normalized, mt5>>
    BY DEF files, Inv, TypeInv, TypeOK
  <1>2. ~forced => /\ Sane(man, raw', normalized')
                   /\ Sane(procs[p].man, raw', normalized')
                   /\ Keeps(procs[p].man, man)
    BY <1>1, AtWork DEF Sane, Keeps
  <1> QED
    BY <1>1, <1>2, Numbers, NoteStep

\* A report passes only if every complete chunk holds sound ticks.
LEMMA ValidateStep ==
    ASSUME Inv, NEW p \in Procs, Validate(p)
    PROVE  Inv'
  <1> DEFINE man == procs[p].man
             report == [ok |-> Passes(man), fingerprint |-> Fingerprint(man)]
             new == [man EXCEPT !.validation = report]
  <1>1. /\ procs[p].pc = "work" /\ man \in Manifest /\ Proper(man)
        /\ Note(p, new, N, ~report.ok)
        /\ UNCHANGED <<lock, disk, files, runs, forced>>
    BY WorkedOn DEF Validate
  <1>2. Passes(man) \in BOOLEAN
    BY DEF Passes
  <1>3. report \in [ok: BOOLEAN, fingerprint: Fingerprints]
    BY <1>1, <1>2, FingerprintType
  <1>4. report.ok = Passes(man) /\ report.fingerprint = Fingerprint(man)
    OBVIOUS
  <1>5. Passes(man) => \A k \in Chunks : Fingerprint(man)[k].status = "complete" =>
                                           Fingerprint(man)[k].sha \in Sound
    BY DEF Passes, Fingerprint
  <1> HIDE DEF report
  <1>6. /\ new \in Manifest /\ new.chunks = man.chunks /\ new.validation = report
        /\ new.import = man.import /\ new.convert = man.convert
    BY <1>1, <1>3 DEF Manifest, Maybe
  <1>7. Proper(new)
    BY <1>1, <1>4, <1>5, <1>6 DEF Proper, Vetted, ImportMatches
  <1>8. (~report.ok) \in BOOLEAN
    BY <1>2, <1>4
  <1> HIDE DEF new
  <1> QED
    BY <1>1, <1>6, <1>7, <1>8, RecordStep

\* What a validated, unforced manifest calls complete is sound where it lies.
LEMMA MonthIsSound ==
    ASSUME Inv, NEW p \in Procs, procs[p].pc = "write", ~forced, NEW k \in Chunks,
           procs[p].man.chunks[k].normalize.status = "complete"
    PROVE  normalized[k] \in Sound
  <1> DEFINE man == procs[p].man
  <1>1. MayConvert(man) /\ Vetted(man) /\ Matches(man.chunks[k], raw[k], normalized[k])
    BY AtWork DEF Inv, Running, Proper, Sane
  <1>2. /\ Fingerprint(man)[k].status = "complete"
        /\ Fingerprint(man)[k].sha = man.chunks[k].normalize.sha
    BY DEF Fingerprint
  <1>3. man.chunks[k].normalize.sha \in Sound
    BY <1>1, <1>2 DEF MayConvert, Vetted
  <1> QED
    BY <1>1, <1>3 DEF Matches

LEMMA ConvertBeginsStep ==
    ASSUME Inv, NEW p \in Procs, ConvertBegins(p)
    PROVE  Inv'
  <1> DEFINE new == [procs[p] EXCEPT !.pc = "write"]
  <1>1. /\ InStage(p, "convert") /\ procs[p].pc = "work" /\ MayConvert(procs[p].man)
        /\ mt5' = [k \in Chunks |-> None] /\ procs' = [procs EXCEPT ![p] = new]
        /\ UNCHANGED <<lock, disk, raw, normalized, runs, forced>>
    BY DEF ConvertBegins, InStage
  <1>2. procs[p] \in Process /\ Running(p) /\ procs[p].rule \in Rules
    BY <1>1, HeadOfStages, AtWork DEF Inv
  <1>3. /\ new \in Process /\ new.pc = "write" /\ new.man = procs[p].man
        /\ new.force = procs[p].force /\ new.rule = procs[p].rule
        /\ new.stages = procs[p].stages
    BY <1>2 DEF Process
  <1>4. mt5' \in [Chunks -> Maybe(MonthFile)] /\ ConvertedDataWasValidated'
    BY <1>1 DEF Maybe, ConvertedDataWasValidated, OnlyValidatedIsConverted
  <1>5. /\ procs[p].stages # <<>>
        /\ \A i \in 1 .. Len(procs[p].stages) :
             procs[p].stages[i] = "convert" => procs[p].rule \in Rules
    BY <1>1, <1>2 DEF Running
  <1> HIDE DEF new
  <1> QED
    BY <1>1, <1>2, <1>3, <1>4, <1>5, GoOnStep

LEMMA ConvertReusedStep ==
    ASSUME Inv, NEW p \in Procs, ConvertReused(p)
    PROVE  Inv'
  <1> DEFINE new == [procs[p] EXCEPT !.at = N + 1]
  <1>1. /\ procs[p].pc = "work" /\ procs' = [procs EXCEPT ![p] = new]
        /\ UNCHANGED <<lock, disk, raw, normalized, mt5, runs, forced>>
    BY DEF ConvertReused, InStage, files
  <1>2. procs[p] \in Process /\ Running(p) /\ N + 1 \in 1 .. N + 1
    BY <1>1, AtWork, Numbers DEF Inv
  <1>3. /\ new \in Process /\ new.pc = "work" /\ new.man = procs[p].man
        /\ new.force = procs[p].force /\ new.rule = procs[p].rule
        /\ new.stages = procs[p].stages
    BY <1>1, <1>2 DEF Process
  <1>4. mt5' \in [Chunks -> Maybe(MonthFile)] /\ ConvertedDataWasValidated'
    BY <1>1 DEF Inv, TypeInv, TypeOK, ConvertedDataWasValidated, OnlyValidatedIsConverted
  <1>5. /\ procs[p].stages # <<>>
        /\ \A i \in 1 .. Len(procs[p].stages) :
             procs[p].stages[i] = "convert" => procs[p].rule \in Rules
    BY <1>1, <1>2 DEF Running
  <1> HIDE DEF new
  <1> QED
    BY <1>1, <1>3, <1>4, <1>5, GoOnStep

LEMMA WriteMonthStep ==
    ASSUME Inv, NEW p \in Procs, WriteMonth(p)
    PROVE  Inv'
  <1> DEFINE k == Here(p)
             file == [content |-> normalized[k], rule |-> procs[p].rule]
  <1>1. /\ procs[p].pc = "write" /\ k \in Chunks /\ Pass(p, FALSE)
        /\ UNCHANGED <<lock, disk, raw, normalized, runs, forced>>
        /\ \/ /\ procs[p].man.chunks[k].normalize.status = "complete"
              /\ normalized[k] \in Ticked
              /\ mt5' = [mt5 EXCEPT ![k] = file]
           \/ UNCHANGED mt5
    BY DEF WriteMonth, Entry
  <1>2. procs[p].rule \in Rules
    BY <1>1 DEF Inv, Running
  <1>3. mt5' \in [Chunks -> Maybe(MonthFile)]
    BY <1>1, <1>2, TickDatasetAssumption DEF Inv, TypeInv, TypeOK, Maybe, MonthFile
  <1>4. ConvertedDataWasValidated'
    <2> SUFFICES ASSUME ~forced, NEW j \in Chunks, mt5'[j] # None
                 PROVE  mt5'[j].content \in Sound
      BY <1>1 DEF ConvertedDataWasValidated, OnlyValidatedIsConverted
    <2>1. CASE mt5'[j] = mt5[j]
      BY <2>1 DEF Inv, ConvertedDataWasValidated, OnlyValidatedIsConverted
    <2>2. CASE mt5'[j] # mt5[j]
      <3>1. j = k /\ mt5'[j] = file /\ procs[p].man.chunks[k].normalize.status = "complete"
        BY <1>1, <2>2 DEF Inv, TypeInv, TypeOK
      <3> QED
        BY <1>1, <3>1, MonthIsSound
    <2> QED
      BY <2>1, <2>2
  <1> QED
    BY <1>1, <1>3, <1>4, PassStep

\* A conversion on record drops the import that was on record.
LEMMA ConvertEndsStep ==
    ASSUME Inv, NEW p \in Procs, ConvertEnds(p)
    PROVE  Inv'
  <1> DEFINE man == procs[p].man
             convert == [fingerprint |-> Fingerprint(man), rule |-> procs[p].rule]
             new == [man EXCEPT !.convert = convert, !.import = None, !.verification = None]
  <1>1. /\ procs[p].pc = "write" /\ Note(p, new, N, FALSE)
        /\ UNCHANGED <<lock, disk, files, runs, forced>>
    BY DEF ConvertEnds
  <1>2. man \in Manifest /\ Proper(man) /\ procs[p].rule \in Rules
    BY <1>1, AtWork DEF Inv, Running
  <1>3. convert \in [fingerprint: Fingerprints, rule: Rules]
    BY <1>2, FingerprintType
  <1> HIDE DEF convert
  <1>4. /\ new \in Manifest /\ new.chunks = man.chunks
        /\ new.validation = man.validation /\ new.import = None
    BY <1>2, <1>3 DEF Manifest, Maybe
  <1>5. Proper(new)
    BY <1>2, <1>4 DEF Proper, Vetted, ImportMatches
  <1> HIDE DEF new
  <1> QED
    BY <1>1, <1>4, <1>5, RecordStep

LEMMA RecordImportStep ==
    ASSUME Inv, NEW p \in Procs, RecordImport(p)
    PROVE  Inv'
  <1> DEFINE man == procs[p].man
             import(complete) == [complete |-> complete,
                                  fingerprint |-> IF man.convert = None THEN None
                                                  ELSE man.convert.fingerprint]
             new(complete) == [man EXCEPT !.verification = None, !.import = import(complete)]
  <1>1. PICK complete \in BOOLEAN : /\ complete => man.convert # None
                                    /\ Note(p, new(complete), N, FALSE)
    BY DEF RecordImport
  <1>2. /\ procs[p].pc = "work" /\ UNCHANGED <<lock, disk, files, runs, forced>>
        /\ man \in Manifest /\ Proper(man)
    BY WorkedOn DEF RecordImport
  <1>3. import(complete) \in [complete: BOOLEAN, fingerprint: Maybe(Fingerprints)]
    BY <1>2 DEF Manifest, Maybe
  <1>4. /\ import(complete).complete = complete
        /\ complete => import(complete).fingerprint = man.convert.fingerprint
    BY <1>1
  <1> HIDE DEF import
  <1>5. /\ new(complete) \in Manifest /\ new(complete).chunks = man.chunks
        /\ new(complete).validation = man.validation
        /\ new(complete).convert = man.convert /\ new(complete).import = import(complete)
    BY <1>2, <1>3 DEF Manifest, Maybe
  <1>6. Proper(new(complete))
    BY <1>1, <1>2, <1>4, <1>5 DEF Proper, Vetted, ImportMatches
  <1> HIDE DEF new
  <1> QED
    BY <1>1, <1>2, <1>5, <1>6, RecordStep

LEMMA RecordVerifyStep ==
    ASSUME Inv, NEW p \in Procs, RecordVerify(p)
    PROVE  Inv'
  <1> DEFINE man == procs[p].man
             new(outcome) == [man EXCEPT !.verification = outcome]
  <1>1. PICK outcome \in {"verified", "failed"} : Note(p, new(outcome), N, FALSE)
    BY DEF RecordVerify
  <1>2. /\ procs[p].pc = "work" /\ UNCHANGED <<lock, disk, files, runs, forced>>
        /\ man \in Manifest /\ Proper(man)
    BY WorkedOn DEF RecordVerify
  <1>3. /\ new(outcome) \in Manifest /\ new(outcome).chunks = man.chunks
        /\ new(outcome).validation = man.validation
        /\ new(outcome).convert = man.convert /\ new(outcome).import = man.import
    BY <1>2 DEF Manifest, Maybe
  <1>4. Proper(new(outcome))
    BY <1>2, <1>3 DEF Proper, Vetted, ImportMatches
  <1> HIDE DEF new
  <1> QED
    BY <1>1, <1>2, <1>3, <1>4, RecordStep

\* A command that ends before it writes to its dataset, as it is killed or gives up.
LEMMA GiveUpStep ==
    ASSUME Inv, NEW p \in Procs, Crash(p) \/ ConvertRefused(p) \/ ConvertRaises(p)
    PROVE  Inv'
  <1>1. /\ procs[p].pc # "idle" /\ procs' = [procs EXCEPT ![p] = Idle]
        /\ lock' \in {None, lock} /\ UNCHANGED <<disk, raw, normalized, mt5, runs, forced>>
    BY DEF Crash, ConvertRefused, ConvertRaises, Raise, End, InStage, files
  <1>2. /\ raw' \in [Chunks -> Maybe(Contents)] /\ normalized' \in [Chunks -> Maybe(Contents)]
        /\ ~forced /\ disk # None => Sane(disk, raw', normalized')
    BY <1>1 DEF Inv, TypeInv, TypeOK, OnDisk
  <1> QED
    BY <1>1, <1>2, EndStep

-----------------------------------------------------------------------------
(* The theorems *)

LEMMA InitInv == Init => Inv
  <1> SUFFICES ASSUME Init
               PROVE  Inv
    OBVIOUS
  <1>1. Idle \in Process /\ Idle.pc = "idle" /\ Idle.force = FALSE
    BY Numbers DEF Idle, Process, Maybe
  <1>2. procs \in [Procs -> Process] /\ \A p \in Procs : procs[p] = Idle
    BY <1>1 DEF Init
  <1>3. TypeInv
    BY <1>2 DEF Init, TypeInv, TypeOK, Process, Maybe
  <1>4. Exclusive /\ \A p \in Procs : Running(p)
    BY <1>1, <1>2 DEF Exclusive, Running
  <1>5. OnDisk /\ ConvertedDataWasValidated
    BY DEF Init, OnDisk, ConvertedDataWasValidated, OnlyValidatedIsConverted
  <1> QED
    BY <1>3, <1>4, <1>5 DEF Inv

LEMMA StaleLockStep ==
    ASSUME Inv, RemoveStaleLock
    PROVE  Inv'
  <1>1. lock \in Procs /\ lock' = None /\ procs[lock].pc = "idle"
        /\ UNCHANGED <<disk, raw, normalized, mt5, procs, runs, forced>>
    BY DEF RemoveStaleLock, files, Inv, TypeInv, TypeOK, Maybe
  <1>2. TypeInv'
    BY <1>1 DEF Inv, TypeInv, TypeOK, Maybe
  <1>3. Exclusive'
    BY <1>1 DEF Inv, Exclusive
  <1>4. (\A p \in Procs : Running(p))' /\ OnDisk' /\ ConvertedDataWasValidated'
    BY <1>1 DEF Inv, Running, OnDisk, ConvertedDataWasValidated, OnlyValidatedIsConverted
  <1> QED
    BY <1>2, <1>3, <1>4 DEF Inv

LEMMA StepInv == Inv /\ [Next]_vars => Inv'
  <1> SUFFICES ASSUME Inv, [Next]_vars
               PROVE  Inv'
    OBVIOUS
  <1>1. ASSUME NEW p \in Procs, NEW command \in Commands,
               NEW force \in ForcesOf(command), NEW rule \in RulesOf(command),
               Start(p, command, force, rule)
        PROVE  Inv'
    BY <1>1, StartStep
  <1>2. ASSUME NEW p \in Procs, Step(p)
        PROVE  Inv'
    BY <1>2, LoadStep, SaveStep, FinishStageStep, DownloadSteps, NormalizeSteps,
       ValidateStep, ConvertReusedStep, ConvertBeginsStep, WriteMonthStep,
       ConvertEndsStep, RecordImportStep, RecordVerifyStep, GiveUpStep
    DEF Step
  <1>3. CASE RemoveStaleLock
    BY <1>3, StaleLockStep
  <1>4. CASE UNCHANGED vars
    BY <1>4 DEF vars, files, Inv, TypeInv, TypeOK, Exclusive, Running, OnDisk,
                ConvertedDataWasValidated, OnlyValidatedIsConverted
  <1> QED
    BY <1>1, <1>2, <1>3, <1>4 DEF Next

\* The inductive invariant holds in every reachable state.
LEMMA InvHolds == Spec => []Inv
  BY InitInv, StepInv, PTL DEF Spec

\* In every reachable state every variable holds a value of its kind.
THEOREM TypeCorrect == Spec => []TypeOK
  <1>1. Inv => TypeOK
    BY DEF Inv, TypeInv
  <1> QED
    BY <1>1, InvHolds, PTL

(***************************************************************************)
(* Two commands never work on a dataset at once: the lock file, created    *)
(* exclusively and left behind by a crash, keeps the second one out until  *)
(* the operator removes it (DatasetStore.locked).                          *)
(***************************************************************************)
THEOREM OneCommandAtATime ==
    Spec => [](\A p, q \in Procs : procs[p].pc # "idle" /\ procs[q].pc # "idle" => p = q)
  <1>1. Inv => \A p, q \in Procs : procs[p].pc # "idle" /\ procs[q].pc # "idle" => p = q
    BY DEF Inv, Exclusive
  <1> QED
    BY <1>1, InvHolds, PTL

(***************************************************************************)
(* Without --force, what the manifest on disk calls complete is what the   *)
(* files hold, wherever commands crashed, failed or were refused.          *)
(***************************************************************************)
THEOREM RecordsMatch == Spec => []RecordsMatchFiles
  <1>1. ASSUME Inv, ~forced, disk # None, NEW k \in Chunks
        PROVE  Matches(disk.chunks[k], raw[k], normalized[k])
    BY <1>1 DEF Inv, OnDisk, Sane
  <1>2. Inv => RecordsMatchFiles
    BY <1>1 DEF Matches, RecordsMatchFiles, Settled
  <1> QED
    BY <1>2, InvHolds, PTL

\* Without --force, every month file holds ticks that pass the validation.
THEOREM OnlySoundIsConverted == Spec => []ConvertedDataWasValidated
  <1>1. Inv => ConvertedDataWasValidated
    BY DEF Inv
  <1> QED
    BY <1>1, InvHolds, PTL

\* A successful import on record is one of the conversion on record.
THEOREM ImportIsOfConversion == Spec => []ImportIsOfThisConversion
  <1>1. Inv => ImportIsOfThisConversion
    BY DEF Inv, OnDisk, Proper, ImportMatches, ImportIsOfThisConversion
  <1> QED
    BY <1>1, InvHolds, PTL

(***************************************************************************)
(* Without --force, a step never loses or changes finished work: only Save *)
(* and a first Load write the manifest, and what is saved keeps the        *)
(* settled entries of what it replaces.                                    *)
(***************************************************************************)
THEOREM ProgressIsKept == Spec => ProgressKept
  <1> DEFINE Kept == (disk # None /\ ~forced') => Keeps(disk, disk')
  <1>1. Inv /\ [Next]_vars => [Kept]_vars
    <2> SUFFICES ASSUME Inv, [Next]_vars, disk # None, ~forced'
                 PROVE  Keeps(disk, disk')
      OBVIOUS
    <2>1. CASE UNCHANGED disk
      BY <2>1 DEF Keeps
    <2>2. ASSUME NEW p \in Procs, Load(p)
          PROVE  Keeps(disk, disk')
      BY <2>2 DEF Load, Keeps
    <2>3. ASSUME NEW p \in Procs, Save(p)
          PROVE  Keeps(disk, disk')
      BY <2>3 DEF Save, Inv, Running
    <2>4. ASSUME NEW p \in Procs, Step(p), ~Load(p), ~Save(p)
          PROVE  UNCHANGED disk
      BY <2>4 DEF Step, Crash, FinishStage, DownloadSkipped, Fetch, FetchFails, FetchRefused,
                  NormalizeSkipped, NormalizeEmpty, NormalizeFile, NormalizeRaises, Validate,
                  ConvertRefused, ConvertReused, ConvertBegins, WriteMonth, ConvertRaises,
                  ConvertEnds, RecordImport, RecordVerify, Raise
    <2> QED
      BY <2>1, <2>2, <2>3, <2>4 DEF Next, Start, StartUnlocked, RemoveStaleLock, vars
  <1>2. ProgressKept <=> [][Kept]_vars
    BY DEF ProgressKept, Keeps
  <1> QED
    BY <1>1, <1>2, InvHolds, PTL DEF Spec

=============================================================================
