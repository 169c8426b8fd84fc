----------------------------- MODULE TickDataset -----------------------------
(***************************************************************************)
(* The tick-data pipeline of python/tickdata: commands that download,      *)
(* normalize, validate and convert the chunks of one dataset, and record   *)
(* what MetaTrader made of it.  All that survives a command is on disk:    *)
(* the manifest dataset.json, the files of each stage and the lock file.   *)
(* A command may be started again at any time and killed between any two   *)
(* of its writes; each os.replace is one step.                             *)
(*                                                                         *)
(* A file's content stands for its checksum.  A normalized file is named   *)
(* by the raw content that it was made from, normalize_file being a        *)
(* function of it, and a month file by the content and the server-time     *)
(* rule that it was made with; a chunk fills one month file.               *)
(***************************************************************************)
EXTENDS Integers, Sequences

CONSTANTS
    N,          \* the chunks planned for the dataset's range are 1..N
    Contents,   \* what the provider may hand out for a chunk
    Bytes,      \* the size of a raw content; 0: header only
    Ticked,     \* contents of which normalize_file keeps at least one tick
    Sound,      \* contents whose ticks pass every check of validate_dataset
    Rules,      \* server-time rules that an operator may ask for
    Forces,     \* the values that --force may have
    Procs,      \* commands that may run at the same time
    MaxRuns,    \* bound: how many commands are started
    None

ASSUME TickDatasetAssumption ==
    /\ N \in Nat \ {0}
    /\ Bytes \in [Contents -> Nat]
    /\ Ticked \subseteq {x \in Contents : Bytes[x] > 0}
    /\ Sound \subseteq Ticked
    /\ Forces \subseteq BOOLEAN
    /\ MaxRuns \in Nat
    /\ None \notin Contents
    /\ None \notin Procs

Chunks == 1..N

VARIABLES
    lock,         \* dataset.lock: the process that created it, or None
    disk,         \* dataset.json, or None
    raw,          \* raw/: chunk -> content, or None
    normalized,   \* normalized/: chunk -> content, or None
    mt5,          \* mt5/: chunk -> month file, or None
    procs,        \* the running commands
    runs,         \* bound's counter: the commands started
    forced        \* history: a command was run with --force

files == <<raw, normalized, mt5>>
vars == <<lock, disk, files, procs, runs, forced>>

Maybe(S) == S \cup {None}

Download == [status: {"pending", "complete", "empty", "failed"}, sha: Maybe(Contents)]
Normalize == [status: {"pending", "complete", "empty"}, raw: Maybe(Contents),
              sha: Maybe(Contents)]
Fingerprints == [Chunks -> [status: {"pending", "complete", "empty"}, sha: Maybe(Contents)]]
Manifest == [chunks: [Chunks -> [download: Download, normalize: Normalize]],
             validation: Maybe([ok: BOOLEAN, fingerprint: Fingerprints]),
             convert: Maybe([fingerprint: Fingerprints, rule: Rules]),
             import: Maybe([complete: BOOLEAN, fingerprint: Maybe(Fingerprints)]),
             verification: Maybe({"verified", "failed"})]
MonthFile == [content: Contents, rule: Rules]

Stages == {"download", "normalize", "validate", "convert", "import", "verify"}

\* The commands of the CLI; "run" goes as far as convert only if it is given a rule.
Commands == {<<s>> : s \in Stages} \cup
            {<<"download", "normalize", "validate">>,
             <<"download", "normalize", "validate", "convert">>}

\* The options that make a difference to a command.
ForcesOf(command) ==
    IF Head(command) \in {"download", "normalize", "convert"} THEN Forces ELSE {FALSE}

RulesOf(command) == IF command[Len(command)] = "convert" THEN Rules ELSE {None}

NotDownloaded == [status |-> "pending", sha |-> None]
NotNormalized == [status |-> "pending", raw |-> None, sha |-> None]

NewManifest == [chunks |-> [k \in Chunks |-> [download |-> NotDownloaded,
                                              normalize |-> NotNormalized]],
                validation |-> None, convert |-> None, import |-> None,
                verification |-> None]

Idle == [pc |-> "idle", stages |-> <<>>, at |-> 1, force |-> FALSE, rule |-> None,
         failed |-> FALSE, man |-> None]

Init ==
    /\ lock = None
    /\ disk = None
    /\ raw = [k \in Chunks |-> None]
    /\ normalized = [k \in Chunks |-> None]
    /\ mt5 = [k \in Chunks |-> None]
    /\ procs = [p \in Procs |-> Idle]
    /\ runs = 0
    /\ forced = FALSE

-----------------------------------------------------------------------------
(* The life of a command *)

StartUnlocked(p, command, force, rule) ==
    /\ procs[p].pc = "idle"
    /\ runs < MaxRuns
    /\ runs' = runs + 1
    /\ lock' = p
    /\ forced' = (forced \/ force)
    /\ procs' = [procs EXCEPT ![p] = [Idle EXCEPT !.pc = "load", !.stages = command,
                                                  !.force = force, !.rule = rule]]
    /\ UNCHANGED <<disk, files>>

\* The lock file is created exclusively; a command that finds it there does nothing.
Start(p, command, force, rule) ==
    /\ lock = None
    /\ StartUnlocked(p, command, force, rule)

LoadAfresh(p) ==
    /\ procs[p].pc = "load"
    /\ procs' = [procs EXCEPT ![p].pc = "work", ![p].man = NewManifest]
    /\ disk' = NewManifest
    /\ UNCHANGED <<lock, files, runs, forced>>

\* load_manifest, the entries of the planned chunks, and a first save.
Load(p) ==
    /\ procs[p].pc = "load"
    /\ LET man == IF disk = None THEN NewManifest ELSE disk
       IN  /\ procs' = [procs EXCEPT ![p].pc = "work", ![p].man = man]
           /\ disk' = man
    /\ UNCHANGED <<lock, files, runs, forced>>

\* The end of a command, whatever its exit code: the lock file is removed.
End(p) ==
    /\ procs' = [procs EXCEPT ![p] = Idle]
    /\ lock' = None

\* A kill or a power failure: what is on disk stays, the lock file included.
Crash(p) ==
    /\ procs[p].pc # "idle"
    /\ procs' = [procs EXCEPT ![p] = Idle]
    /\ UNCHANGED <<lock, disk, files, runs, forced>>

\* The operator removes the lock file of a command that is not running any more.
RemoveStaleLock ==
    /\ lock # None
    /\ procs[lock].pc = "idle"
    /\ lock' = None
    /\ UNCHANGED <<disk, files, procs, runs, forced>>

InStage(p, stage) ==
    /\ procs[p].pc = "work"
    /\ Head(procs[p].stages) = stage
    /\ procs[p].at \in Chunks

Here(p) == procs[p].at
Entry(p) == procs[p].man.chunks[Here(p)]

\* The command is done with a chunk without saving, and goes on to the next one.
Pass(p, failed) ==
    procs' = [procs EXCEPT ![p].at = @ + 1, ![p].failed = @ \/ failed]

\* The in-memory manifest has changed and is saved next.
Note(p, man, at, failed) ==
    procs' = [procs EXCEPT ![p].pc = "save", ![p].man = man, ![p].at = at,
                           ![p].failed = @ \/ failed]

Save(p) ==
    /\ procs[p].pc = "save"
    /\ disk' = procs[p].man
    /\ procs' = [procs EXCEPT ![p].pc = "work", ![p].at = @ + 1]
    /\ UNCHANGED <<lock, files, runs, forced>>

\* A stage that failed for some chunk, or a validation that failed, ends the command.
FinishStage(p) ==
    /\ procs[p].pc = "work"
    /\ procs[p].at > N
    /\ IF procs[p].failed \/ Len(procs[p].stages) = 1
       THEN End(p)
       ELSE /\ procs' = [procs EXCEPT ![p].stages = Tail(@), ![p].at = 1]
            /\ UNCHANGED lock
    /\ UNCHANGED <<disk, files, runs, forced>>

\* An exception that no stage handles: the process ends and nothing is saved.
Raise(p) == End(p) /\ UNCHANGED <<disk, runs, forced>>

-----------------------------------------------------------------------------
(* download *)

Settled == {"complete", "empty"}

AlreadyDownloaded(download, file) ==
    \/ download.status = "empty"
    \/ /\ download.status = "complete"
       /\ file # None
       /\ Bytes[file] = Bytes[download.sha]

SkipDownload(p) ==
    ~procs[p].force /\ AlreadyDownloaded(Entry(p).download, raw[Here(p)])

WithDownload(p, download) ==
    [procs[p].man EXCEPT !.chunks[Here(p)] = [download |-> download,
                                              normalize |-> NotNormalized]]

DownloadStatusOk(x) == IF Bytes[x] = 0 THEN "empty" ELSE "ok"

DownloadStatus(x) == IF Bytes[x] = 0 THEN "empty" ELSE "complete"

\* An attempt may have put its raw file in place before it failed.
MayReplaceRaw(k) ==
    \/ UNCHANGED raw
    \/ \E x \in Contents : raw' = [raw EXCEPT ![k] = x]

DownloadSkipped(p) ==
    /\ InStage(p, "download")
    /\ SkipDownload(p)
    /\ Pass(p, FALSE)
    /\ UNCHANGED <<lock, disk, files, runs, forced>>

\* The raw file is replaced by what the provider hands out this time.
Fetch(p) ==
    /\ InStage(p, "download")
    /\ ~SkipDownload(p)
    /\ \E x \in Contents :
         /\ raw' = [raw EXCEPT ![Here(p)] = x]
         /\ Note(p, WithDownload(p, [status |-> DownloadStatus(x), sha |-> x]), Here(p), FALSE)
    /\ UNCHANGED <<lock, disk, normalized, mt5, runs, forced>>

\* All attempts failed: the chunk is recorded as failed, and the next one is tried.
FetchFails(p) ==
    /\ InStage(p, "download")
    /\ ~SkipDownload(p)
    /\ MayReplaceRaw(Here(p))
    /\ Note(p, WithDownload(p, [status |-> "failed", sha |-> None]), Here(p), TRUE)
    /\ UNCHANGED <<lock, disk, normalized, mt5, runs, forced>>

\* A ProviderError that is not retryable.
FetchRefused(p) ==
    /\ InStage(p, "download")
    /\ ~SkipDownload(p)
    /\ MayReplaceRaw(Here(p))
    /\ Raise(p)
    /\ UNCHANGED <<normalized, mt5>>

-----------------------------------------------------------------------------
(* normalize *)

SkipNormalize(p) ==
    LET download == Entry(p).download
        current == Entry(p).normalize
    IN  /\ ~procs[p].force
        /\ current.status \in Settled
        /\ current.raw = download.sha
        /\ current.status = "complete" => normalized[Here(p)] # None

WithNormalize(p, normalize) ==
    [procs[p].man EXCEPT !.chunks[Here(p)].normalize = normalize]

\* A chunk that is not downloaded fails, one that is up to date is skipped.
NormalizeSkipped(p) ==
    /\ InStage(p, "normalize")
    /\ \/ /\ Entry(p).download.status \notin Settled
          /\ Pass(p, TRUE)
       \/ /\ Entry(p).download.status \in Settled
          /\ SkipNormalize(p)
          /\ Pass(p, FALSE)
    /\ UNCHANGED <<lock, disk, files, runs, forced>>

NormalizeEmpty(p) ==
    /\ InStage(p, "normalize")
    /\ Entry(p).download.status = "empty"
    /\ ~SkipNormalize(p)
    /\ normalized' = [normalized EXCEPT ![Here(p)] = None]
    /\ Note(p, WithNormalize(p, [status |-> "empty", raw |-> Entry(p).download.sha,
                                 sha |-> None]), Here(p), FALSE)
    /\ UNCHANGED <<lock, disk, raw, mt5, runs, forced>>

\* The file is read as it is on disk; what is recorded is the checksum in the manifest.
NormalizeFile(p) ==
    LET x == raw[Here(p)]
    IN  /\ InStage(p, "normalize")
        /\ Entry(p).download.status = "complete"
        /\ ~SkipNormalize(p)
        /\ x # None
        /\ normalized' = [normalized EXCEPT ![Here(p)] = x]
        /\ Note(p, WithNormalize(p, [status |-> IF x \in Ticked THEN "complete" ELSE "empty",
                                     raw |-> Entry(p).download.sha, sha |-> x]),
                Here(p), FALSE)
        /\ UNCHANGED <<lock, disk, raw, mt5, runs, forced>>

\* The raw file cannot be read, or the disk is full, before or after the os.replace.
NormalizeRaises(p) ==
    /\ InStage(p, "normalize")
    /\ Entry(p).download.status = "complete"
    /\ ~SkipNormalize(p)
    /\ \/ UNCHANGED normalized
       \/ normalized' = [normalized EXCEPT ![Here(p)] = raw[Here(p)]]
    /\ Raise(p)
    /\ UNCHANGED <<raw, mt5>>

-----------------------------------------------------------------------------
(* validate *)

Fingerprint(man) ==
    [k \in Chunks |-> [status |-> man.chunks[k].normalize.status,
                       sha |-> man.chunks[k].normalize.sha]]

\* PASS or WARN: every planned chunk is there as recorded, and its ticks are sound.
Passes(man) ==
    /\ \A k \in Chunks :
         LET download == man.chunks[k].download
             normalize == man.chunks[k].normalize
         IN  /\ download.status \in Settled
             /\ normalize.status \in Settled
             /\ normalize.raw = download.sha
             /\ normalize.status = "complete" =>
                  /\ normalized[k] = normalize.sha
                  /\ normalized[k] \in Sound
    /\ \E k \in Chunks : man.chunks[k].normalize.status = "complete"

Validate(p) ==
    LET man == procs[p].man
        report == [ok |-> Passes(man), fingerprint |-> Fingerprint(man)]
    IN  /\ InStage(p, "validate")
        /\ Note(p, [man EXCEPT !.validation = report], N, ~report.ok)
        /\ UNCHANGED <<lock, disk, files, runs, forced>>

-----------------------------------------------------------------------------
(* convert *)

MayConvertAnyReport(man) ==
    /\ man.validation # None
    /\ man.validation.fingerprint = Fingerprint(man)

MayConvert(man) ==
    /\ man.validation # None
    /\ man.validation.ok
    /\ man.validation.fingerprint = Fingerprint(man)

\* The month files on record are there; what is in them is not looked at.
ConvertUpToDate(p) ==
    LET man == procs[p].man
    IN  /\ man.convert # None
        /\ man.convert.fingerprint = Fingerprint(man)
        /\ man.convert.rule = procs[p].rule
        /\ \A k \in Chunks :
             man.convert.fingerprint[k].status = "complete" => mt5[k] # None

ConvertRefused(p) ==
    /\ InStage(p, "convert")
    /\ ~MayConvert(procs[p].man)
    /\ Raise(p)
    /\ UNCHANGED files

ConvertReused(p) ==
    /\ InStage(p, "convert")
    /\ MayConvert(procs[p].man)
    /\ ~procs[p].force
    /\ ConvertUpToDate(p)
    /\ procs' = [procs EXCEPT ![p].at = N + 1]
    /\ UNCHANGED <<lock, disk, files, runs, forced>>

\* Everything in mt5/ is removed first.
ConvertBegins(p) ==
    /\ InStage(p, "convert")
    /\ MayConvert(procs[p].man)
    /\ procs[p].force \/ ~ConvertUpToDate(p)
    /\ mt5' = [k \in Chunks |-> None]
    /\ procs' = [procs EXCEPT ![p].pc = "write"]
    /\ UNCHANGED <<lock, disk, raw, normalized, runs, forced>>

\* One month file is completed and renamed; the normalized file's checksum is not compared.
WriteMonth(p) ==
    LET k == Here(p)
        file == [content |-> normalized[k], rule |-> procs[p].rule]
    IN  /\ procs[p].pc = "write"
        /\ k \in Chunks
        /\ \/ /\ Entry(p).normalize.status = "complete"
              /\ normalized[k] \in Ticked
              /\ mt5' = [mt5 EXCEPT ![k] = file]
           \/ /\ \/ Entry(p).normalize.status # "complete"
                 \/ normalized[k] \in Contents \ Ticked
              /\ UNCHANGED mt5
        /\ Pass(p, FALSE)
        /\ UNCHANGED <<lock, disk, raw, normalized, runs, forced>>

\* Server time would run backwards, a file is missing, the disk is full.
ConvertRaises(p) ==
    /\ procs[p].pc = "write"
    /\ Raise(p)
    /\ UNCHANGED files

ConvertEndsKeepingImport(p) ==
    LET man == procs[p].man
        convert == [fingerprint |-> Fingerprint(man), rule |-> procs[p].rule]
    IN  /\ procs[p].pc = "write"
        /\ Here(p) > N
        /\ Note(p, [man EXCEPT !.convert = convert], N, FALSE)
        /\ UNCHANGED <<lock, disk, files, runs, forced>>

\* What was recorded of an earlier import and of its verification is dropped.
ConvertEnds(p) ==
    LET man == procs[p].man
        convert == [fingerprint |-> Fingerprint(man), rule |-> procs[p].rule]
    IN  /\ procs[p].pc = "write"
        /\ Here(p) > N
        /\ Note(p, [man EXCEPT !.convert = convert, !.import = None,
                               !.verification = None], N, FALSE)
        /\ UNCHANGED <<lock, disk, files, runs, forced>>

-----------------------------------------------------------------------------
(* record-import, record-verify *)

\* The journal's file and tick counts can only match those of a conversion.
RecordImport(p) ==
    LET man == procs[p].man
    IN  /\ InStage(p, "import")
        /\ \E complete \in BOOLEAN :
             /\ complete => man.convert # None
             /\ Note(p, [man EXCEPT !.verification = None,
                           !.import = [complete |-> complete,
                                       fingerprint |-> IF man.convert = None THEN None
                                                       ELSE man.convert.fingerprint]],
                     N, FALSE)
        /\ UNCHANGED <<lock, disk, files, runs, forced>>

RecordVerify(p) ==
    LET man == procs[p].man
    IN  /\ InStage(p, "verify")
        /\ \E outcome \in {"verified", "failed"} :
             /\ outcome = "verified" => man.convert # None
             /\ Note(p, [man EXCEPT !.verification = outcome], N, FALSE)
        /\ UNCHANGED <<lock, disk, files, runs, forced>>

-----------------------------------------------------------------------------

Step(p) ==
    \/ Load(p)
    \/ Crash(p)
    \/ Save(p)
    \/ FinishStage(p)
    \/ DownloadSkipped(p)
    \/ Fetch(p)
    \/ FetchFails(p)
    \/ FetchRefused(p)
    \/ NormalizeSkipped(p)
    \/ NormalizeEmpty(p)
    \/ NormalizeFile(p)
    \/ NormalizeRaises(p)
    \/ Validate(p)
    \/ ConvertRefused(p)
    \/ ConvertReused(p)
    \/ ConvertBegins(p)
    \/ WriteMonth(p)
    \/ ConvertRaises(p)
    \/ ConvertEnds(p)
    \/ RecordImport(p)
    \/ RecordVerify(p)

Next ==
    \/ \E p \in Procs, command \in Commands :
         \E force \in ForcesOf(command), rule \in RulesOf(command) :
             Start(p, command, force, rule)
    \/ \E p \in Procs : Step(p)
    \/ RemoveStaleLock

Spec == Init /\ [][Next]_vars

-----------------------------------------------------------------------------
(* Properties *)

\* Every variable holds a value of the kind the code keeps there.
TypeOK ==
    /\ lock \in Maybe(Procs)
    /\ disk \in Maybe(Manifest)
    /\ raw \in [Chunks -> Maybe(Contents)]
    /\ normalized \in [Chunks -> Maybe(Contents)]
    /\ mt5 \in [Chunks -> Maybe(MonthFile)]
    /\ runs \in Nat
    /\ forced \in BOOLEAN
    /\ \A p \in Procs :
         /\ procs[p].pc \in {"idle", "load", "work", "save", "write"}
         /\ procs[p].at \in 1 .. N + 1
         /\ procs[p].man \in Maybe(Manifest)

(***************************************************************************)
(* As long as nobody used --force, a chunk that the manifest on disk calls *)
(* complete is what its raw and its normalized file hold, wherever         *)
(* commands crashed, failed or were refused (run_download, run_normalize,  *)
(* DatasetStore.locked).                                                   *)
(***************************************************************************)
RecordsMatchFiles ==
    (~forced /\ disk # None) =>
        \A k \in Chunks :
            LET entry == disk.chunks[k]
            IN  /\ entry.download.status = "complete" => raw[k] = entry.download.sha
                /\ entry.normalize.status = "complete" =>
                     /\ normalized[k] = entry.normalize.sha
                     /\ entry.normalize.raw = entry.download.sha
                     /\ normalized[k] = raw[k]

(***************************************************************************)
(* docs/tick-data-pipeline.md:73 says that convert runs only if validation *)
(* passed and the data has not changed since: every month file ever        *)
(* written for MetaTrader holds ticks that pass the validation.            *)
(***************************************************************************)
OnlyValidatedIsConverted ==
    \A k \in Chunks : mt5[k] # None => mt5[k].content \in Sound

\* The same, as long as nobody used --force.
ConvertedDataWasValidated == ~forced => OnlyValidatedIsConverted

(***************************************************************************)
(* As long as nobody used --force, what is on record as downloaded or      *)
(* normalized stays on record as it is: a resumed, concurrent or failing   *)
(* command never loses or repeats finished work (ensure_chunk_entries,     *)
(* DatasetStore.locked).                                                   *)
(***************************************************************************)
ProgressKept ==
    [][(disk # None /\ ~forced') =>
         \A k \in Chunks :
             LET old == disk.chunks[k]
                 new == disk'.chunks[k]
             IN  /\ old.download.status \in Settled => new.download = old.download
                 /\ old.normalize.status \in Settled => new.normalize = old.normalize]_vars

(***************************************************************************)
(* A successful import on record is one of the conversion on record, even  *)
(* after --force and crashes: converting anew drops it (run_convert,       *)
(* record_import).                                                         *)
(***************************************************************************)
ImportIsOfThisConversion ==
    (disk # None /\ disk.import # None /\ disk.import.complete) =>
        /\ disk.convert # None
        /\ disk.import.fingerprint = disk.convert.fingerprint

=============================================================================
