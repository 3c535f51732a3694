------------------------------ MODULE Backups -------------------------------
(***************************************************************************)
(* Snapshots of an instance's home directory, and the nightly archives.    *)
(*                                                                         *)
(* SnapshotManager keeps a tarball on disk, a copy in DO Spaces and a row. *)
(* On-demand snapshots are made under a quota, deleted softly by their     *)
(* tenant or by the retention policy, removed by the expiry cron, and      *)
(* restored over the home directory.  NightlyBackup uploads one archive a  *)
(* day, enforceSpacesRetention thins the archives out, BackupVerifier      *)
(* samples them.  Every call may fail; a restore may die.                  *)
(***************************************************************************)
EXTENDS Integers, Sequences, FiniteSets, FiniteSetsExt, SequencesExt

CONSTANTS
    Snapshots,      \* snapshot ids, in the order of their creation
    Makers, Restorers,
    Archives,       \* situations to start from, NoArchive among them
    LastDay,        \* bound of the nightly archives' dates
    MaxMishaps      \* calls that fail, deaths of a restore

NoArchive == [acts |-> {}, have |-> {}, copies |-> {}, encrypted |-> FALSE, max |-> 0, daily |-> 0, weekly |-> 0]

ASSUME BackupsAssumption ==
    NoArchive \in Archives /\ Snapshots \subseteq Nat \ {0} /\ LastDay \in 0..374 /\ MaxMishaps \in Nat

VARIABLES
    archive,
    film,           \* snapshots: the state of a row
    tars, spaces,   \* tarballs on disk; the copies the rows' s3_key name
    expiredIds,     \* ids whose expires_at has passed
    homeDir,        \* its content
    aside,          \* what a restore moved out of the way
    maker, remover, restorer,
    night, nightly, \* today, and the dates that have an archive
    verified,       \* dates the last verification passed, and failed
    mishaps,
    muddled         \* ghost: two restores overlapped, or one died

backupVars == <<archive, film, tars, spaces, expiredIds, homeDir, aside, maker, remover, restorer, night, nightly,
                verified, mishaps, muddled>>
files == <<tars, spaces>>
restoring == <<homeDir, aside, restorer, muddled>>
nights == <<night, nightly, verified>>

\* What a directory holds, when it is not a snapshot's content
Live == 0
Partial == -1
Gone == -2

NoFilm == [state |-> "none", key |-> FALSE]
AtRest == [pc |-> "idle", s |-> 0]
Does(a) == a \in archive.acts

BackupInit ==
    /\ archive \in Archives
    /\ film = [s \in Snapshots |-> IF s \in archive.have THEN [state |-> "active", key |-> s \in archive.copies] ELSE NoFilm]
    /\ tars = archive.have /\ spaces = archive.copies /\ expiredIds = {}
    /\ homeDir = Live /\ aside = [r \in Restorers |-> Gone]
    /\ maker = [m \in Makers |-> AtRest]
    /\ remover = [d \in {"tenant", "retention", "expiry"} |-> [pc |-> "idle", todo |-> << >>]]
    /\ restorer = [r \in Restorers |-> AtRest]
    /\ night = 0 /\ nightly = {} /\ verified = [passed |-> {}, failed |-> {}]
    /\ mishaps = 0 /\ muddled = FALSE

Fails == mishaps < MaxMishaps /\ mishaps' = mishaps + 1
Works == UNCHANGED mishaps

-----------------------------------------------------------------------------
\* DrizzleSnapshotRepository
active == {s \in Snapshots : film[s].state = "active"}
insertRow(s, key) == film' = [film EXCEPT ![s] = [state |-> "active", key |-> key]]
softDelete(s) == film' = [film EXCEPT ![s].state = IF @ = "none" THEN @ ELSE "deleted"]
hardDeleteRow(s) == film' = [film EXCEPT ![s] = NoFilm]
getOldest(n) == SubSeq(SetToSortSeq(active, LAMBDA x, y : x < y), 1, n)
listExpired == active \cap expiredIds

\* OnDemandSnapshotService.create: the balance is positive, and the quota is
\* checked before the archive is made.
checkQuota == Cardinality(active) < archive.max
unused == Snapshots \ ({maker[m].s : m \in Makers} \cup {s \in Snapshots : film[s] # NoFilm} \cup tars)

create(m) ==
    /\ Does("make") /\ maker[m] = AtRest /\ checkQuota /\ unused # {}
    /\ maker' = [maker EXCEPT ![m] = [pc |-> "upload", s |-> Max(unused)]]
    /\ tars' = tars \cup {Max(unused)}
    /\ UNCHANGED <<archive, film, spaces, expiredIds, restoring, remover, nights, mishaps>>

\* A failed upload leaves a snapshot without a copy.
uploadCopy(m) ==
    /\ maker[m].pc = "upload"
    /\ \/ Works /\ spaces' = spaces \cup {maker[m].s} /\ maker' = [maker EXCEPT ![m].pc = "insert"]
       \/ Fails /\ UNCHANGED spaces /\ maker' = [maker EXCEPT ![m].pc = "insertLocal"]
    /\ UNCHANGED <<archive, film, tars, expiredIds, restoring, remover, nights>>

\* A failed insert removes the tarball and tries to remove the copy.
insertSnapshot(m) ==
    /\ maker[m].pc \in {"insert", "insertLocal"}
    /\ LET s == maker[m].s IN
       \/ Works /\ insertRow(s, maker[m].pc = "insert") /\ UNCHANGED files
       \/ Fails /\ UNCHANGED film /\ tars' = tars \ {s} /\ (spaces' = spaces \ {s} \/ UNCHANGED spaces)
    /\ maker' = [maker EXCEPT ![m] = AtRest]
    /\ UNCHANGED <<archive, expiredIds, restoring, remover, nights>>

-----------------------------------------------------------------------------
\* Removal: the tenant's delete, enforceRetention and runSnapshotExpiryCron
\* work through ids they read before.

Time(s) ==
    /\ Does("expiry") /\ s \in Snapshots \ expiredIds /\ film[s] # NoFilm
    /\ expiredIds' = expiredIds \cup {s}
    /\ UNCHANGED <<archive, film, files, restoring, maker, remover, nights, mishaps>>

Begin(d, ids) ==
    /\ Does(d) /\ remover[d].pc = "idle" /\ ids # << >>
    /\ remover' = [remover EXCEPT ![d] = [pc |-> "copy", todo |-> ids]]
    /\ UNCHANGED <<archive, film, files, expiredIds, restoring, maker, nights, mishaps>>

deleteSnapshot(s) == s \in active /\ Begin("tenant", <<s>>)

excess == IF Cardinality(active) > archive.max THEN getOldest(Cardinality(active) - archive.max) ELSE << >>

enforceRetention == Begin("retention", excess)

runSnapshotExpiryCron == Begin("expiry", SetToSeq(listExpired))

NextSnapshot(d) == [pc |-> IF Tail(remover[d].todo) = << >> THEN "idle" ELSE "copy", todo |-> Tail(remover[d].todo)]

\* The copy goes first (and a failure to remove it is only logged); hardDelete
\* removes the tarball before it, delete keeps the tarball.
RemoveCopy(d) ==
    /\ remover[d].pc = "copy"
    /\ LET s == Head(remover[d].todo) IN
       IF film[s] = NoFilm
       THEN remover' = [remover EXCEPT ![d] = NextSnapshot(d)] /\ UNCHANGED <<files, mishaps>>
       ELSE /\ tars' = IF d = "expiry" THEN tars \ {s} ELSE tars
            /\ \/ Works /\ spaces' = IF film[s].key THEN spaces \ {s} ELSE spaces
               \/ Fails /\ UNCHANGED spaces
            /\ remover' = [remover EXCEPT ![d].pc = "row"]
    /\ UNCHANGED <<archive, film, expiredIds, restoring, maker, nights>>

RemoveRow(d) ==
    /\ remover[d].pc = "row"
    /\ LET s == Head(remover[d].todo) IN
       \/ Works /\ IF d = "expiry" THEN hardDeleteRow(s) ELSE softDelete(s)
       \/ Fails /\ UNCHANGED film
    \* An error ends the tenant's delete and the retention, the expiry goes on.
    /\ remover' = [remover EXCEPT ![d] = IF d = "expiry" \/ mishaps' = mishaps THEN NextSnapshot(d)
                                         ELSE [pc |-> "idle", todo |-> << >>]]
    /\ UNCHANGED <<archive, files, expiredIds, restoring, maker, nights>>

-----------------------------------------------------------------------------
\* SnapshotManager.restore: the home directory is moved aside, the archive is
\* unpacked in its place; on an error the old one is moved back.

Busy(r) == restorer[r] # AtRest
restore(r, s) ==
    /\ Does("restore") /\ ~Busy(r) /\ film[s] # NoFilm
    /\ restorer' = [restorer EXCEPT ![r] = [pc |-> "aside", s |-> s]]
    /\ muddled' = (muddled \/ \E q \in Restorers : Busy(q))
    /\ UNCHANGED <<archive, film, files, expiredIds, homeDir, aside, maker, remover, nights, mishaps>>

\* A home directory that does not exist is nothing to move.
moveAside(r) ==
    /\ restorer[r].pc = "aside"
    /\ aside' = [aside EXCEPT ![r] = homeDir] /\ homeDir' = Partial
    /\ restorer' = [restorer EXCEPT ![r].pc = "unpack"]
    /\ UNCHANGED <<archive, film, files, expiredIds, maker, remover, nights, mishaps, muddled>>

unpack(r) ==
    /\ restorer[r].pc = "unpack"
    /\ \/ /\ restorer[r].s \in tars /\ Works
          /\ homeDir' = restorer[r].s /\ restorer' = [restorer EXCEPT ![r].pc = "tidy"]
       \/ /\ IF restorer[r].s \in tars THEN Fails ELSE Works
          /\ homeDir' \in {Partial, Gone} /\ restorer' = [restorer EXCEPT ![r].pc = "back"]
    /\ UNCHANGED <<archive, film, files, expiredIds, aside, maker, remover, nights, muddled>>

tidy(r) ==
    /\ restorer[r].pc = "tidy"
    /\ aside' = [aside EXCEPT ![r] = Gone]
    /\ restorer' = [restorer EXCEPT ![r] = AtRest]
    /\ UNCHANGED <<archive, film, files, expiredIds, homeDir, maker, remover, nights, mishaps, muddled>>

\* Mutation: what was unpacked is removed, the old directory stays aside.
LeaveAside(r) == homeDir' = Gone /\ UNCHANGED aside

moveBack(r) == homeDir' = aside[r] /\ aside' = [aside EXCEPT ![r] = Gone]

rollBack(r) ==
    /\ restorer[r].pc = "back"
    /\ moveBack(r)
    /\ restorer' = [restorer EXCEPT ![r] = AtRest]
    /\ UNCHANGED <<archive, film, files, expiredIds, maker, remover, nights, mishaps, muddled>>

RestoreDies(r) ==
    /\ Busy(r) /\ Fails
    /\ restorer' = [restorer EXCEPT ![r] = AtRest] /\ muddled' = TRUE
    /\ UNCHANGED <<archive, film, files, expiredIds, homeDir, aside, maker, remover, nights>>

-----------------------------------------------------------------------------
\* The nightly archives.  Day 0 is Monday, 22 December 2025; day 10 is the
\* first of January.

Jan1 == [y \in {2025, 2026} |-> IF y = 2025 THEN -355 ELSE 10]

\* getISOWeekKey: the week number of the Thursday of the date's week
Thursday(d) == d - (d % 7) + 3
isoYear(d) == IF Thursday(d) >= Jan1[2026] THEN 2026 ELSE 2025
weekNum(d) == ((Thursday(d) - Jan1[isoYear(d)]) \div 7) + 1
getISOWeekKey(d) == <<isoYear(d), weekNum(d)>>

Newest(n, days) == {d \in days : Cardinality({e \in days : e > d}) < n}

\* selectRetained: the newest archives, and of what is left the newest of each
\* of the newest weeks.  The keys sort as strings, year first.
selectRetained(days) ==
    LET daily == Newest(archive.daily, days)
        rest == days \ daily
        firsts == {d \in rest : \A e \in rest : getISOWeekKey(e) = getISOWeekKey(d) => e <= d}
        weeks == {isoYear(d) * 100 + weekNum(d) : d \in firsts}
    IN daily \cup {d \in firsts : isoYear(d) * 100 + weekNum(d) \in Newest(archive.weekly, weeks)}

\* NightlyBackup.run: export, encrypt where there is a key, upload.  A second
\* run of a day writes over the first one's archive.
backupContainer ==
    /\ Does("nightly")
    /\ \/ Works /\ nightly' = nightly \cup {night}
       \/ Fails /\ UNCHANGED nightly
    /\ UNCHANGED <<archive, film, files, expiredIds, restoring, maker, remover, night, verified>>

NightFalls(days) ==
    /\ Does("nightly") /\ night + days <= LastDay
    /\ night' = night + days
    /\ UNCHANGED <<archive, film, files, expiredIds, restoring, maker, remover, nightly, verified, mishaps>>

enforceSpacesRetention ==
    /\ Does("nightly") /\ nightly # {}
    /\ \/ Works /\ nightly' = selectRetained(nightly) /\ nightly' # nightly
       \/ Fails /\ UNCHANGED nightly
    /\ UNCHANGED <<archive, film, files, expiredIds, restoring, maker, remover, night, verified>>

\* BackupVerifier.verify: an encrypted archive has no gzip header.
verifyOne(d) == ~archive.encrypted
verify ==
    /\ Does("nightly") /\ nightly # {}
    /\ LET sample == Newest(10, nightly) IN
       verified' = [passed |-> {d \in sample : verifyOne(d)}, failed |-> {d \in sample : ~verifyOne(d)}]
    /\ verified' # verified
    /\ UNCHANGED <<archive, film, files, expiredIds, restoring, maker, remover, night, nightly, mishaps>>

BackupNext ==
    \/ \E m \in Makers : create(m) \/ uploadCopy(m) \/ insertSnapshot(m)
    \/ \E s \in Snapshots : Time(s) \/ deleteSnapshot(s)
    \/ enforceRetention \/ runSnapshotExpiryCron
    \/ \E d \in {"tenant", "retention", "expiry"} : RemoveCopy(d) \/ RemoveRow(d)
    \/ \E r \in Restorers : \/ moveAside(r) \/ unpack(r) \/ tidy(r) \/ rollBack(r) \/ RestoreDies(r)
                            \/ \E s \in Snapshots : restore(r, s)
    \/ backupContainer \/ enforceSpacesRetention \/ verify
    \/ \E days \in {3, 7} : NightFalls(days)

BackupSpec == BackupInit /\ [][BackupNext]_backupVars

-----------------------------------------------------------------------------
\* Unless two restores overlapped or one died, the home directory is whole
\* when no restore is under way: what it was, or what a snapshot holds, even
\* when the snapshot was removed while it was being restored.
HomeIsWhole ==
    ~muddled /\ (\A r \in Restorers : ~Busy(r)) => homeDir \in {Live} \cup Snapshots

\* Thinning the nightly archives out leaves, of the newest weeks that have
\* more than the daily ones, the newest archive each, also when a year ends in
\* between: a week is its Monday.
RetentionKeeps ==
    LET kept == selectRetained(nightly)
        rest == nightly \ Newest(archive.daily, nightly)
        Monday(d) == d - (d % 7)
        weeks == Newest(archive.weekly, {Monday(d) : d \in rest})
    IN /\ Newest(archive.daily, nightly) \subseteq kept
       /\ \A d \in rest : d \in kept <=> Monday(d) \in weeks /\ \A e \in rest : Monday(e) = Monday(d) => e <= d

\* Neither restoring nor thinning out destroys what is to be kept.
BackupsSafe == HomeIsWhole /\ RetentionKeeps
=============================================================================
