---------------------------- MODULE DeletionQueue ----------------------------
(* storage/deletion_queue.go: the JSONL file of superseded HTML files, read  *)
(* and rewritten by CleanupOldHTML at startup and every midnight.           *)
(* ProcessDeletionsWithProtection holds q.mu for a whole pass, Add for one    *)
(* append; between its steps the process may die, and shares come and go.  *)
EXTENDS Naturals, Sequences, SequencesExt

CONSTANTS
  Path,       \* superseded HTML files
  Junk,       \* a line that is no JSON record
  Retention,  \* in ticks, 7 days
  MaxClock, MaxAdds, MaxFaults, MaxTorn, MaxCrashes   \* bounds

ASSUME JunkAssumption == Junk \notin [path : Path, at : Nat]
ASSUME BoundsAssumption ==
  /\ {MaxClock, MaxAdds, MaxFaults, MaxTorn, MaxCrashes} \subseteq Nat
  \* a request that read html_path before the commit ends within a tick
  /\ Retention \in Nat /\ Retention >= 1

VARIABLES
  lines,    \* deletion_queue.jsonl
  torn,     \* its last line has no newline
  pass,     \* the state of ProcessDeletionsWithProtection
  present,  \* the paths on disk
  shared,   \* the paths HasActiveShareForHTMLPath answers true for
  clock, adds, faults, tears, crashes

queueVars == <<lines, torn>>
vars == <<lines, torn, pass, present, shared, clock, adds, faults, tears, crashes>>

Record == [path : Path, at : 0..MaxClock]
Idle == [at |-> "idle", recs |-> <<>>, i |-> 0, kept |-> <<>>]

\* readRecords reads line by line and skips the corrupt ones.
Records(s) ==
  LET read[i \in 0 .. Len(s)] ==
        IF i = 0 THEN <<>>
        ELSE IF s[i] = Junk THEN read[i - 1] ELSE Append(read[i - 1], s[i])
  IN read[Len(s)]
Retired == Range(lines) \ {Junk}

\* The records of the torn last line alone: the next append makes junk of it.
Unsure == IF torn THEN Retired \ Range(Front(lines)) ELSE {}

\* Every line is a record or junk; only a torn append leaves no newline.
TypeOK ==
  /\ lines \in Seq(Record \union {Junk})
  /\ torn \in BOOLEAN /\ (torn => lines # <<>>)
  /\ pass.at \in {"idle", "scan", "remove", "write"}
  /\ pass.recs \in Seq(Record) /\ pass.kept \in Seq(Record)
  /\ pass.i \in 0 .. Len(pass.recs) + 1
  /\ present \subseteq Path /\ shared \subseteq Path
  /\ clock \in 0..MaxClock /\ adds \in 0..MaxAdds
  /\ faults \in 0..MaxFaults /\ tears \in 0..MaxTorn /\ crashes \in 0..MaxCrashes

Succeeds == UNCHANGED faults
Fails == faults < MaxFaults /\ faults' = faults + 1
Unlocked == pass.at = "idle"

-----------------------------------------------------------------------------
(* Add.                                                                    *)

\* What is written is glued to whatever a torn append left behind: both are lost.
Appended(rec) == IF torn THEN Append(Front(lines), Junk) ELSE Append(lines, rec)

Add(p) ==
  /\ Unlocked /\ adds < MaxAdds
  /\ adds' = adds + 1
  /\ lines' = Appended([path |-> p, at |-> clock])
  /\ torn' = FALSE
  /\ UNCHANGED <<pass, present, shared, clock, faults, tears, crashes>>

\* The write stops half-way (disk full, or the process dies in it): in the record, or
\* between the record and its newline.
AddTorn(p) ==
  /\ Unlocked /\ tears < MaxTorn
  /\ tears' = tears + 1
  /\ \E part \in {Junk, [path |-> p, at |-> clock]} : lines' = Appended(part)
  /\ torn' = TRUE
  /\ UNCHANGED <<pass, present, shared, clock, adds, faults, crashes>>

-----------------------------------------------------------------------------
(* ProcessDeletionsWithProtection.                                          *)

\* An empty queue returns at once.
Begin ==
  /\ Unlocked /\ Records(lines) # <<>>
  /\ pass' = [at |-> "scan", recs |-> Records(lines), i |-> 1, kept |-> <<>>]
  /\ UNCHANGED <<queueVars, present, shared, clock, adds, faults, tears, crashes>>

\* Mutant: every record is old enough.
ExpiredAlways(rec) == TRUE

Expired(rec) == rec.at + Retention < clock

\* Mutant: the rest goes before the records the loop skipped.
KeepRestFirst ==
  pass' = [pass EXCEPT !.at = "write",
                       !.kept = SubSeq(pass.recs, pass.i, Len(pass.recs)) \o @]

\* The records from i on are kept and the loop ends.
KeepRest ==
  pass' = [pass EXCEPT !.at = "write",
                       !.kept = @ \o SubSeq(pass.recs, pass.i, Len(pass.recs))]

\* Mutant: a protected record ends the loop like a failure.
SkipEnds(rec) == KeepRest

\* A protected record is kept and the loop goes on.
Skip(rec) == pass' = [pass EXCEPT !.i = @ + 1, !.kept = Append(@, rec)]

\* Mutant: the protection is not asked for.
PinnedNever(rec) == FALSE

Pinned(rec) == rec.path \in shared

\* One turn of the loop, up to os.Remove.
Scan ==
  /\ pass.at = "scan"
  /\ \/ /\ pass.i > Len(pass.recs) /\ Succeeds
        /\ pass' = [pass EXCEPT !.at = "write"]
     \/ /\ pass.i <= Len(pass.recs)
        /\ LET rec == pass.recs[pass.i] IN
           \/ ~Expired(rec) /\ Succeeds /\ KeepRest
           \/ Expired(rec) /\ Fails /\ KeepRest   \* protect returns an error
           \/ Expired(rec) /\ Pinned(rec) /\ Succeeds /\ Skip(rec)
           \/ /\ Expired(rec) /\ ~Pinned(rec) /\ Succeeds
              /\ pass' = [pass EXCEPT !.at = "remove"]
  /\ UNCHANGED <<queueVars, present, shared, clock, adds, tears, crashes>>

\* os.Remove; a file that is not there counts as deleted.
RemoveFile ==
  /\ pass.at = "remove"
  /\ \/ /\ Succeeds
        /\ present' = present \ {pass.recs[pass.i].path}
        /\ pass' = [pass EXCEPT !.at = "scan", !.i = @ + 1]
     \/ Fails /\ KeepRest /\ UNCHANGED present
  /\ UNCHANGED <<queueVars, shared, clock, adds, tears, crashes>>

\* writeRecords: a temporary file renamed over the queue, or left out.
Write ==
  /\ pass.at = "write"
  /\ \/ Succeeds /\ lines' = pass.kept /\ torn' = FALSE
     \/ Fails /\ UNCHANGED queueVars
  /\ pass' = Idle
  /\ UNCHANGED <<present, shared, clock, adds, tears, crashes>>

-----------------------------------------------------------------------------
(* The rest of the world.                                                  *)

\* A share pins a path its page still shows, or showed when the request began,
\* at most a tick ago.
Share(p) ==
  /\ p \in present \ shared
  /\ \A rec \in Retired : rec.path = p => rec.at + 1 >= clock
  /\ shared' = shared \union {p}
  /\ UNCHANGED <<queueVars, pass, present, clock, adds, faults, tears, crashes>>

Unshare(p) ==
  /\ p \in shared
  /\ shared' = shared \ {p}
  /\ UNCHANGED <<queueVars, pass, present, clock, adds, faults, tears, crashes>>

\* Time stands still within a pass.
Tick ==
  /\ clock < MaxClock /\ Unlocked
  /\ clock' = clock + 1
  /\ UNCHANGED <<queueVars, pass, present, shared, adds, faults, tears, crashes>>

\* The process dies within a pass; the next one starts from the file.
Crash ==
  /\ ~Unlocked /\ crashes < MaxCrashes
  /\ crashes' = crashes + 1
  /\ pass' = Idle
  /\ UNCHANGED <<queueVars, present, shared, clock, adds, faults, tears>>

-----------------------------------------------------------------------------
Init ==
  /\ lines = <<>> /\ torn = FALSE /\ pass = Idle
  /\ present = Path /\ shared = {}
  /\ clock = 0 /\ adds = 0 /\ faults = 0 /\ tears = 0 /\ crashes = 0

Pass == Begin \/ Scan \/ RemoveFile \/ Write

Next ==
  \/ \E p \in Path : Add(p) \/ AddTorn(p) \/ Share(p) \/ Unshare(p)
  \/ Pass \/ Tick \/ Crash

Spec == Init /\ [][Next]_vars

\* A pass runs every midnight and ends; the days go by.
FairSpec == Spec /\ WF_vars(Pass) /\ WF_vars(Tick)

-----------------------------------------------------------------------------
\* The loop may stop at the first record that has not expired: the records are
\* in the order of their times, whatever a pass kept, skipped or lost.
Ordered ==
  \A i, j \in 1 .. Len(lines) :
    i < j /\ lines[i] # Junk /\ lines[j] # Junk => lines[i].at <= lines[j].at

\* What every step of a pass keeps of the file: its types, a torn line only at its end,
\* and its order.
Inv == TypeOK /\ Ordered

\* A file is not deleted under an active share, even one made during the pass.
SharedKept == shared \subseteq present

\* What is retired for longer than the retention is deleted in the end, unless
\* a share pins it: failed and interrupted passes are made up for.
Purged ==
  \A p \in Path : (\E rec \in Retired \ Unsure : rec.path = p /\ Expired(rec))
                    ~> (p \notin present \/ p \in shared)

Abstract == INSTANCE FileRetention WITH retired <- Retired, unsure <- Unsure

\* The file is a faithful memory: nothing is deleted early, nothing is
\* forgotten but what a failed append left in doubt, through failures and crashes
\* at any step of a pass.
ImplementsRetention == Abstract!Spec
=============================================================================
