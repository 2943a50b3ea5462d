----------------------------- MODULE EvidenceFiles -----------------------------
(***************************************************************************)
(* What the evaluation commands of tools/dictionary share: the directory   *)
(* they publish evidence in, the inputs they read, the trees they build,   *)
(* and everything that happens around them: an input is edited, a process  *)
(* a probe left behind writes on, a lock is removed by hand, the output is *)
(* put there by someone else, the directory is moved, a command is killed. *)
(*                                                                         *)
(* A name of the directory is bound to an inode.  A hash is the content it *)
(* stands for.  Commands of one kind publish under one name.               *)
(***************************************************************************)
EXTENDS Integers, Sequences, FiniteSets, Functions, TLC

CONSTANTS
    Commands,      \* the processes started
    Scenarios      \* what they run, and how much happens around them

VARIABLES
    scenario,  \* the commands and the bound on what happens around them
    entries,   \* the directory: name -> inode
    trees,     \* what each command's temporary or published entry holds
    inputs,    \* the inputs as they stand: role -> version
    moved,     \* the path of the directory leads elsewhere
    at,        \* where each command stands
    my,        \* what each command has in memory
    faults,    \* how much may still happen around them
    late       \* commands whose tree was written when nothing would notice

kind == scenario.kinds

dirVars == <<entries, trees>>
aroundVars == <<inputs, moved, faults, late>>

Nothing == <<>>
Foreign == <<"foreign", "entry">>

Out(c) == <<kind[c], "output">>
Lock(c) == <<kind[c], "lock">>
Temp(c) == <<c, "temporary">>
Tree(c) == <<c, "tree">>
LockFile(c) == <<c, "lock">>

NoMemory == [held |-> Nothing, tree |-> Nothing, lock |-> FALSE,
             committed |-> FALSE, failed |-> "no"]

\* The versions of an input.  What a hash in the code names is "fixed"
Versions == [corpus |-> {"fixed", "edited"},
             runner |-> {"fixed", "edited"},
             resource |-> {"fixed", "edited"},
             sources |-> {"fixed", "edited"},
             package |-> {"fixed", "edited"},
             policy |-> {"fixed", "reformatted", "corpus", "protocols",
                        "rejection", "gates"},
             pilot |-> {"fixed", "repinned", "pending", "relaxed", "split"},
             evidence |-> {"fixed", "edited", "renamed", "writable"},
             runs |-> {"fixed", "swapped", "same", "other"},
             packet |-> {"fixed", "review", "key", "turned"},
             native |-> {"fixed", "recovered", "shared", "reused", "short", "rebuilt",
                         "redirected"},
             retained |-> {"fixed", "edited", "added", "replaced"},
             repository |-> {"fixed", "dirty", "advanced"}]

\* The inputs whose change a command may meet: the corpus and its seals, the
\* executable with its libraries, the dictionary with the Mozc bundle, the
\* command's own Python sources, the Swift package with its tests, the formal
\* policy and that of the pilot, evidence published before, the probe runs and
\* the packet of a blind review, what the Fcitx harness has left and its repository
RolesOf == [objective |-> {"corpus", "runner", "resource", "sources"},
            measure |-> {"pilot", "corpus", "runner", "resource", "sources"},
            seal |-> {"corpus"}, authorize |-> {"policy", "corpus", "evidence"},
            b1 |-> {"policy", "corpus", "evidence", "resource", "sources"},
            gate |-> {"pilot", "corpus", "resource"}, prepare |-> {"corpus", "runs"},
            score |-> {"packet"}, formal |-> {},
            adapter |-> {"pilot", "runner", "resource", "sources"},
            steady |-> {"pilot", "runner", "resource", "sources", "package"},
            recovery |-> {"pilot", "runner", "sources", "package"},
            collect |-> {"pilot", "native", "retained", "repository", "sources"}]

Kinds == DOMAIN RolesOf
Roles == DOMAIN Versions

FilesInit ==
    /\ scenario \in Scenarios
    /\ faults = scenario.faults
    /\ entries = [n \in (Kinds \X {"output", "lock"})
                        \cup (Commands \X {"temporary"}) |-> Nothing]
    /\ trees = [c \in Commands |-> Nothing]
    /\ inputs = [r \in Roles |-> "fixed"]
    /\ moved = FALSE
    /\ at = [c \in Commands |-> "idle"]
    /\ my = [c \in Commands |-> NoMemory]
    /\ late = {}

------------------------------------------------------------------------------
(* Operations on the directory                                             *)

Exists(n) == entries[n] # Nothing

Bind(n, inode) == entries' = [entries EXCEPT ![n] = inode]
Unbind(n) == entries' = [entries EXCEPT ![n] = Nothing]

Published(c) == entries[Out(c)] = Tree(c)

\* Mutant: a rename that replaces
RenameNoReplace_Replaces(c) ==
    entries' = [entries EXCEPT ![Temp(c)] = Nothing, ![Out(c)] = Tree(c)]

\* renameat2 with RENAME_NOREPLACE: one step that fails when the name is bound
RenameNoReplace(c) ==
    /\ ~Exists(Out(c))
    /\ entries' = [entries EXCEPT ![Temp(c)] = Nothing, ![Out(c)] = Tree(c)]

At(c, k, step) == kind[c] = k /\ at[c] = step

Goes(c, step) == at' = [at EXCEPT ![c] = step]

\* A record or function with what another has besides: @@, for the provers
Joined(f, g) ==
    [x \in DOMAIN f \cup DOMAIN g |-> IF x \in DOMAIN f THEN f[x] ELSE g[x]]

\* The runs that were made, with one more
Recorded(runs, run, result) == Joined([r \in {run} |-> result], runs)

Holds(c, memory) == my' = [my EXCEPT ![c].held = memory]

\* An exception: the cleanup that follows knows of it
Raises(c, step) ==
    /\ Goes(c, step)
    /\ my' = [my EXCEPT ![c].failed = "error"]

\* The step `to` when `condition` holds, an exception otherwise
Requires(c, condition, to) ==
    IF condition THEN Goes(c, to) /\ UNCHANGED my ELSE Raises(c, "cleanup")

Ended == {"ok", "error", "committed", "killed"}
Runs(c) == at[c] \notin Ended \cup {"idle"}

\* The except and the finally of a command
CleaningUp == {"cleanup", "discard", "closing"}

------------------------------------------------------------------------------
(* What happens around the commands                                        *)

Happens == faults > 0 /\ faults' = faults - 1

\* What no command looks at twice
ReadOnce == {"pilot", "runs", "packet"}

Reads(c, role) ==
    /\ kind[c] \in Kinds
    /\ role \in RolesOf[kind[c]]
    /\ IF role \in ReadOnce THEN at[c] = "idle" ELSE at[c] \notin Ended

\* An editor, a checkout or a package update replaces an input
EditInput(role) ==
    /\ Happens
    /\ \E c \in Commands : Reads(c, role)
    /\ \E version \in Versions[role] \ {inputs[role]} :
          inputs' = [inputs EXCEPT ![role] = version]
    /\ UNCHANGED <<scenario, dirVars, moved, at, my, late>>

\* Where a command has last looked at its files, but for the tree as a whole
Unwatched == Ended \cup CleaningUp \cup {"checked", "assured", "unlocking"}

\* A process that a probe left behind, or anyone else, adds a file to a tree
\* or changes one that was already read
WriteTree(c) ==
    /\ Happens
    /\ trees[c] # Nothing
    /\ ~trees[c].stray
    /\ trees' = [trees EXCEPT ![c].stray = TRUE]
    /\ late' = IF at[c] \in Unwatched THEN late \cup {c} ELSE late
    /\ UNCHANGED <<scenario, entries, inputs, moved, at, my>>

\* Someone takes the lock of a command for stale
RemoveLock(k) ==
    /\ Happens
    /\ Exists(<<k, "lock">>)
    /\ Unbind(<<k, "lock">>)
    /\ UNCHANGED <<scenario, trees, inputs, moved, at, my, late>>

\* The name a command publishes under is taken, or taken over once it has
ForeignOutput(c) ==
    /\ Happens
    /\ Runs(c)
    /\ ~Exists(Out(c)) \/ at[c] = "published"
    /\ Bind(Out(c), Foreign)
    /\ UNCHANGED <<scenario, trees, inputs, moved, at, my, late>>

MoveDirectory ==
    /\ Happens
    /\ ~moved
    /\ moved' = TRUE
    /\ UNCHANGED <<scenario, dirVars, inputs, at, my, late>>

Kill(c) ==
    /\ Happens
    /\ Runs(c)
    /\ Goes(c, "killed")
    /\ UNCHANGED <<scenario, dirVars, inputs, moved, my, late>>

\* Ctrl-C anywhere in the body of a command that has something to clean up
Interrupt(c) ==
    /\ Happens
    /\ Runs(c)
    /\ at[c] \notin CleaningUp \cup {"reading"}
    /\ Goes(c, "cleanup")
    /\ my' = [my EXCEPT ![c].failed = "interrupt"]
    /\ UNCHANGED <<scenario, dirVars, inputs, moved, late>>

\* The commands that have no step of their own for the finally of a success
EndsAfterPublished == {"seal", "authorize", "b1", "collect"}

\* Ctrl-C once more, which nothing catches: the rest of the clean-up is skipped
Abandon(c) ==
    /\ Happens
    /\ \/ at[c] \in CleaningUp
       \/ at[c] = "published" /\ kind[c] \in EndsAfterPublished
    /\ Goes(c, "error")
    /\ my' = [my EXCEPT ![c].failed = "abandoned"]
    /\ UNCHANGED <<scenario, dirVars, inputs, moved, late>>

\* An exception that reaches a command when it has made its lock or its tree and has
\* not yet noted that it did: nothing will remove it
Unnoted(c, made, to) ==
    /\ Happens
    /\ Goes(c, to)
    /\ my' = [my EXCEPT ![c].failed = made]

\* O_CREAT | O_EXCL
CreatesLock(c) ==
    /\ ~Exists(Lock(c))
    /\ Bind(Lock(c), LockFile(c))
    /\ \/ /\ Goes(c, "locked")
          /\ my' = [my EXCEPT ![c].lock = TRUE]
          /\ UNCHANGED faults
       \/ Unnoted(c, "lock", "cleanup")

\* A temporary file or tree, made in the try whose finally removes it or before it
Makes(c, tree, to, raised) ==
    /\ Bind(Temp(c), Tree(c))
    /\ trees' = [trees EXCEPT ![c] = tree]
    /\ \/ Goes(c, to) /\ UNCHANGED <<my, faults>>
       \/ Unnoted(c, "tree", raised)

\* The rename, and the exception that may reach the command at once after it
Renames(c, to, noticed) ==
    /\ RenameNoReplace(c)
    /\ UNCHANGED trees
    /\ \/ /\ Goes(c, to)
          /\ my' = [my EXCEPT ![c].committed = TRUE]
          /\ UNCHANGED faults
       \/ /\ Happens
          /\ Goes(c, "cleanup")
          /\ my' = [my EXCEPT ![c].committed = noticed, ![c].failed = "interrupt"]

\* Where the directory is found by its path, a name in it leads nowhere once the
\* directory has moved; what is removed there is whatever has the name
UnlinkByName(c) ==
    IF my[c].lock /\ ~moved
    THEN Unbind(Lock(c)) /\ my' = [my EXCEPT ![c].lock = FALSE]
    ELSE UNCHANGED <<entries, my>>

RemoveByName(c) ==
    IF Exists(Temp(c)) /\ ~moved
    THEN Unbind(Temp(c)) /\ trees' = [trees EXCEPT ![c] = Nothing]
    ELSE UNCHANGED dirVars

\* The directory is opened once more to be synced
EndsByName(c) ==
    Goes(c, IF my[c].failed = "no" /\ ~moved THEN "ok" ELSE "error")

\* It finds the name taken
RefusesToReplace(c) ==
    /\ Exists(Out(c))
    /\ Raises(c, "cleanup")
    /\ UNCHANGED <<dirVars, faults>>

Around ==
    \/ \E role \in Roles : EditInput(role)
    \/ \E c \in Commands :
          WriteTree(c) \/ ForeignOutput(c) \/ Kill(c) \/ Interrupt(c) \/ Abandon(c)
    \/ \E k \in Kinds : RemoveLock(k)
    \/ MoveDirectory
=============================================================================
