------------------------------ MODULE FatShell ------------------------------
(***************************************************************************)
(* fat32/src/main.rs: the two programs that change an image file, the      *)
(* interactive shell and the command line's --put, side by side on one     *)
(* file.  Each loads the file into a buffer of its own, writes there with  *)
(* Fat32Mut, and saves the whole buffer with fs::write, which empties the  *)
(* file before it writes.  Saves may fail and programs may crash anywhere. *)
(*                                                                         *)
(* A word of a command is a path: its parts and whether it starts with a   *)
(* slash.  ls, cat, pwd and help change nothing and are operators.         *)
(***************************************************************************)
EXTENDS Fat32Mut, Fat32Sound, FiniteSets

CONSTANTS Images,      \* the image to start from
          Paths,       \* the paths looked at
          Words,       \* the paths typed in the shell
          Contents,    \* the host files that are put
          Programs,    \* which programs are run
          MaxPuts      \* bound on the puts of a behaviour

(* The images are as a formatting program and other writers leave them;    *)
(* host files that a path may go through hold nothing like an entry.       *)
ASSUME ImagesAssumption ==
    \A i \in Images : /\ IsVolume(i) /\ InRange(i)
                      /\ \E D \in SUBSET Clusters : DirsSound(i, D) /\ Headed(i, D)
ASSUME ContentsAssumption ==
    \A content \in Contents : IsSequence(content) /\ Plain(content)
ASSUME PathsAssumption ==
    (\A path \in Paths : IsSequence(path)) /\ (\A word \in Words : IsSequence(word.parts))
ASSUME ProgramsAssumption == Programs \subseteq {"shell", "cli"}

(* No entry that is written is taken for None.                             *)
Names == {FileName(path) : path \in Paths \ {<<>>}}
            \cup UNION {ToSet(word.parts) : word \in Words}
ASSUME NoneAssumption ==
    /\ None # RootEntry
    /\ \A name \in Names, first \in 0 .. MaxCluster, size \in 0 .. SizeMod - 1 :
          None # Entry(name, "file", first, size)

VARIABLES image,       \* the file's contents when it was last whole
          held,        \* history: what each path holds in image
          cut,         \* the program that left the file empty or in part
                       \* written, or None
          at,          \* where each program is
          job,         \* its puts that are in the buffer and not saved
          data, said,  \* the shell's buffer and what its last write returned
          cli_data, cli_said,   \* the same for --put
          current_dir,
          torn,        \* history: a write to data has failed half way
          stale,       \* history: programs whose buffer is behind the file
          suspect,     \* history: the file may have lost a put
          puts         \* how many puts were tried

buffers == <<data, said, cli_data, cli_said>>
history == <<torn, stale, suspect>>
vars    == <<image, held, cut, at, job, buffers, current_dir, history, puts>>

Running(x) == at[x] # "off"
Goto(x, l) == at' = [at EXCEPT ![x] = l]
Buffer(x)  == IF x = "shell" THEN data ELSE cli_data

Note(x, path, content) ==
    job' = [job EXCEPT ![x] = Append(@, <<path, Ok(content)>>)]

(* A program ends, with its memory.                                        *)
End(x) ==
    /\ Goto(x, "off")
    /\ job' = [job EXCEPT ![x] = <<>>]
    /\ IF x = "shell"
       THEN data' = None /\ said' = "none" /\ current_dir' = <<>> /\ torn' = FALSE
            /\ UNCHANGED <<cli_data, cli_said>>
       ELSE cli_data' = None /\ cli_said' = "none"
            /\ UNCHANGED <<data, said, current_dir, torn>>

(* After a command the shell prompts for the next one, with j the puts     *)
(* that are not saved; --put returns from main.                            *)
BackEnds(x, j) == End(x)
BackRetries(x, j) ==
    /\ Goto(x, "save") /\ job' = [job EXCEPT ![x] = j]
    /\ UNCHANGED <<buffers, current_dir, torn>>
Back(x, j) ==
    IF x = "shell"
    THEN /\ Goto(x, "prompt") /\ job' = [job EXCEPT ![x] = j]
         /\ UNCHANGED <<buffers, current_dir, torn>>
    ELSE End(x)

(* fs::read of the file.  An empty one gives a buffer that Fat32::new      *)
(* refuses, here None: every command then ends in an error.  A file that   *)
(* is written in part is taken as empty.                                   *)
Loaded == IF cut = None THEN image ELSE None
-----------------------------------------------------------------------------
(* push_component, and resolve_path: one part after another.               *)
push_component(components, part) ==
    CASE part \in {"", "."}           -> components
      [] part = ".." /\ components = <<>> -> components
      [] part = ".." /\ components # <<>> -> Front(components)
      [] OTHER                        -> Append(components, part)
Resolved(current, word) ==
    LET after[k \in 0 .. Len(word.parts)] ==
          IF k = 0 THEN IF word.absolute THEN <<>> ELSE current
          ELSE push_component(after[k - 1], word.parts[k])
    IN  after
resolve_path(current, word) == Resolved(current, word)[Len(word.parts)]

run_ls(d, path)  == list_dir_path(d, path)
run_cat(d, path) == read_file_by_path(d, path)
Held(d) == [path \in Paths |-> run_cat(d, path)]

(* The test of cd.                                                         *)
EntersAny(d, path) == LET e == open_path(d, path) IN e.ok /\ e.val # None
Enters(d, path) ==
    LET e == open_path(d, path) IN e.ok /\ e.val # None /\ is_dir(e.val)
-----------------------------------------------------------------------------
Init ==
    /\ image \in Images /\ held = Held(image) /\ cut = None
    /\ at = [x \in Programs |-> "off"] /\ job = [x \in Programs |-> <<>>]
    /\ data = None /\ said = "none" /\ cli_data = None /\ cli_said = "none"
    /\ current_dir = <<>>
    /\ torn = FALSE /\ stale = {} /\ suspect = FALSE /\ puts = 0

(* main without a command: load the file and start the shell at the root.  *)
run_shell ==
    /\ "shell" \in Programs /\ ~ Running("shell")
    /\ data' = Loaded /\ Goto("shell", "prompt")
    /\ stale' = stale \ {"shell"}
    /\ UNCHANGED <<image, held, cut, job, said, cli_data, cli_said, current_dir, torn, suspect>>

(* main --put: load the file ...                                           *)
main_put ==
    /\ "cli" \in Programs /\ ~ Running("cli")
    /\ cli_data' = Loaded /\ Goto("cli", "write")
    /\ stale' = stale \ {"cli"}
    /\ UNCHANGED <<image, held, cut, job, data, said, cli_said, current_dir, torn, suspect>>

(* ... and write to the buffer.  An error ends the program.                *)
cli_write(path, content) ==
    /\ "cli" \in Programs /\ at["cli"] = "write" /\ cli_data # None
    /\ write_file_by_path(cli_data, cli_data', cli_said', path, content)
    /\ cli_said' = "Ok"
    /\ Goto("cli", "save") /\ Note("cli", path, content)
    /\ UNCHANGED <<image, held, cut, data, said, current_dir, history>>

(* put in the shell: an error leaves the buffer as the write left it.      *)
AfterPutSavesAnyway(path, content) ==
    Goto("shell", "save") /\ Note("shell", path, content)
AfterPut(path, content) ==
    IF said' = "Ok"
    THEN Goto("shell", "save") /\ Note("shell", path, content)
    ELSE UNCHANGED <<at, job>>
FailedHalfWay ==
    /\ said' # "Ok"
    /\ \E c \in Clusters : /\ read_fat_entry(data, c) # FREE
                           /\ read_fat_entry(data', c) = FREE
put(path, content) ==
    /\ "shell" \in Programs /\ at["shell"] = "prompt" /\ data # None
    /\ write_file_by_path(data, data', said', path, content)
    /\ AfterPut(path, content)
    /\ torn' = (torn \/ FailedHalfWay)
    /\ UNCHANGED <<image, held, cut, cli_data, cli_said, current_dir, stale, suspect>>

(* cd: only an entry that is a directory is entered.                       *)
cd(path) ==
    /\ "shell" \in Programs /\ at["shell"] = "prompt" /\ data # None
    /\ Enters(data, path)
    /\ current_dir' = path
    /\ UNCHANGED <<image, held, cut, at, job, buffers, history>>
-----------------------------------------------------------------------------
(* fs::write: open and empty the file, then write all of the buffer.       *)
Truncate(x) ==
    /\ at[x] = "save" /\ cut' = x /\ Goto(x, "saving")
    /\ UNCHANGED <<image, held, job, buffers, current_dir, history>>
WriteAll(x) ==
    /\ at[x] = "saving"
    /\ image' = Buffer(x) /\ held' = Held(Buffer(x)) /\ cut' = None
    /\ Back(x, <<>>)
    /\ stale' = stale \cup {y \in Programs \ {x} : Running(y)}
    /\ suspect' = (suspect \/ x \in stale \/ (x = "shell" /\ torn))

(* fs::write fails before the file was emptied, or after.  What a program  *)
(* was writing may be there in part, also over a file that the other one   *)
(* has emptied or saved in between.  An empty file is beyond help once the *)
(* program that left it so ends, with its buffer.                          *)
OpenFails(x) ==
    /\ at[x] = "save" /\ Back(x, job[x])
    /\ UNCHANGED <<image, held, cut, stale, suspect>>
WriteFails(x) ==
    /\ at[x] = "saving" /\ cut' \in {cut, x} /\ Back(x, job[x])
    /\ suspect' = (suspect \/ (x = "cli" /\ cut' = x))
    /\ UNCHANGED <<image, held, stale>>

(* exit and the end of the input at a prompt, an error of --put; a crash   *)
(* anywhere.                                                               *)
Crash(x) ==
    /\ Running(x) /\ End(x)
    /\ cut' \in IF at[x] = "saving" THEN {cut, x} ELSE {cut}
    /\ suspect' = (suspect \/ cut' = x)
    /\ UNCHANGED <<image, held, stale>>

(* The absolute paths that the words typed at the prompt stand for.        *)
Targets == {resolve_path(current_dir, word) : word \in Words}

Next ==
    \/ /\ puts < MaxPuts /\ puts' = puts + 1
       /\ \/ \E path \in Targets, content \in Contents : put(path, content)
          \/ \E path \in Paths, content \in Contents : cli_write(path, content)
    \/ /\ UNCHANGED puts
       /\ \/ run_shell \/ main_put
          \/ \E path \in Targets : cd(path)
          \/ \E x \in Programs : \/ Truncate(x) \/ WriteAll(x)
                                 \/ OpenFails(x) \/ WriteFails(x) \/ Crash(x)

Spec == Init /\ [][Next]_vars
-----------------------------------------------------------------------------
(* Properties.                                                             *)

TypeOK ==
    /\ image # None /\ cut \in Programs \cup {None}
    /\ at \in [Programs -> {"off", "prompt", "write", "save", "saving"}]
    /\ \A x \in Programs : at[x] \in {"save", "saving"} => job[x] # <<>>
    /\ stale \subseteq Programs /\ {torn, suspect} \subseteq BOOLEAN

(* The shell's current directory was tested when cd entered it, on the     *)
(* buffer as it was then.  Whatever is put afterwards, and whichever way   *)
(* the puts end, ls without a path still lists it.                         *)
CurrentDirStays ==
    "shell" \in Programs /\ at["shell"] # "off" /\ data # None =>
        run_ls(data, current_dir).ok

(* The directories and the names in every copy of the volume, in the file  *)
(* or in a buffer: whatever fails, is saved half done or is overwritten by *)
(* an old buffer, no directory is moved, cut or hidden and no name is      *)
(* listed twice.                                                           *)
Dirs == {Parent(path) : path \in Paths}
Tree(d) ==
    [p \in {q \in Dirs : DirCluster(d, q).ok} |-> Chain(d, DirCluster(d, p).val)]
NamesOnce(d) ==
    \A p \in Dirs : LET l == list_dir_path(d, p) IN
        l.ok => \A i, j \in DOMAIN l.val : l.val[i].name = l.val[j].name => i = j
TreeKept ==
    \A d \in {image, data, cli_data} \ {None} :
        NamesOnce(d) /\ \E i \in Images : Tree(d) = Tree(i)

(* A file that was left empty or in part written, and is not lost, can be  *)
(* made whole: the program that left it so still runs and has a buffer,    *)
(* with all that the file held and its own puts, unless the buffer is      *)
(* older than the file or has a half-done put.                             *)
CutIsHeld ==
    cut # None /\ ~ suspect =>
       /\ Running(cut) /\ Buffer(cut) # None
       /\ cut \notin stale /\ ~ (cut = "shell" /\ torn) =>
             \A p \in Paths : LET r == run_cat(Buffer(cut), p) IN
                r = held[p] \/ <<p, r>> \in ToSet(job[cut])

(* When a save is done the file holds, under its path, the content that    *)
(* was put, also when the buffer has half-done writes in it.               *)
SavedReadsBack ==
    [][\A x \in Programs :
          at[x] = "saving" /\ at'[x] # "saving" /\ image' # image =>
              \A p \in Paths : p = Last(job[x])[1] => held'[p] = Last(job[x])[2]]_vars

(* The image file implements the abstract store.  It is lost in three ways *)
(* only: a program ends that left the file empty or in part written, the   *)
(* shell saves a buffer in which a put has failed half way, or a program   *)
(* saves a buffer that is older than the file.                             *)
Store == INSTANCE ImageStore
            WITH Values <- {Ok(c) : c \in Contents}, Lost <- None,
                 store <- IF suspect THEN None ELSE held,
                 pending <- IF suspect THEN {} ELSE
                    {p \in UNION {ToSet(job[x]) : x \in Programs} : p[1] \in Paths}
ImplementsStore == Store!Spec

(* "put <fat_path> <src> - écrire un fichier dans l'image (persistant)":   *)
(* what a save changes in the file was put; every other path keeps what it *)
(* held.                                                                   *)
OthersPersist ==
    [][\A x \in Programs :
          at[x] = "saving" /\ at'[x] # "saving" /\ image' # image =>
              \A p \in Paths : \/ held'[p] = held[p]
                               \/ <<p, held'[p]>> \in ToSet(job[x])]_vars

(* "cd [path] - changer de répertoire courant": every directory the shell  *)
(* can list it can change to.                                              *)
CdGoesWhereLsDoes ==
    "shell" \in Programs /\ at["shell"] = "prompt" /\ data # None =>
        \A path \in Targets : run_ls(data, path).ok => Enters(data, path)
=============================================================================
