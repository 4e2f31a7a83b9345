------------------------------ MODULE FileStore ------------------------------
(***************************************************************************)
(* What the shell may expect of a file system it calls one command at a    *)
(* time: a file changes only while a command on it runs, and only as that  *)
(* command says; an answer is true when it is given; the machine may stop  *)
(* at any point and nothing that was answered is lost.  All of it holds    *)
(* until the disk is first damaged, and nothing of it after.               *)
(***************************************************************************)
EXTENDS Integers, Sequences

CONSTANTS
  Path,     \* names files may have
  Command,  \* [kind, path, data, slash], data the units to be written
  NULL      \* no file, no command, no answer

VARIABLES
  files,    \* contents of the file of each path, or NULL
  command,  \* the command being served, or NULL
  answer,   \* what the last command was told, [ok, data], or NULL
  damaged   \* the disk has failed a request, or was cut off at a bad moment

vars == <<files, command, answer, damaged>>

Init ==
  /\ files = [p \in Path |-> NULL]
  /\ command = NULL
  /\ answer = NULL
  /\ damaged = FALSE

\* The contents old once the first units of data have been written over it.
Overwritten(old, data, n) ==
  [i \in 1 .. (IF n > Len(old) THEN n ELSE Len(old)) |->
     IF i <= n THEN data[i] ELSE old[i]]

\* What a command may have made of a file of contents old by some moment.  Writing goes
\* from front to back; a file that grows gets its new length last.
MayBecome(c, old, new) ==
  \/ new = old
  \/ c.kind \in {"touch", "write"} /\ old = NULL /\ new = << >>
  \/ /\ c.kind = "write" /\ old # NULL
     /\ \E n \in 1 .. Len(c.data) :
          LET whole == Overwritten(old, c.data, n)
          IN  new = whole \/ new = SubSeq(whole, 1, Len(old))
  \/ c.kind = "rm" /\ new = NULL

\* What may be answered to a command when its file has contents new.
True(c, new, a) ==
  CASE c.kind = "touch" -> a.ok => new = << >>
    [] c.kind = "write" ->
         a.ok => /\ new # NULL /\ Len(new) >= Len(a.data)
                 /\ SubSeq(new, 1, Len(a.data)) = a.data
                 /\ SubSeq(c.data, 1, Len(a.data)) = a.data
    [] c.kind = "rm" -> new = NULL \/ (~ a.ok /\ c.slash)  \* rm /name is refused
    [] c.kind = "cat" -> IF a.ok THEN new = a.data ELSE new = NULL
    [] OTHER -> TRUE

Begin ==
  /\ command = NULL
  /\ command' \in Command
  /\ answer' = NULL
  /\ UNCHANGED <<files, damaged>>

\* What the command that runs may do in a step: the file of its path, and no other.
Work ==
  /\ command # NULL /\ ~ damaged
  /\ LET p == command.path
     IN  IF p \in Path
         THEN /\ MayBecome(command, files[p], files'[p])
              /\ files' = [files EXCEPT ![p] = files'[p]]
         ELSE UNCHANGED files

Proceed == UNCHANGED <<command, answer, damaged>> /\ Work

\* The last of the work may be done in the step that answers.
Finish ==
  /\ answer' # NULL
  /\ command' = NULL
  /\ UNCHANGED damaged
  /\ Work
  /\ command.path \in Path => True(command, files'[command.path], answer')

\* Power is lost; what was being done stays as it is.
Crash ==
  /\ command' = NULL /\ answer' = NULL
  /\ UNCHANGED <<files, damaged>>

Fail == damaged' = TRUE

Next == Fail \/ Begin \/ Proceed \/ Finish \/ Crash

Spec == Init /\ [][Next]_vars

==============================================================================
