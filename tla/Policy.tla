------------------------------- MODULE Policy -------------------------------
(***************************************************************************)
(* The policy of a node (policy/policy.go): the policy file, the Policy     *)
(* struct read from it, the commands that rewrite the file and read it again*)
(* under the package's mutex, and ReloadFile, which the reload command calls*)
(* without that mutex.                                                      *)
(*                                                                          *)
(* The file is a sequence of lines; a line sets allow_new_swaps or lists a  *)
(* peer as allowed or suspicious.  The other settings have no writer.       *)
(***************************************************************************)
EXTENDS Naturals, Sequences, FiniteSets

CONSTANTS
  Pubkeys,         \* peers
  Lists,           \* the peer lists modelled: allowlisted_peers, suspicious_peers
  MaxPolicyLines,  \* bound: lines of the file
  MaxMishaps       \* bound: crashes, failing file operations and edits by hand

ASSUME PolicyAssumption ==
  /\ Lists \subseteq {"allowlisted_peers", "suspicious_peers"}
  /\ {MaxPolicyLines, MaxMishaps} \subseteq Nat

AllowLine(b) == [key |-> "allow_new_swaps", value |-> b]
ListLine(l, p) == [key |-> l, value |-> p]
Garbled == [key |-> "garbled", value |-> "none"]

VARIABLES
  file,      \* the lines of policy.conf
  newline,   \* its last line is terminated; an edit by hand may leave it open
  settings,  \* the Policy struct: [allow, lists]
  path,      \* p.path # ""
  cmd,       \* the command that holds mu
  reloader,  \* the ReloadFile that does not
  polUp,     \* the process runs
  suspect,   \* an edit, a failure or an overlapping reload since the last clean read
  decreed,   \* what the last EnableSwaps or DisableSwaps decided, if nothing undid it
  mishaps    \* how many there were

polVars == <<file, newline, settings, path, cmd, reloader, polUp, suspect, decreed, mishaps>>
memory == <<settings, path, polUp>>

\* create: DefaultPolicy, then the lines in order.  A line that another was glued to
\* does not parse.
Parses(f) == \A k \in DOMAIN f : f[k] # Garbled

AllowLines(f) == {k \in DOMAIN f : f[k].key = "allow_new_swaps"}
AllowOf(f) ==
  \/ AllowLines(f) = {}
  \/ \E k \in AllowLines(f) : f[k].value /\ \A m \in AllowLines(f) : m <= k

Listed(f, l) == {f[k].value : k \in {m \in DOMAIN f : f[m].key = l}}

Parse(f) == [allow |-> AllowOf(f), lists |-> [l \in Lists |-> Listed(f, l)]]

\* clean: nothing has touched the file since the thread read it.
NoThread == [op |-> "idle", pc |-> "idle", list |-> "none", peer |-> "none",
             read |-> Parse(<<>>), clean |-> TRUE]

PolicyInit ==
  /\ file = <<>>
  /\ newline = TRUE
  /\ settings = Parse(<<>>)
  /\ path = TRUE
  /\ cmd = NoThread
  /\ reloader = NoThread
  /\ polUp = TRUE
  /\ suspect = FALSE
  /\ decreed = "none"
  /\ mishaps = 0

\* A crash, a failure or an edit.
Happens == mishaps < MaxMishaps /\ mishaps' = mishaps + 1

-----------------------------------------------------------------------------
\* Commands that change the file, holding mu from their first to their last step.

Begin(op, pc, l, p) ==
  /\ polUp /\ path /\ cmd.op = "idle"
  /\ Len(file) < MaxPolicyLines \/ op = "remove"
  /\ cmd' = [NoThread EXCEPT !.op = op, !.pc = pc, !.list = l, !.peer = p]
  /\ UNCHANGED <<file, newline, memory, reloader, suspect, decreed, mishaps>>

\* Without a path removeLineFromFile cannot open the file, and the others return
\* ErrNoPolicyFile: the guard on path is in Begin.
DisableSwaps == settings.allow /\ Begin("disable", "remove", "none", "none")
EnableSwaps == ~settings.allow /\ Begin("enable", "remove", "none", "none")

\* AddToAllowlist, AddToSuspiciousPeerList.
AddToList(l, p) ==
  /\ p \notin settings.lists[l]
  /\ Begin("add", "append", l, p)

\* RemoveFromAllowlist, RemoveFromSuspiciousPeerList.
RemoveFromList(l, p) == p \in settings.lists[l] /\ Begin("remove", "remove", l, p)

OldLine == CASE cmd.op = "disable" -> AllowLine(TRUE)
             [] cmd.op = "enable" -> AllowLine(FALSE)
             [] OTHER -> ListLine(cmd.list, cmd.peer)
NewLine == CASE cmd.op = "disable" -> AllowLine(FALSE)
             [] cmd.op = "enable" -> AllowLine(TRUE)
             [] OTHER -> ListLine(cmd.list, cmd.peer)

\* The other lines, in their order.
Rank(S, k) == Cardinality({m \in S : m <= k})
Nth(S, i) == CHOOSE k \in S : Rank(S, k) = i

Without(f, line) ==
  LET kept == {k \in DOMAIN f : f[k] # line}
  IN [i \in 1..Cardinality(kept) |-> f[Nth(kept, i)]]

\* What a thread has read is out of date.
Overtaken(t) == IF t.pc # "assign" THEN t ELSE [t EXCEPT !.clean = FALSE]

\* A write to the file overtakes the reload that has read it and not assigned it.
Written(f, nl) ==
  /\ file' = f
  /\ newline' = nl
  /\ reloader' = Overtaken(reloader)
  /\ suspect' = TRUE

\* removeLineFromFile writes back the other lines, each with a newline.
RemoveLine ==
  /\ cmd.pc = "remove"
  /\ Written(Without(file, OldLine), TRUE)
  /\ cmd' = [cmd EXCEPT !.pc = IF cmd.op = "remove" THEN "open" ELSE "append"]
  /\ decreed' = IF cmd.op = "remove" THEN decreed ELSE "none"
  /\ UNCHANGED <<memory, mishaps>>

\* Faulty: true is written whatever the command.
AddLineTrue ==
  /\ cmd.pc = "append"
  /\ Written(Append(file, AllowLine(TRUE)), TRUE)
  /\ cmd' = [cmd EXCEPT !.pc = "open"]
  /\ decreed' = CASE cmd.op = "disable" -> "off" [] cmd.op = "enable" -> "on"
                  [] OTHER -> decreed
  /\ UNCHANGED <<memory, mishaps>>

\* addLineToFile appends; to an open last line the new one is glued.
AddLine ==
  /\ cmd.pc = "append"
  /\ Written(IF newline THEN Append(file, NewLine) ELSE [file EXCEPT ![Len(file)] = Garbled],
             TRUE)
  /\ cmd' = [cmd EXCEPT !.pc = "open"]
  /\ decreed' = CASE cmd.op = "disable" -> "off" [] cmd.op = "enable" -> "on"
                  [] OTHER -> decreed
  /\ UNCHANGED <<memory, mishaps>>

\* A file operation fails and the command returns its error: what it has already
\* written stays.
CommandFails ==
  /\ cmd.pc \in {"remove", "append", "open"}
  /\ Happens
  /\ cmd' = NoThread
  /\ suspect' = TRUE
  /\ UNCHANGED <<file, newline, memory, reloader, decreed>>

-----------------------------------------------------------------------------
\* ReloadFile, at the end of a command and, by ReloadPolicyFile, without mu.

\* What a thread holds once it has read the file; a file that does not parse, or an
\* empty path, makes it return.
AfterRead(t) ==
  IF path /\ Parses(file) THEN [t EXCEPT !.pc = "assign", !.read = Parse(file), !.clean = TRUE]
  ELSE NoThread

CmdRead ==
  /\ cmd.pc = "open"
  /\ cmd' = AfterRead(cmd)
  /\ UNCHANGED <<file, newline, memory, reloader, suspect, decreed, mishaps>>

\* Faulty: only allow_new_swaps is taken over from the file that was read.
CmdAssignAllowOnly ==
  /\ cmd.pc = "assign"
  /\ settings' = [settings EXCEPT !.allow = cmd.read.allow]
  /\ path' = FALSE
  /\ suspect' = ~cmd.clean
  /\ cmd' = [NoThread EXCEPT !.op = cmd.op, !.pc = "reopen"]
  /\ UNCHANGED <<file, newline, reloader, polUp, decreed, mishaps>>

\* *p = *newp: the new struct has no path.
CmdAssign ==
  /\ cmd.pc = "assign"
  /\ settings' = cmd.read
  /\ path' = FALSE
  /\ suspect' = ~cmd.clean
  /\ cmd' = [NoThread EXCEPT !.op = cmd.op, !.pc = "reopen"]
  /\ UNCHANGED <<file, newline, reloader, polUp, decreed, mishaps>>

\* The second OpenFile gives the path back, or fails and it stays empty.
Reopen ==
  \/ path' = TRUE /\ UNCHANGED mishaps
  \/ Happens /\ UNCHANGED path

CmdReopen ==
  /\ cmd.pc = "reopen"
  /\ Reopen
  /\ cmd' = NoThread
  /\ UNCHANGED <<file, newline, settings, polUp, reloader, suspect, decreed>>

ReloadRead ==
  /\ polUp /\ reloader.op = "idle"
  /\ reloader' = AfterRead([NoThread EXCEPT !.op = "reload"])
  /\ UNCHANGED <<file, newline, memory, cmd, suspect, decreed, mishaps>>

ReloadAssign ==
  /\ reloader.pc = "assign"
  /\ settings' = reloader.read
  /\ path' = FALSE
  /\ suspect' = ~reloader.clean
  /\ reloader' = [NoThread EXCEPT !.op = "reload", !.pc = "reopen"]
  /\ UNCHANGED <<file, newline, cmd, polUp, decreed, mishaps>>

ReloadReopen ==
  /\ reloader.pc = "reopen"
  /\ Reopen
  /\ reloader' = NoThread
  /\ UNCHANGED <<file, newline, settings, polUp, cmd, suspect, decreed>>

-----------------------------------------------------------------------------
\* The environment.

\* The operator appends a line by hand, and may leave it open.
EditFile ==
  /\ Len(file) < MaxPolicyLines /\ newline
  /\ Happens
  /\ \E line \in {AllowLine(b) : b \in BOOLEAN} \cup {ListLine(l, p) : l \in Lists, p \in Pubkeys} :
       /\ file' = Append(file, line)
       /\ decreed' = IF line.key = "allow_new_swaps" THEN "none" ELSE decreed
  /\ newline' \in BOOLEAN
  /\ cmd' = Overtaken(cmd)
  /\ reloader' = Overtaken(reloader)
  /\ suspect' = TRUE
  /\ UNCHANGED memory

\* The process ends, perhaps inside os.WriteFile with only a part of the file written,
\* and starts again with CreateFromFile, if the file parses.
StopPolicy ==
  /\ polUp
  /\ Happens
  /\ \/ UNCHANGED <<file, newline, decreed>>
     \/ /\ cmd.pc = "remove"
        /\ \E n \in 0 .. Len(Without(file, OldLine)) : file' = SubSeq(Without(file, OldLine), 1, n)
        /\ newline' = TRUE
        /\ decreed' = "none"
  /\ polUp' = Parses(file')
  /\ settings' = IF polUp' THEN Parse(file') ELSE settings
  /\ path' = TRUE
  /\ cmd' = NoThread
  /\ reloader' = NoThread
  /\ suspect' = FALSE

PolicyNext ==
  \/ DisableSwaps \/ EnableSwaps
  \/ \E l \in Lists, p \in Pubkeys : AddToList(l, p) \/ RemoveFromList(l, p)
  \/ RemoveLine \/ AddLine \/ CommandFails \/ CmdRead \/ CmdAssign \/ CmdReopen
  \/ ReloadRead \/ ReloadAssign \/ ReloadReopen
  \/ EditFile \/ StopPolicy

PolicySpec == PolicyInit /\ [][PolicyNext]_polVars

-----------------------------------------------------------------------------
\* Properties.

\* When no command and no reload runs, the node acts on what the file says, unless the
\* file was edited, a command failed half-way, or a ReloadFile outside the mutex
\* overlapped a command and put the settings it had read earlier back.
SettingsMatchFile ==
  polUp /\ cmd.op = "idle" /\ reloader.op = "idle" /\ ~suspect => settings = Parse(file)

\* "This persists in the policy.conf": what DisableSwaps or EnableSwaps decided is what
\* the file says, through later commands, reloads and restarts, until the operator edits
\* that setting, the opposite command runs, or a crash cuts a rewrite short.
DecreePersists ==
  Parses(file)
    => /\ decreed = "off" => ~AllowOf(file)
       /\ decreed = "on" => AllowOf(file)
=============================================================================
