--------------------------- MODULE TerminalUploads ---------------------------
(***************************************************************************)
(* Files sent into the current directory of a terminal's shell             *)
(* (internal/app/terminal_upload.go, and the bridge of terminal.go that    *)
(* owns the upload manager).                                               *)
(*                                                                         *)
(* The data goes to a hidden temporary file, which is published at the end *)
(* with a hard link under the first free name. One goroutine reads the     *)
(* browser's messages and runs the manager; the bridge ends when either    *)
(* direction fails, and then closes the manager from its own goroutine,    *)
(* whatever the first is doing.                                            *)
(*                                                                         *)
(* Assumed: what can be made in the directory can be removed from it, so   *)
(* os.Remove fails only for what is gone.                                  *)
(***************************************************************************)
EXTENDS Naturals, FiniteSets

CONSTANTS
    Terminals,  \* bridges of shells that are in the same directory
    Uploads,    \* identifiers: the browser draws a fresh one each time
    Other,      \* a file nobody uploaded
    Unset,      \* the value of what is absent
    Names,      \* bound: "name", "name (1)", ...: 10000 in the code
    Chunks      \* the declared size, in chunks

Candidates == 0..(Names - 1)

VARIABLES
    bridge,     \* open, ended, or dead with its process
    reader,     \* what the reading goroutine is doing
    active,     \* the manager's active uploads
    written,    \* chunks written
    parts,      \* uploads whose temporary file exists
    dir,        \* what is at each name
    told,       \* what the browser was told of each upload
    sender,     \* the terminal on which it was sent
    strays      \* history: uploads whose temporary file nobody is left to remove

vars == <<bridge, reader, active, written, parts, dir, told, sender, strays>>

Idle == [pc |-> "idle"]

Work ==
    [pc : {"starting", "created", "looking", "linking", "linked"},
     up : Uploads, name : Candidates \cup {Unset}]

TypeOK ==
    /\ bridge \in [Terminals -> {"open", "ended", "dead"}]
    /\ reader \in [Terminals -> Work \cup {Idle}]
    /\ active \in [Terminals -> SUBSET Uploads]
    /\ written \in [Uploads -> 0..Chunks]
    /\ parts \cup strays \subseteq Uploads
    /\ dir \in [Candidates -> Uploads \cup {Other, Unset}]
    /\ told \in [Uploads -> SUBSET {"ready", "done", "error"}]
    /\ sender \in [Uploads -> Terminals \cup {Unset}]

Init ==
    /\ bridge = [t \in Terminals |-> "open"]
    /\ reader = [t \in Terminals |-> Idle]
    /\ active = [t \in Terminals |-> {}]
    /\ written = [u \in Uploads |-> 0]
    /\ parts = {}
    /\ dir \in [Candidates -> {Other, Unset}]
    /\ told = [u \in Uploads |-> {}]
    /\ sender = [u \in Uploads |-> Unset]
    /\ strays = {}

-----------------------------------------------------------------------------

\* The reader takes the next message; it still does when the other direction of the
\* bridge has failed and the bridge has not ended yet.
Reads(t) == bridge[t] = "open" /\ reader[t] = Idle

At(t, pc) == reader[t].pc = pc

Doing(t, pc, u, n) == reader' = [reader EXCEPT ![t] = [pc |-> pc, up |-> u, name |-> n]]

Rests(t) == reader' = [reader EXCEPT ![t] = Idle]

Tell(u, what) == told' = [told EXCEPT ![u] = @ \cup {what}]

Fresh(u) ==
    /\ told[u] = {}
    /\ \A t \in Terminals : reader[t] # Idle => reader[t].up # u

\* Mutant: the temporary file is left.
AbortKeepsPart(t, u) ==
    /\ active' = [active EXCEPT ![t] = @ \ {u}]
    /\ Tell(u, "error")
    /\ UNCHANGED parts

\* abort: an upload that is no longer active has its temporary file left to whoever
\* took it out. The browser is told an error all the same.
Abort(t, u) ==
    /\ active' = [active EXCEPT ![t] = @ \ {u}]
    /\ parts' = IF u \in active[t] THEN parts \ {u} ELSE parts
    /\ Tell(u, "error")

FreeNames == {n \in Candidates : dir[n] = Unset}

FirstFree == CHOOSE n \in FreeNames : \A o \in FreeNames : n <= o

-----------------------------------------------------------------------------
(* upload.start. *)

Start(t, u) ==
    /\ Reads(t)
    /\ Fresh(u)
    /\ IF FreeNames = {}
       THEN Tell(u, "error") /\ UNCHANGED reader
       ELSE Doing(t, "starting", u, Unset) /\ UNCHANGED told
    /\ sender' = [sender EXCEPT ![u] = t]
    /\ UNCHANGED <<bridge, active, written, parts, dir, strays>>

\* The current directory is known, and CreateTemp makes the file; or one of them fails.
CreateTemp(t) ==
    LET u == reader[t].up IN
    /\ At(t, "starting")
    /\ \/ Rests(t) /\ Tell(u, "error") /\ UNCHANGED parts
       \/ Doing(t, "created", u, Unset) /\ parts' = parts \cup {u} /\ UNCHANGED told
    /\ UNCHANGED <<bridge, active, written, dir, sender, strays>>

Register(t) ==
    LET u == reader[t].up IN
    /\ At(t, "created")
    /\ Rests(t)
    /\ active' = [active EXCEPT ![t] = @ \cup {u}]
    /\ Tell(u, "ready")
    /\ UNCHANGED <<bridge, written, parts, dir, sender, strays>>

-----------------------------------------------------------------------------
(* Data, upload.cancel and upload.finish. They may come when the upload is not active *)
(* any more: data that was on its way when it failed, and the cancel of a browser     *)
(* whose wait for an answer ran out, which may be after it was published.             *)

Hears(t, u) == Reads(t) /\ sender[u] = t

\* An error: more data than was declared, a disk that refuses it, or no such upload.
HandleChunk(t, u) ==
    /\ Hears(t, u)
    /\ \/ /\ u \in active[t] /\ written[u] < Chunks
          /\ written' = [written EXCEPT ![u] = @ + 1]
          /\ UNCHANGED <<active, parts, told>>
       \/ Abort(t, u) /\ UNCHANGED written
    /\ UNCHANGED <<bridge, reader, dir, sender, strays>>

Cancel(t, u) ==
    /\ Hears(t, u)
    /\ Abort(t, u)
    /\ UNCHANGED <<bridge, reader, written, dir, sender, strays>>

\* Mutant: what arrived is published.
FinishAnyway(t, u) ==
    /\ Hears(t, u) /\ u \in active[t]
    /\ Doing(t, "looking", u, Unset)
    /\ UNCHANGED <<bridge, active, written, parts, dir, told, sender, strays>>

\* An error: not all has arrived, the temporary file cannot be closed, or no such upload.
Finish(t, u) ==
    /\ Hears(t, u)
    /\ \/ /\ u \in active[t] /\ written[u] = Chunks
          /\ Doing(t, "looking", u, Unset)
          /\ UNCHANGED <<active, parts, told>>
       \/ Abort(t, u) /\ UNCHANGED reader
    /\ UNCHANGED <<bridge, written, dir, sender, strays>>

\* availableTerminalUploadPath: the first name for which Lstat finds nothing; or an error.
Look(t) ==
    LET u == reader[t].up IN
    /\ At(t, "looking")
    /\ \/ Rests(t) /\ Abort(t, u)
       \/ /\ FreeNames # {}
          /\ Doing(t, "linking", u, FirstFree)
          /\ UNCHANGED <<active, parts, told>>
    /\ UNCHANGED <<bridge, written, dir, sender, strays>>

\* Mutant: the temporary file is renamed over what has come to be there.
LinkOver(t) ==
    LET u == reader[t].up
        n == reader[t].name IN
    /\ At(t, "linking")
    /\ dir' = [dir EXCEPT ![n] = u]
    /\ Doing(t, "linked", u, n)
    /\ UNCHANGED <<bridge, active, written, parts, told, sender, strays>>

\* The link fails when the name was taken since, and another is looked for, unless that was
\* the last attempt; or when the temporary file has been removed, or for another reason.
Link(t) ==
    LET u == reader[t].up
        n == reader[t].name IN
    /\ At(t, "linking")
    /\ \/ Rests(t) /\ Abort(t, u) /\ UNCHANGED dir
       \/ /\ u \in parts /\ dir[n] # Unset
          /\ Doing(t, "looking", u, Unset)
          /\ UNCHANGED <<dir, active, parts, told>>
       \/ /\ u \in parts /\ dir[n] = Unset
          /\ dir' = [dir EXCEPT ![n] = u]
          /\ Doing(t, "linked", u, n)
          /\ UNCHANGED <<active, parts, told>>
    /\ UNCHANGED <<bridge, written, sender, strays>>

\* The temporary name goes; if it is gone already the upload is undone.
RemoveTemp(t) ==
    LET u == reader[t].up
        n == reader[t].name IN
    /\ At(t, "linked")
    /\ Rests(t)
    /\ IF u \in parts
       THEN /\ parts' = parts \ {u}
            /\ active' = [active EXCEPT ![t] = @ \ {u}]
            /\ Tell(u, "done")
            /\ UNCHANGED dir
       ELSE dir' = [dir EXCEPT ![n] = Unset] /\ Abort(t, u)
    /\ UNCHANGED <<bridge, written, sender, strays>>

-----------------------------------------------------------------------------
(* The end of a bridge, and the others in the directory. *)

\* The shell ended, or the browser left: the manager's active uploads are aborted.
End(t) ==
    /\ bridge[t] = "open"
    /\ bridge' = [bridge EXCEPT ![t] = "ended"]
    /\ active' = [active EXCEPT ![t] = {}]
    /\ parts' = parts \ active[t]
    /\ strays' = strays \cup
          {u \in Uploads : reader[t] # Idle /\ reader[t].up = u /\ u \notin active[t]}
    /\ UNCHANGED <<reader, written, dir, told, sender>>

\* The process dies: every terminal it serves with it.
Die ==
    /\ \E t \in Terminals : bridge[t] # "dead"
    /\ bridge' = [t \in Terminals |-> "dead"]
    /\ reader' = [t \in Terminals |-> Idle]
    /\ active' = [t \in Terminals |-> {}]
    /\ strays' = strays \cup parts
    /\ UNCHANGED <<written, parts, dir, told, sender>>

\* Someone else makes a file. Nobody else takes one away.
MakeOther(n) ==
    /\ dir[n] = Unset
    /\ dir' = [dir EXCEPT ![n] = Other]
    /\ UNCHANGED <<bridge, reader, active, written, parts, told, sender, strays>>

-----------------------------------------------------------------------------

Serve(t) ==
    \/ \E u \in Uploads :
          Start(t, u) \/ HandleChunk(t, u) \/ Cancel(t, u) \/ Finish(t, u)
    \/ CreateTemp(t) \/ Register(t) \/ Look(t) \/ Link(t) \/ RemoveTemp(t)

Next ==
    \/ \E t \in Terminals : Serve(t) \/ End(t)
    \/ Die
    \/ \E n \in Candidates : MakeOther(n)

Spec == Init /\ [][Next]_vars

-----------------------------------------------------------------------------
(* Properties. *)

Published(u) == \E n \in Candidates : dir[n] = u

Busy(u) == \E t \in Terminals : reader[t] # Idle /\ reader[t].up = u

\* What the browser is told is what happened, wherever the end of the bridge falls: "done"
\* only of a file that is whole and there; and an error, unless it was told "done" too,
\* only of one that is not there and will not be. After "done" an error tells nothing: it
\* answers a cancel that came too late, and the file stays.
OutcomeTold ==
    \A u \in Uploads :
        /\ "done" \in told[u] => Published(u) /\ written[u] = Chunks
        /\ "error" \in told[u] /\ "done" \notin told[u] =>
              ~Published(u) /\ ~Busy(u) /\ \A t \in Terminals : u \notin active[t]

\* "un archivo existente nunca se sobrescribe" (README.md:485): whatever other
\* terminals or programs make in the directory between the look and the link, what is
\* at a name stays, unless it is an upload that is being undone, of which "done" has not
\* been told.
NeverReplaced ==
    [][\A n \in Candidates :
          dir[n] # Unset /\ dir'[n] # dir[n] =>
              dir[n] \in Uploads /\ "error" \in told'[dir[n]] /\ "done" \notin told'[dir[n]]]_vars

\* Every temporary file has a manager or a reader that will remove it, except those
\* that a start still under way, or a dead process, left behind.
PartialsTended ==
    \A u \in parts \ strays :
        \/ \E t \in Terminals : bridge[t] = "open" /\ u \in active[t]
        \/ Busy(u)

\* "Limpiar parciales ... cuando termina la sesion de terminal"
\* (contexto/69-transferencia-archivos-terminal.md:16).
PartialsRemoved ==
    (\A t \in Terminals : bridge[t] = "ended" /\ reader[t] = Idle) => parts = {}

=============================================================================
