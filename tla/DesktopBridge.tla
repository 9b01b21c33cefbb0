---------------------------- MODULE DesktopBridge ----------------------------
(***************************************************************************)
(* desktop_bridge.py: one desktop window drives the live client through a   *)
(* pair of pipes.  Commands are served one at a time; the live task runs    *)
(* beside them and both speak through one bounded writer thread, which may  *)
(* replace a queued preview by a newer message about the same caption.  The *)
(* projection is shared by the live client, which changes it as events are  *)
(* accepted and saves it when it ends, and by the user's edits, which save  *)
(* it themselves once the live task is over.                                *)
(*                                                                          *)
(* A Thing is what the window displays and the user edits: a caption, a     *)
(* caption group or the table of speaker names.  Its content is the number  *)
(* of the change that last wrote it, 0 before it exists.                    *)
(***************************************************************************)
EXTENDS Integers, Sequences, SequencesExt, Deques

CONSTANTS Things,
          MaxLines,   \* PipeWriter.max_lines
          MaxViews,   \* bound: sessions started and archives opened
          MaxChanges  \* bound: changes of the projection

(* A queued message without a thing has the key 0. *)
ASSUME DeskAssumption == 0 \notin Things

VARIABLES deskTask,   \* the live task: none, live, saving, notice, tail, done
          deskView,   \* session_id: the view the window is shown
          deskFolder, \* output_dir, named by the view that created it
          deskProj,   \* the projection's captions
          deskPending,\* the snapshot a worker thread is writing for the live task
          deskDisk,   \* session.json of every folder
          deskLines,  \* PipeWriter._queue
          deskCmd,    \* the command being served
          deskToken,  \* _history_token: a view, or 0 for None
          deskUi,     \* the window (external): what it displays
          deskChange, \* number of the last change
          deskBroken, \* the observer failed: the window saw no later event
          deskUntold, \* views in which an edit's message timed out: reported as an error
          deskOvertaken \* history: things that a live event changed after an edit of
                        \* them had begun to wait for room

deskVars == <<deskTask, deskView, deskFolder, deskProj, deskPending, deskDisk, deskLines, deskCmd,
              deskToken, deskUi, deskChange, deskBroken, deskUntold, deskOvertaken>>

Nothing == [x \in Things |-> 0]
NoCommand == [step |-> "none", thing |-> 0, data |-> Nothing, reply |-> "none"]

DeskInit ==
    /\ deskTask = "none" /\ deskView = 0 /\ deskFolder = 0
    /\ deskProj = Nothing /\ deskPending = Nothing
    /\ deskDisk = [v \in 1..MaxViews |-> Nothing]
    /\ deskLines = <<>> /\ deskCmd = NoCommand /\ deskToken = 0
    /\ deskUi = [view |-> 0, things |-> Nothing, paged |-> {}, opened |-> Nothing]
    /\ deskChange = 0 /\ deskBroken = FALSE /\ deskUntold = {} /\ deskOvertaken = {}

LiveActive == deskTask \notin {"none", "done"}
BetweenCommands == deskCmd.step = "none"

(* An edit of x waits for room for its message. *)
Telling(x) == deskCmd.step = "tell" /\ deskCmd.thing = x

-----------------------------------------------------------------------------
(* PipeWriter *)

MessageOf(view, kind, thing, preview, data) ==
    [kind |-> kind, view |-> view, key |-> thing, preview |-> preview, data |-> data]

Message(kind, thing, preview, data) == MessageOf(deskView, kind, thing, preview, data)

Superseded(lines, key) == Filter(lines, LAMBDA m : ~(m.key = key /\ m.key # 0 /\ m.preview))

(* A variant of Emit: the queued message is kept and the new one dropped. *)
EmitKeepingOld(lines, message) ==
    IF \E m \in ToSet(lines) : m.key = message.key /\ m.key # 0 THEN lines ELSE Append(lines, message)

(* emit: a queued preview with the same key makes room for the new message. *)
Emit(lines, message) == Append(Superseded(lines, message.key), message)

HasRoom(lines, key) == Len(Superseded(lines, key)) < MaxLines

(* The writer thread hands a line to the window, which shows the messages   *)
(* of its own view; a new session or an opened archive begins a view.       *)
WriterSends ==
    /\ deskLines # <<>>
    /\ deskLines' = Tail(deskLines)
    /\ deskUi' =
         LET m == Head(deskLines) IN
         CASE m.kind \in {"session", "opened"} ->
                  [view |-> m.view, things |-> Nothing, paged |-> {}, opened |-> m.data]
           [] m.kind = "caption" /\ m.view = deskUi.view ->
                  [deskUi EXCEPT !.things[m.key] = m.data[m.key]]
           [] m.kind = "page" /\ m.view = deskUi.view ->
                  [deskUi EXCEPT !.things[m.data.thing] = m.data.content, !.paged = @ \union {m.data}]
           [] OTHER -> deskUi
    /\ UNCHANGED <<deskTask, deskView, deskFolder, deskProj, deskPending, deskDisk, deskCmd, deskToken,
                   deskChange, deskBroken, deskUntold, deskOvertaken>>

-----------------------------------------------------------------------------
(* The live task: _run around run_live, with _observe as its observer.      *)

(* The client accepted an event: the projection has changed and the window  *)
(* is told at once.  A full writer raises, which ends the session.          *)
ObserveEvent(x, preview) ==
    /\ deskTask = "live" /\ ~deskBroken /\ deskChange < MaxChanges
    /\ deskChange' = deskChange + 1
    /\ deskProj' = [deskProj EXCEPT ![x] = deskChange + 1]
    /\ deskOvertaken' = IF Telling(x) THEN deskOvertaken \cup {x} ELSE deskOvertaken \ {x}
    /\ IF HasRoom(deskLines, x)
       THEN /\ deskLines' = Emit(deskLines, Message("caption", x, preview, deskProj'))
            /\ UNCHANGED deskBroken
       ELSE /\ deskBroken' = TRUE /\ UNCHANGED deskLines
    /\ UNCHANGED <<deskTask, deskView, deskFolder, deskPending, deskDisk, deskCmd, deskToken, deskUi, deskUntold>>

(* run_live saves the projection and returns; nothing is awaited until the  *)
(* "finished" message, which waits while the writer is full.                *)
LiveEnds ==
    /\ deskTask = "live"
    /\ deskDisk' = [deskDisk EXCEPT ![deskFolder] = deskProj]
    /\ IF HasRoom(deskLines, 0)
       THEN /\ deskTask' = "done"
            /\ deskLines' = Emit(deskLines, Message("finished", 0, FALSE, Nothing))
       ELSE /\ deskTask' = "tail" /\ UNCHANGED deskLines
    /\ UNCHANGED <<deskView, deskFolder, deskProj, deskPending, deskCmd, deskToken, deskUi, deskChange,
                   deskBroken, deskUntold, deskOvertaken>>

(* run_live raised (cancelled, or its own save failed): the bridge takes a  *)
(* snapshot and has a worker thread write it.                               *)
LiveRaises ==
    /\ deskTask = "live"
    /\ deskTask' = "saving" /\ deskPending' = deskProj
    /\ UNCHANGED <<deskView, deskFolder, deskProj, deskDisk, deskLines, deskCmd, deskToken, deskUi, deskChange,
                   deskBroken, deskUntold, deskOvertaken>>

SnapshotSaved ==
    /\ deskTask = "saving"
    /\ deskDisk' = [deskDisk EXCEPT ![deskFolder] = deskPending]
    /\ deskTask' = "notice"
    /\ UNCHANGED <<deskView, deskFolder, deskProj, deskPending, deskLines, deskCmd, deskToken, deskUi, deskChange,
                   deskBroken, deskUntold, deskOvertaken>>

(* send: retried every 10 ms while the writer is full, and given up after   *)
(* five seconds, which ends the task with an exception.                     *)
TaskSends ==
    /\ deskTask \in {"notice", "tail"}
    /\ \/ /\ HasRoom(deskLines, 0)
          /\ deskLines' = Emit(deskLines, Message(deskTask, 0, FALSE, Nothing))
          /\ deskTask' = IF deskTask = "notice" THEN "tail" ELSE "done"
       \/ /\ ~HasRoom(deskLines, 0)
          /\ deskTask' = "done" /\ UNCHANGED deskLines
    /\ UNCHANGED <<deskView, deskFolder, deskProj, deskPending, deskDisk, deskCmd, deskToken, deskUi, deskChange,
                   deskBroken, deskUntold, deskOvertaken>>

-----------------------------------------------------------------------------
(* Commands *)

Reply(kind, data) == [step |-> "reply", thing |-> 0, data |-> data, reply |-> kind]

(* _start: refused while a session is active; the first message is reserved *)
(* before the previous session is let go.                                   *)
StartSession ==
    /\ BetweenCommands /\ ~LiveActive /\ deskView < MaxViews
    /\ HasRoom(deskLines, 0)
    /\ deskView' = deskView + 1 /\ deskFolder' = deskView + 1
    /\ deskLines' = Emit(deskLines, MessageOf(deskView + 1, "session", 0, FALSE, Nothing))
    /\ deskProj' = Nothing /\ deskToken' = 0 /\ deskTask' = "live"
    /\ deskBroken' = FALSE /\ deskOvertaken' = {}
    /\ deskCmd' = Reply("ok", Nothing)
    /\ UNCHANGED <<deskPending, deskDisk, deskUi, deskChange, deskUntold>>

(* _edited: pages of the archive as it was are stale, and the archive is    *)
(* written again as it is now - unless a live task is going to.             *)
Edited(projection) ==
    /\ deskToken' = 0
    /\ deskCmd' = IF LiveActive THEN Reply("ok", Nothing)
                  ELSE [NoCommand EXCEPT !.step = "save", !.data = projection]

(* assign_speaker, rename_speaker, create_speaker, apply_caption_group: the *)
(* store changes first, then the window is told of it as it is now, then    *)
(* the edit is kept.  Nothing is awaited unless the writer is full: then    *)
(* send() keeps the data of the message.                                    *)
EditThing(x) ==
    /\ BetweenCommands /\ deskView > 0 /\ deskProj[x] > 0 /\ deskChange < MaxChanges
    /\ deskChange' = deskChange + 1
    /\ deskProj' = [deskProj EXCEPT ![x] = deskChange + 1]
    /\ deskOvertaken' = deskOvertaken \ {x}
    /\ \/ /\ HasRoom(deskLines, x)
          /\ deskLines' = Emit(deskLines, Message("caption", x, FALSE, deskProj'))
          /\ Edited(deskProj')
       \/ /\ ~HasRoom(deskLines, x)
          /\ deskCmd' = [NoCommand EXCEPT !.step = "tell", !.thing = x, !.data = deskProj']
          /\ UNCHANGED <<deskLines, deskToken>>
    /\ UNCHANGED <<deskTask, deskView, deskFolder, deskPending, deskDisk, deskUi, deskBroken, deskUntold>>

(* send(), retried: the message is the one of the edit, whatever the live   *)
(* task has changed and told since.                                         *)
TellEdit ==
    /\ deskCmd.step = "tell"
    /\ \/ /\ HasRoom(deskLines, deskCmd.thing)
          /\ deskLines' = Emit(deskLines, Message("caption", deskCmd.thing, FALSE, deskCmd.data))
          /\ Edited(deskProj)
          /\ UNCHANGED deskUntold
       \/ /\ ~HasRoom(deskLines, deskCmd.thing)
          /\ deskUntold' = deskUntold \cup {deskView} /\ deskCmd' = Reply("error", Nothing)
          /\ UNCHANGED <<deskLines, deskToken>>
    /\ UNCHANGED <<deskTask, deskView, deskFolder, deskProj, deskPending, deskDisk, deskUi, deskChange, deskBroken,
                   deskOvertaken>>

EditSaved ==
    /\ deskCmd.step = "save"
    /\ deskDisk' = [deskDisk EXCEPT ![deskFolder] = deskCmd.data]
    /\ deskCmd' = Reply("ok", Nothing)
    /\ UNCHANGED <<deskTask, deskView, deskFolder, deskProj, deskPending, deskLines, deskToken, deskUi, deskChange,
                   deskBroken, deskUntold, deskOvertaken>>

(* _open_history: the archive of folder f becomes an editable view with an  *)
(* identity of its own.                                                     *)
OpenHistory(f) ==
    /\ BetweenCommands /\ ~LiveActive /\ deskView < MaxViews
    /\ deskDisk[f] # Nothing
    /\ deskView' = deskView + 1 /\ deskFolder' = f
    /\ deskProj' = deskDisk[f] /\ deskToken' = deskView + 1
    /\ deskBroken' = FALSE /\ deskOvertaken' = {}
    /\ deskCmd' = Reply("opened", deskDisk[f])
    /\ UNCHANGED <<deskTask, deskPending, deskDisk, deskLines, deskUi, deskChange, deskUntold>>

(* _history_page: the window asks for what lies behind its token.           *)
HistoryPage(x) ==
    /\ BetweenCommands /\ deskUi.opened # Nothing
    /\ deskCmd' = IF LiveActive \/ deskToken = 0 \/ deskUi.view # deskToken
                  THEN Reply("error", Nothing)
                  ELSE Reply("page", [thing |-> x, content |-> deskProj[x]])
    /\ UNCHANGED <<deskTask, deskView, deskFolder, deskProj, deskPending, deskDisk, deskLines, deskToken, deskUi,
                   deskChange, deskBroken, deskUntold, deskOvertaken>>

(* The command_result every command ends with; a send that times out ends   *)
(* the bridge, which is not modelled.                                       *)
SendResult ==
    /\ deskCmd.step = "reply" /\ HasRoom(deskLines, 0)
    /\ deskLines' = Emit(deskLines, Message(deskCmd.reply, 0, FALSE, deskCmd.data))
    /\ deskCmd' = NoCommand
    /\ UNCHANGED <<deskTask, deskView, deskFolder, deskProj, deskPending, deskDisk, deskToken, deskUi, deskChange,
                   deskBroken, deskUntold, deskOvertaken>>

DeskNext ==
    \/ WriterSends
    \/ \E x \in Things, preview \in BOOLEAN : ObserveEvent(x, preview)
    \/ LiveEnds \/ LiveRaises \/ SnapshotSaved \/ TaskSends
    \/ StartSession \/ TellEdit \/ EditSaved \/ SendResult
    \/ \E x \in Things : EditThing(x) \/ HistoryPage(x)
    \/ \E f \in 1..MaxViews : OpenHistory(f)

DeskSpec == DeskInit /\ [][DeskNext]_deskVars

-----------------------------------------------------------------------------
(* The pages an archive view has received under its token are pages of one  *)
(* state of the archive, the one that was opened: an edit between two pages *)
(* makes the rest stale (history_stale), never a mixture.                   *)
PagesAgree ==
    deskUi.view \notin deskUntold => \A p \in deskUi.paged : p.content = deskUi.opened[p.thing]

(* Once the writer has nothing left and no command runs, the window shows   *)
(* the current view as the projection has it (of an archive, what it has    *)
(* paged in, all of it of one state): no coalescing of previews, no order   *)
(* of the live task's and the commands' messages leaves an older caption on *)
(* the screen.  Excepted are the two failures the bridge reports, the       *)
(* observer's and a timed-out message's, and one it does not: the message   *)
(* of an edit that has to wait for room keeps its data, and a live event    *)
(* about the same caption may go out before it; the window then shows the   *)
(* older caption until the next event about it.                             *)
UiCurrent ==
    /\ PagesAgree
    /\ (deskLines = <<>> /\ BetweenCommands /\ ~deskBroken /\ deskView \notin deskUntold) =>
          /\ deskUi.view = deskView
          /\ \A x \in Things \ deskOvertaken : \/ deskUi.things[x] = deskProj[x]
                                               \/ deskUi.things[x] = 0 /\ deskUi.opened # Nothing

(* desktop_bridge.py's promise that a slow window is never "permission to   *)
(* discard final captions or manual edits silently": with no session        *)
(* running and no command in progress, the folder's archive holds the       *)
(* projection, edits included.                                              *)
EditsSaved ==
    (~LiveActive /\ BetweenCommands /\ deskView \notin deskUntold /\ deskView > 0) => deskDisk[deskFolder] = deskProj
=============================================================================
