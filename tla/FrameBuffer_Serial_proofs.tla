---------------------- MODULE FrameBuffer_Serial_proofs ---------------------
(***************************************************************************)
(* Proofs about FrameBuffer and Serial, where the thread of the Mac hands  *)
(* its requests to threads of the device and waits for them.               *)
(*                                                                         *)
(* FrameBuffer: the Mac never draws on an unlocked surface, nothing is     *)
(* drawn on the screen while another desktop is shown, and the picture is  *)
(* lost in the four ways only that ScreenIsCurrent names.  Serial, for any *)
(* number of opens and requests: a request that is done has been           *)
(* transferred.                                                            *)
(***************************************************************************)
EXTENDS FrameBuffer, Serial, TLAPS

-----------------------------------------------------------------------------
(* FrameBuffer.                                                            *)

USE FrameBufferAssumption

Labels == {"lock", "restore", "ready", "wait", "unlock", "handle", "ended", "run", "draw",
           "enter", "reply", "swapped", "stop", "done"}

PcOK == pc \in [Callers \union {"fb"} -> Labels]

\* What the window thread gives: one command, or two on the way back to the Mac.
Nothing == <<>>
Only(c) == <<c>>
BackToMac == <<"FB_SETPALETTE", "FB_LOCK">>

\* A command is with the thread, from fb_signal to fb_reply.
InFlight == fb_signal = 1 \/ pc["fb"] \in {"unlock", "handle"}

\* fb_csection is held by whom waits for the reply, and there is one command or
\* one reply.
HandShake ==
  /\ \A t \in Callers : pc[t] = "reply" <=> fb_csection = t
  /\ fb_csection = "none" => ~ InFlight /\ fb_reply = 0
  /\ fb_signal = 1 => pc["fb"] \notin {"unlock", "handle"}
  /\ InFlight => fb_reply = 0
  /\ InFlight /\ fb_csection = "main" => todo # Nothing /\ fb_current_command = todo[1]
  /\ InFlight /\ fb_csection = "cpu" => fb_current_command = "FB_SETPALETTE"

\* The last command of swap_desktop() has been handled.
Switched == \/ pc["main"] = "swapped"
            \/ pc["main"] = "reply" /\ fb_reply = 1 /\ Len(todo) = 1

\* What the window thread is doing tells its commands; while the CPU thread runs,
\* waiting_to_be_locked tells which desktop is shown.
WindowThread ==
  /\ pc["main"] = "run" => cpu_state = "running" /\ todo = Nothing
  /\ pc["main"] = "swapped" => cpu_state = "suspended" /\ todo = Nothing
  /\ pc["main"] = "draw" => cpu_state = "running"
  /\ pc["main"] \in {"draw", "enter", "reply"} =>
       /\ cpu_state = "running" => todo = Only("FB_UPDATEPALETTE")
       /\ cpu_state = "terminated" => todo = Only("FB_QUIT")
       /\ cpu_state = "suspended" /\ is_own_desktop => todo = Only("FB_UNLOCK")
       /\ cpu_state = "suspended" /\ ~ is_own_desktop =>
            todo \in {BackToMac, Only("FB_LOCK")}
  /\ cpu_state = "running" => waiting_to_be_locked = ~ is_own_desktop
  /\ cpu_state = "suspended" =>
       waiting_to_be_locked = IF Switched THEN is_own_desktop ELSE ~ is_own_desktop

\* The surface and the flags of the thread.
Surface ==
  /\ pc["fb"] \in {"unlock", "handle", "lock"} => MacFrameBaseHost = "the_buffer"
  /\ pc["fb"] \in {"handle", "lock"} \/ waiting_to_be_locked =>
       (is_frame_locked => "refused" \in behind)
  /\ waiting_to_be_locked => ~ lock_next /\ MacFrameBaseHost = "the_buffer"
  /\ ~ waiting_to_be_locked => lock_next

\* The Mac draws on the surface only while it is locked: redraw_thread_fb() moves
\* MacFrameBaseHost before Unlock().
DrawsOnLockedSurface == MacFrameBaseHost = "surface" => is_frame_locked

\* Where the Mac's latest picture is.
Picture ==
  behind = {} =>
    /\ waiting_to_be_locked \/ Restoring => "the_buffer" \in latest
    /\ ~ waiting_to_be_locked /\ ~ Restoring => "surface" \in latest
    /\ pc["fb"] \in {"unlock", "handle"} /\ fb_current_command = "FB_UNLOCK" =>
         "the_buffer" \in latest
    /\ ~ waiting_to_be_locked /\ pc["fb"] \in {"restore", "ready", "wait"} => is_frame_locked

IInv == /\ TypeOK /\ PcOK /\ HandShake /\ WindowThread
        /\ DrawsOnLockedSurface /\ Surface /\ Picture
-----------------------------------------------------------------------------
\* One thread goes on, the others stay where they are.
LEMMA GotoValues ==
  ASSUME PcOK, NEW t \in Callers \union {"fb"}, NEW l \in Labels, Goto(t, l)
  PROVE  /\ PcOK'
         /\ pc'["main"] = IF t = "main" THEN l ELSE pc["main"]
         /\ pc'["cpu"] = IF t = "cpu" THEN l ELSE pc["cpu"]
         /\ pc'["fb"] = IF t = "fb" THEN l ELSE pc["fb"]
BY DEF PcOK, Callers, Goto

\* The lists of commands that the window thread gives.
LEMMA Queues ==
  /\ Nothing \in Seq(Commands) /\ Len(Nothing) = 0
  /\ \A c \in Commands : /\ Only(c) \in Seq(Commands) /\ Only(c) # Nothing /\ Len(Only(c)) = 1
                         /\ Only(c)[1] = c /\ Tail(Only(c)) = Nothing
  /\ BackToMac \in Seq(Commands) /\ BackToMac # Nothing /\ Len(BackToMac) = 2
  /\ BackToMac[1] = "FB_SETPALETTE" /\ Tail(BackToMac) = Only("FB_LOCK")
  /\ "FB_UPDATEPALETTE" \in Commands /\ "FB_QUIT" \in Commands
  /\ "FB_UNLOCK" \in Commands /\ "FB_LOCK" \in Commands
<1>1. \A c \in Commands : /\ Only(c) \in Seq(Commands) /\ Only(c) # Nothing /\ Len(Only(c)) = 1
                          /\ Only(c)[1] = c /\ Tail(Only(c)) = Nothing
  BY DEF Only, Nothing
<1>2. BackToMac \in Seq(Commands) /\ BackToMac # Nothing /\ Len(BackToMac) = 2
  BY DEF BackToMac, Commands, Nothing
<1>3. BackToMac[1] = "FB_SETPALETTE" /\ Tail(BackToMac) = Only("FB_LOCK")
  BY DEF BackToMac, Only
<1>0. Nothing \in Seq(Commands) /\ Len(Nothing) = 0
  BY DEF Nothing
<1>4. /\ "FB_UPDATEPALETTE" \in Commands /\ "FB_QUIT" \in Commands
      /\ "FB_UNLOCK" \in Commands /\ "FB_LOCK" \in Commands
  BY DEF Commands
<1>5. QED
  BY <1>1, <1>2, <1>3, <1>0, <1>4

\* What is left to give says for what.
LEMMA Given ==
  ASSUME IInv, pc["main"] \in {"draw", "enter", "reply"}
  PROVE  /\ todo \in Seq(Commands) /\ todo # Nothing
         /\ \/ /\ cpu_state = "running" /\ todo[1] = "FB_UPDATEPALETTE"
               /\ Len(todo) = 1 /\ Tail(todo) = Nothing
            \/ /\ cpu_state = "terminated" /\ todo[1] = "FB_QUIT"
               /\ Len(todo) = 1 /\ Tail(todo) = Nothing
            \/ /\ cpu_state = "suspended" /\ is_own_desktop /\ todo[1] = "FB_UNLOCK"
               /\ Len(todo) = 1 /\ Tail(todo) = Nothing
            \/ /\ cpu_state = "suspended" /\ ~ is_own_desktop /\ todo[1] = "FB_LOCK"
               /\ Len(todo) = 1 /\ Tail(todo) = Nothing
            \/ /\ cpu_state = "suspended" /\ ~ is_own_desktop /\ todo[1] = "FB_SETPALETTE"
               /\ Len(todo) = 2 /\ Tail(todo) = Only("FB_LOCK")
<1>1. cpu_state \in {"running", "suspended", "terminated"} /\ is_own_desktop \in BOOLEAN
  BY DEF IInv, TypeOK
<1>2. \/ cpu_state = "running" /\ todo = Only("FB_UPDATEPALETTE")
      \/ cpu_state = "terminated" /\ todo = Only("FB_QUIT")
      \/ cpu_state = "suspended" /\ is_own_desktop /\ todo = Only("FB_UNLOCK")
      \/ cpu_state = "suspended" /\ ~ is_own_desktop /\ todo = Only("FB_LOCK")
      \/ cpu_state = "suspended" /\ ~ is_own_desktop /\ todo = BackToMac
  BY <1>1 DEF IInv, WindowThread
<1>3. QED
  BY <1>2, Queues, Zenon

\* The surface is locked, or is not.
LEMMA LockStep ==
  ASSUME IInv, LockSurface
  PROVE  IInv'
<1>1. /\ TypeOK /\ PcOK /\ pc["fb"] = "lock"
      /\ UNCHANGED <<lock_next, waiting_to_be_locked, fb_current_command, fb_signal, fb_reply,
                     latest, fb_csection, draw_csection, is_own_desktop, todo, cpu_state>>
      /\ \/ /\ lock_next /\ is_frame_locked' = TRUE /\ MacFrameBaseHost' = "surface"
            /\ Goto("fb", "restore") /\ behind' = behind
         \/ /\ is_frame_locked' = is_frame_locked /\ MacFrameBaseHost' = MacFrameBaseHost
            /\ behind' = IF lock_next THEN behind \union {"refused"} ELSE behind
            /\ Goto("fb", "ready")
  BY DEF IInv, LockSurface, callVars
<1>2. /\ PcOK' /\ pc'["main"] = pc["main"] /\ pc'["cpu"] = pc["cpu"]
      /\ \/ /\ lock_next /\ is_frame_locked' = TRUE /\ MacFrameBaseHost' = "surface"
            /\ pc'["fb"] = "restore" /\ behind' = behind
         \/ /\ is_frame_locked' = is_frame_locked /\ MacFrameBaseHost' = MacFrameBaseHost
            /\ behind' = IF lock_next THEN behind \union {"refused"} ELSE behind
            /\ pc'["fb"] = "ready"
  BY <1>1, GotoValues DEF Labels
<1>3. TypeOK'
  BY <1>1, <1>2 DEF TypeOK, Memories
<1>4. HandShake' /\ WindowThread'
  BY <1>1, <1>2 DEF IInv, HandShake, InFlight, WindowThread, Switched, Callers
<1>5. DrawsOnLockedSurface' /\ Surface'
  BY <1>1, <1>2 DEF IInv, TypeOK, DrawsOnLockedSurface, Surface
<1>6. Picture'
  BY <1>1, <1>2 DEF IInv, TypeOK, Surface, Picture, Restoring
<1>7. QED
  BY <1>2, <1>3, <1>4, <1>5, <1>6 DEF IInv

\* The thread restores the picture on the surface.
LEMMA RestoreStep ==
  ASSUME IInv, RestoreFrame
  PROVE  IInv'
<1>1. /\ TypeOK /\ PcOK /\ pc["fb"] = "restore" /\ Goto("fb", "ready")
      /\ latest' = IF fb_current_command = "FB_LOCK" THEN Blit("the_buffer") ELSE latest
      /\ UNCHANGED <<is_frame_locked, lock_next, waiting_to_be_locked, fb_current_command,
                     fb_signal, fb_reply, MacFrameBaseHost, behind, fb_csection, draw_csection,
                     is_own_desktop, todo, cpu_state>>
  BY DEF IInv, RestoreFrame, fbVars, callVars
<1>2. /\ PcOK' /\ pc'["main"] = pc["main"] /\ pc'["cpu"] = pc["cpu"]
      /\ pc'["fb"] = "ready"
  BY <1>1, GotoValues DEF Labels
<1>3. TypeOK'
  BY <1>1, <1>2 DEF TypeOK, Blit
<1>4. HandShake' /\ WindowThread'
  BY <1>1, <1>2 DEF IInv, HandShake, InFlight, WindowThread, Switched, Callers
<1>5. DrawsOnLockedSurface' /\ Surface'
  BY <1>1, <1>2 DEF IInv, TypeOK, DrawsOnLockedSurface, Surface
<1>6. Picture'
  BY <1>1, <1>2 DEF IInv, TypeOK, Surface, Picture, Restoring, Blit, Memories
<1>7. QED
  BY <1>2, <1>3, <1>4, <1>5, <1>6 DEF IInv

\* The thread waits for the next command.
LEMMA ReadyStep ==
  ASSUME IInv, Ready
  PROVE  IInv'
<1>1. /\ TypeOK /\ PcOK /\ pc["fb"] = "ready" /\ Goto("fb", "wait")
      /\ lock_next' = (lock_next \/ ~ waiting_to_be_locked)
      /\ UNCHANGED <<is_frame_locked, waiting_to_be_locked, fb_current_command, fb_signal,
                     fb_reply, MacFrameBaseHost, latest, behind, fb_csection, draw_csection,
                     is_own_desktop, todo, cpu_state>>
  BY DEF IInv, Ready, pictureVars, callVars
<1>2. /\ PcOK' /\ pc'["main"] = pc["main"] /\ pc'["cpu"] = pc["cpu"]
      /\ pc'["fb"] = "wait"
  BY <1>1, GotoValues DEF Labels
<1>3. TypeOK'
  BY <1>1, <1>2 DEF TypeOK
<1>4. HandShake' /\ WindowThread'
  BY <1>1, <1>2 DEF IInv, HandShake, InFlight, WindowThread, Switched, Callers
<1>5. DrawsOnLockedSurface' /\ Surface'
  BY <1>1, <1>2 DEF IInv, TypeOK, DrawsOnLockedSurface, Surface
<1>6. Picture'
  BY <1>1, <1>2 DEF IInv, TypeOK, Surface, Picture, Restoring
<1>7. QED
  BY <1>2, <1>3, <1>4, <1>5, <1>6 DEF IInv

\* The thread takes a command: the Mac leaves the surface before it is unlocked.
LEMMA TakeStep ==
  ASSUME IInv, TakeCommand
  PROVE  IInv'
<1>1. /\ TypeOK /\ PcOK /\ pc["fb"] = "wait" /\ fb_signal = 1 /\ fb_signal' = 0
      /\ UNCHANGED <<is_frame_locked, lock_next, waiting_to_be_locked, fb_current_command,
                     fb_reply, fb_csection, draw_csection, is_own_desktop, todo, cpu_state,
                     behind>>
      /\ IF is_frame_locked
         THEN /\ latest' = IF fb_current_command = "FB_UNLOCK" THEN Blit("surface") ELSE latest
              /\ MacFrameBaseHost' = "the_buffer" /\ Goto("fb", "unlock")
         ELSE latest' = latest /\ MacFrameBaseHost' = MacFrameBaseHost /\ Goto("fb", "handle")
  BY DEF IInv, TakeCommand, fbVars, pictureVars, callVars
<1>2. /\ PcOK' /\ pc'["main"] = pc["main"] /\ pc'["cpu"] = pc["cpu"]
      /\ pc'["fb"] = IF is_frame_locked THEN "unlock" ELSE "handle"
  BY <1>1, GotoValues DEF Labels
<1>3. latest' \subseteq Memories /\ MacFrameBaseHost' \in Memories
  BY <1>1 DEF TypeOK, Memories, Blit
<1>4. TypeOK'
  BY <1>1, <1>2, <1>3 DEF TypeOK
<1>5. HandShake' /\ WindowThread'
  BY <1>1, <1>2 DEF IInv, HandShake, InFlight, WindowThread, Switched, Callers
<1>6. DrawsOnLockedSurface' /\ Surface'
  <2>1. ~ is_frame_locked => MacFrameBaseHost' = "the_buffer"
    BY <1>1 DEF IInv, TypeOK, Memories, DrawsOnLockedSurface
  <2>2. QED
    BY <2>1, <1>1, <1>2 DEF IInv, DrawsOnLockedSurface, Surface
<1>7. Picture'
  BY <1>1, <1>2 DEF IInv, Surface, Picture, Restoring, Blit, Memories, TypeOK
<1>8. QED
  BY <1>2, <1>4, <1>5, <1>6, <1>7 DEF IInv

\* Unlock().
LEMMA UnlockStep ==
  ASSUME IInv, UnlockSurface
  PROVE  IInv'
<1>1. /\ TypeOK /\ PcOK /\ pc["fb"] = "unlock" /\ Goto("fb", "handle")
      /\ \/ is_frame_locked' = FALSE /\ behind' = behind
         \/ is_frame_locked' = is_frame_locked /\ behind' = behind \union {"refused"}
      /\ UNCHANGED <<lock_next, waiting_to_be_locked, fb_current_command, fb_signal, fb_reply,
                     MacFrameBaseHost, latest, fb_csection, draw_csection,
                     is_own_desktop, todo, cpu_state>>
  BY DEF IInv, UnlockSurface, callVars
<1>2. /\ PcOK' /\ pc'["main"] = pc["main"] /\ pc'["cpu"] = pc["cpu"]
      /\ pc'["fb"] = "handle"
  BY <1>1, GotoValues DEF Labels
<1>3. TypeOK'
  BY <1>1, <1>2 DEF TypeOK
<1>4. HandShake' /\ WindowThread'
  BY <1>1, <1>2 DEF IInv, HandShake, InFlight, WindowThread, Switched, Callers
<1>5. DrawsOnLockedSurface' /\ Surface'
  BY <1>1, <1>2 DEF IInv, TypeOK, DrawsOnLockedSurface, Surface
<1>6. Picture'
  BY <1>1, <1>2 DEF IInv, TypeOK, Surface, Picture, Restoring
<1>7. QED
  BY <1>2, <1>3, <1>4, <1>5, <1>6 DEF IInv

\* The thread handles the command and replies.
LEMMA HandleStep ==
  ASSUME IInv, HandleCommand
  PROVE  IInv'
<1>1. /\ TypeOK /\ PcOK /\ pc["fb"] = "handle" /\ InFlight
      /\ fb_current_command' = IF Dropped THEN "FB_NONE" ELSE fb_current_command
      /\ waiting_to_be_locked' = Away /\ fb_reply' = 1
      /\ Goto("fb", IF fb_current_command = "FB_QUIT" THEN "ended" ELSE "lock")
      /\ UNCHANGED <<is_frame_locked, fb_signal, MacFrameBaseHost, latest, behind, fb_csection,
                     draw_csection, is_own_desktop, todo, cpu_state>>
  BY DEF IInv, HandleCommand, InFlight, pictureVars, callVars
<1>0. /\ Dropped \/ fb_current_command = "FB_UNLOCK" => lock_next' = FALSE
      /\ fb_current_command = "FB_LOCK" => lock_next' = TRUE
      /\ ~ Dropped /\ fb_current_command \notin {"FB_UNLOCK", "FB_LOCK"} =>
           lock_next' = lock_next
  BY DEF HandleCommand, Dropped
<1>2. /\ PcOK' /\ pc'["main"] = pc["main"] /\ pc'["cpu"] = pc["cpu"]
      /\ pc'["fb"] = IF fb_current_command = "FB_QUIT" THEN "ended" ELSE "lock"
  BY <1>1, GotoValues DEF Labels
<1>3. waiting_to_be_locked' \in BOOLEAN /\ lock_next' \in BOOLEAN
  BY <1>1, <1>0 DEF TypeOK, Away, Dropped
<1>4. TypeOK'
  <2>1. fb_current_command' \in Commands
    BY <1>1 DEF TypeOK, Commands
  <2>2. QED
    BY <2>1, <1>1, <1>2, <1>3 DEF TypeOK
<1>5. fb_signal = 0 /\ fb_signal' = 0 /\ fb_reply = 0 /\ fb_csection \in {"main", "cpu"}
  BY <1>1 DEF IInv, HandShake, InFlight, TypeOK, Callers
<1>6. HandShake'
  BY <1>1, <1>2, <1>5 DEF IInv, HandShake, InFlight, Callers
<1>7. ASSUME fb_csection = "main" PROVE WindowThread'
  <2>1. /\ pc["main"] = "reply" /\ fb_current_command = todo[1]
        /\ cpu_state = "running" => waiting_to_be_locked = ~ is_own_desktop
        /\ cpu_state = "suspended" => waiting_to_be_locked = ~ is_own_desktop
    BY <1>1, <1>5, <1>7 DEF IInv, HandShake, WindowThread, Switched, Callers
  <2>2. /\ cpu_state = "running" => waiting_to_be_locked' = waiting_to_be_locked
        /\ cpu_state = "suspended" =>
             waiting_to_be_locked' = IF Len(todo) = 1 THEN is_own_desktop ELSE ~ is_own_desktop
    <3>1. waiting_to_be_locked \in BOOLEAN /\ is_own_desktop \in BOOLEAN
      BY <1>1 DEF TypeOK
    <3>2. cpu_state = "running" => waiting_to_be_locked' = waiting_to_be_locked
      <4>1. cpu_state = "running" => fb_current_command = "FB_UPDATEPALETTE"
        BY <2>1, Given
      <4>2. QED
        BY <4>1, <3>1, <1>1 DEF Away
    <3>3. cpu_state = "suspended" =>
            \/ fb_current_command = "FB_UNLOCK" /\ is_own_desktop /\ Len(todo) = 1
            \/ fb_current_command = "FB_LOCK" /\ ~ is_own_desktop /\ Len(todo) = 1
            \/ fb_current_command = "FB_SETPALETTE" /\ ~ is_own_desktop /\ Len(todo) = 2
      BY <2>1, Given
    <3>4. waiting_to_be_locked' <=>
            \/ fb_current_command = "FB_UNLOCK"
            \/ waiting_to_be_locked /\ fb_current_command # "FB_LOCK"
      BY <1>1 DEF Away
    <3>5. waiting_to_be_locked' \in BOOLEAN
      BY <1>3
    <3>6. QED
      BY <3>1, <3>2, <3>3, <3>4, <3>5, <2>1
  <2>3. Switched' = (Len(todo) = 1)
    BY <2>1, <1>1, <1>2 DEF Switched
  <2>4. QED
    BY <2>1, <2>2, <2>3, <1>1, <1>2 DEF IInv, WindowThread
<1>8. ASSUME fb_csection = "cpu" PROVE WindowThread'
  <2>1. fb_current_command = "FB_SETPALETTE" /\ pc["main"] # "reply"
    BY <1>1, <1>8 DEF IInv, HandShake, Callers
  <2>2. waiting_to_be_locked' = waiting_to_be_locked
    BY <2>1, <1>1 DEF Away, TypeOK
  <2>3. QED
    BY <2>1, <2>2, <1>1, <1>2 DEF IInv, WindowThread, Switched
<1>9. DrawsOnLockedSurface' /\ Surface'
  BY <1>1, <1>0, <1>2 DEF IInv, TypeOK, DrawsOnLockedSurface, Surface, Dropped, Away
<1>10. Picture'
  <2>1. fb_current_command = "FB_LOCK" => waiting_to_be_locked
    <3>1. SUFFICES ASSUME fb_current_command = "FB_LOCK" PROVE waiting_to_be_locked
      OBVIOUS
    <3>2. pc["main"] = "reply" /\ todo[1] = "FB_LOCK"
      BY <3>1, <1>1, <1>5 DEF IInv, HandShake, Callers
    <3>3. cpu_state = "suspended" /\ ~ is_own_desktop
      BY <3>2, Given
    <3>4. ~ Switched
      BY <3>2, <1>5 DEF Switched
    <3>5. waiting_to_be_locked = ~ is_own_desktop
      BY <3>3, <3>4 DEF IInv, WindowThread
    <3>6. QED
      BY <3>3, <3>5
  <2>2. QED
    BY <2>1, <1>1, <1>2 DEF IInv, TypeOK, Picture, Restoring, Dropped, Away
<1>11. WindowThread'
  BY <1>5, <1>7, <1>8
<1>12. QED
  BY <1>2, <1>4, <1>6, <1>9, <1>10, <1>11 DEF IInv

\* A command is given.
LEMMA GiveStep ==
  ASSUME IInv, NEW t \in Callers, GiveCommand(t)
  PROVE  IInv'
<1>0. fb_csection = "none"
  BY DEF IInv, HandShake, GiveCommand, Enters
<1>1. /\ TypeOK /\ PcOK /\ pc[t] = "enter" /\ fb_csection = "none" /\ Goto(t, "reply")
      /\ t = "cpu" => cpu_state = "running"
      /\ fb_csection' = t /\ fb_signal' = 1
      /\ fb_current_command' = IF t = "cpu" THEN "FB_SETPALETTE" ELSE Head(todo)
      /\ behind' = IF Restoring THEN behind \union {"overtaken"} ELSE behind
      /\ UNCHANGED <<is_frame_locked, lock_next, waiting_to_be_locked, fb_reply,
                     MacFrameBaseHost, latest, draw_csection, is_own_desktop, todo, cpu_state>>
  BY <1>0 DEF IInv, GiveCommand, Runs, fbVars
<1>2. /\ PcOK' /\ pc'["main"] = IF t = "main" THEN "reply" ELSE pc["main"]
      /\ pc'["cpu"] = IF t = "cpu" THEN "reply" ELSE pc["cpu"]
      /\ pc'["fb"] = pc["fb"]
  BY <1>1, GotoValues DEF Labels, Callers
<1>3. t = "main" => todo \in Seq(Commands) /\ todo # Nothing /\ pc["main"] = "enter"
  BY <1>1, Given
<1>4. /\ fb_current_command' \in Commands
      /\ t = "main" => fb_current_command' = todo[1]
      /\ t = "cpu" => fb_current_command' = "FB_SETPALETTE"
  BY <1>1, <1>3 DEF Callers, Commands, Nothing
<1>5. TypeOK'
  BY <1>1, <1>2, <1>4 DEF TypeOK, Callers
<1>6. ~ InFlight /\ fb_reply = 0
  BY <1>1 DEF IInv, HandShake
<1>7. HandShake'
  BY <1>1, <1>2, <1>3, <1>4, <1>6 DEF IInv, HandShake, InFlight, Callers
<1>8. WindowThread'
  BY <1>1, <1>2, <1>3, <1>6 DEF IInv, WindowThread, Switched, Callers
<1>9. DrawsOnLockedSurface' /\ Surface'
  BY <1>1, <1>2 DEF IInv, DrawsOnLockedSurface, Surface
<1>10. Picture'
  <2>1. SUFFICES ASSUME behind' = {} PROVE Picture'
    BY DEF Picture
  <2>2. ~ Restoring /\ behind = {}
    BY <2>1, <1>1
  <2>3. pc["fb"] \notin {"unlock", "handle"}
    BY <1>6 DEF InFlight
  <2>4. Restoring' => waiting_to_be_locked
    <3>1. SUFFICES ASSUME fb_current_command' = "FB_LOCK" PROVE waiting_to_be_locked
      BY DEF Restoring
    <3>2. t = "main" /\ todo[1] = "FB_LOCK" /\ pc["main"] = "enter"
      BY <3>1, <1>1, <1>4 DEF Callers
    <3>3. cpu_state = "suspended" /\ ~ is_own_desktop
      BY <3>2, Given
    <3>4. waiting_to_be_locked = ~ is_own_desktop
      BY <3>2, <3>3 DEF IInv, WindowThread, Switched
    <3>5. QED
      BY <3>3, <3>4
  <2>5. QED
    BY <2>2, <2>3, <2>4, <1>1, <1>2 DEF IInv, Picture
<1>11. QED
  BY <1>2, <1>5, <1>7, <1>8, <1>9, <1>10 DEF IInv

\* The reply is there.
LEMMA ReplyStep ==
  ASSUME IInv, NEW t \in Callers, GetReply(t)
  PROVE  IInv'
<1> DEFINE l == IF t = "cpu" THEN "run"
                ELSE IF todo' # Nothing THEN "enter"
                ELSE IF cpu_state = "suspended" THEN "swapped"
                ELSE IF cpu_state = "terminated" THEN "stop"
                ELSE "run"
<1>1. /\ TypeOK /\ PcOK /\ pc[t] = "reply" /\ fb_reply = 1 /\ fb_reply' = 0
      /\ t = "cpu" => cpu_state = "running"
      /\ fb_csection' = "none" /\ Goto(t, l)
      /\ draw_csection' = IF draw_csection = t THEN "none" ELSE draw_csection
      /\ todo' = IF t = "main" THEN Tail(todo) ELSE todo
      /\ UNCHANGED <<is_frame_locked, lock_next, waiting_to_be_locked, fb_current_command,
                     fb_signal, MacFrameBaseHost, latest, behind, is_own_desktop, cpu_state>>
  BY DEF IInv, GetReply, Runs, fbVars, pictureVars, Nothing
<1>2. l \in Labels
  BY DEF Labels
<1> HIDE DEF l
<1>3. /\ PcOK' /\ pc'["main"] = IF t = "main" THEN l ELSE pc["main"]
      /\ pc'["cpu"] = IF t = "cpu" THEN l ELSE pc["cpu"]
      /\ pc'["fb"] = pc["fb"]
  BY <1>1, <1>2, GotoValues DEF Callers
<1>4. fb_csection = t /\ ~ InFlight
  BY <1>1 DEF IInv, HandShake
<1>5. ASSUME t = "cpu" PROVE TypeOK' /\ HandShake' /\ WindowThread'
  <2>1. /\ todo' = todo /\ pc'["main"] = pc["main"] /\ pc'["cpu"] = "run"
        /\ cpu_state = "running" /\ pc["main"] # "reply"
    BY <1>1, <1>3, <1>4, <1>5 DEF IInv, HandShake, Callers, l
  <2>2. TypeOK'
    BY <2>1, <1>1, <1>3 DEF TypeOK, Callers
  <2>3. HandShake' /\ WindowThread'
    BY <2>1, <1>1, <1>3, <1>4 DEF IInv, HandShake, InFlight, WindowThread, Switched, Callers
  <2>4. QED
    BY <2>2, <2>3
<1>6. ASSUME t = "main" PROVE TypeOK' /\ HandShake' /\ WindowThread'
  <2>1. /\ pc["main"] = "reply" /\ pc'["main"] = l /\ pc'["cpu"] = pc["cpu"]
        /\ todo' = Tail(todo) /\ pc["cpu"] # "reply"
    BY <1>1, <1>3, <1>4, <1>6 DEF IInv, HandShake, Callers
  <2>2. /\ cpu_state \in {"running", "suspended", "terminated"} /\ is_own_desktop \in BOOLEAN
        /\ waiting_to_be_locked \in BOOLEAN
    BY <1>1 DEF TypeOK
  <2>3. \/ todo' = Nothing /\ Len(todo) = 1
        \/ todo' = Only("FB_LOCK") /\ Len(todo) = 2
    BY <2>1, Given
  <2>4. Only("FB_LOCK") # Nothing /\ Len(Only("FB_LOCK")) = 1
    BY Queues
  <2>5. /\ todo' = Nothing <=> Len(todo) = 1
        /\ todo' # Nothing => cpu_state = "suspended" /\ ~ is_own_desktop
    <3>1. Len(todo) # 1 => cpu_state = "suspended" /\ ~ is_own_desktop
      BY <2>1, Given
    <3>2. QED
      BY <3>1, <2>3, <2>4
  <2>6. TypeOK'
    <3>1. todo' \in Seq(Commands) /\ Len(todo') <= 2
      <4>1. todo' \in Seq(Commands) /\ Len(todo') \in {0, 1}
        BY <2>3, Queues, Zenon
      <4>2. QED
        BY <4>1
    <3>2. l \in {"run", "enter", "swapped", "stop"}
      BY <1>6 DEF l
    <3>3. QED
      BY <3>1, <3>2, <2>1, <1>1, <1>3 DEF TypeOK, Callers
  <2>7. HandShake'
    <3>1. l # "reply"
      BY DEF l
    <3>2. QED
      BY <3>1, <2>1, <1>1, <1>3, <1>4 DEF IInv, HandShake, InFlight, Callers
  <2>8. WindowThread'
    <3>1. /\ todo' # Nothing => l = "enter" /\ todo' = Only("FB_LOCK")
          /\ todo' = Nothing => /\ cpu_state = "suspended" => l = "swapped"
                                /\ cpu_state = "terminated" => l = "stop"
                                /\ cpu_state = "running" => l = "run"
      BY <2>3, <1>6 DEF l
    <3>2. Switched' <=> todo' = Nothing /\ cpu_state = "suspended"
      <4>1. Switched' <=> l = "swapped"
        <5>1. l # "reply"
          BY <3>1, <2>2
        <5>2. QED
          BY <5>1, <2>1 DEF Switched
      <4>2. QED
        BY <4>1, <3>1, <2>2
    <3>3. Switched <=> todo' = Nothing
      BY <2>1, <2>5, <1>1 DEF Switched
    <3>4. /\ cpu_state = "running" => waiting_to_be_locked = ~ is_own_desktop
          /\ cpu_state = "suspended" =>
               waiting_to_be_locked = IF Switched THEN is_own_desktop ELSE ~ is_own_desktop
      BY DEF IInv, WindowThread
    <3>5. QED
      BY <3>1, <3>2, <3>3, <3>4, <2>1, <2>2, <2>5, <1>1 DEF WindowThread
  <2>9. QED
    BY <2>6, <2>7, <2>8
<1>7. TypeOK' /\ HandShake' /\ WindowThread'
  BY <1>5, <1>6 DEF Callers
<1>8. DrawsOnLockedSurface' /\ Surface' /\ Picture'
  BY <1>1, <1>3 DEF IInv, DrawsOnLockedSurface, Surface, Picture, Restoring
<1>9. QED
  BY <1>3, <1>7, <1>8 DEF IInv

\* The caller takes draw_csection.
LEMMA GrabStep ==
  ASSUME IInv, NEW t \in Callers, GrabDrawMutex(t)
  PROVE  IInv'
<1>1. /\ TypeOK /\ PcOK /\ pc[t] = "draw" /\ Goto(t, "enter") /\ draw_csection' = t
      /\ UNCHANGED <<is_frame_locked, lock_next, waiting_to_be_locked, fb_current_command,
                     fb_signal, fb_reply, MacFrameBaseHost, latest, behind, fb_csection,
                     is_own_desktop, todo, cpu_state>>
  BY DEF IInv, GrabDrawMutex, fbVars, pictureVars
<1>2. /\ PcOK' /\ pc'["main"] = IF t = "main" THEN "enter" ELSE pc["main"]
      /\ pc'["cpu"] = IF t = "cpu" THEN "enter" ELSE pc["cpu"]
      /\ pc'["fb"] = pc["fb"]
  BY <1>1, GotoValues DEF Labels, Callers
<1>3. TypeOK'
  BY <1>1, <1>2 DEF TypeOK, Callers
<1>4. HandShake' /\ WindowThread'
  BY <1>1, <1>2 DEF IInv, HandShake, InFlight, WindowThread, Switched, Callers
<1>5. DrawsOnLockedSurface' /\ Surface'
  BY <1>1, <1>2 DEF IInv, TypeOK, DrawsOnLockedSurface, Surface
<1>6. Picture'
  BY <1>1, <1>2 DEF IInv, TypeOK, Surface, Picture, Restoring
<1>7. QED
  BY <1>2, <1>3, <1>4, <1>5, <1>6 DEF IInv

\* The window thread has waited for draw_csection.
LEMMA StopStep ==
  ASSUME IInv, stop_video_thread
  PROVE  IInv'
<1>1. /\ TypeOK /\ PcOK /\ pc["main"] = "stop" /\ Goto("main", "done")
      /\ UNCHANGED <<is_frame_locked, lock_next, waiting_to_be_locked, fb_current_command,
                     fb_signal, fb_reply, MacFrameBaseHost, latest, behind, fb_csection,
                     draw_csection, is_own_desktop, todo, cpu_state>>
  BY DEF IInv, stop_video_thread, mainUnchanged, fbVars, pictureVars
<1>2. /\ PcOK' /\ pc'["main"] = "done" /\ pc'["cpu"] = pc["cpu"] /\ pc'["fb"] = pc["fb"]
  BY <1>1, GotoValues DEF Labels, Callers
<1>3. TypeOK'
  BY <1>1, <1>2 DEF TypeOK
<1>4. HandShake' /\ WindowThread'
  BY <1>1, <1>2 DEF IInv, HandShake, InFlight, WindowThread, Switched, Callers
<1>5. DrawsOnLockedSurface' /\ Surface' /\ Picture'
  BY <1>1, <1>2 DEF IInv, DrawsOnLockedSurface, Surface, Picture, Restoring
<1>6. QED
  BY <1>2, <1>3, <1>4, <1>5 DEF IInv

\* The window thread begins something, or has switched the desktop.
LEMMA MainStep ==
  ASSUME IInv, Main \/ Swapped
  PROVE  IInv'
<1>1. /\ TypeOK /\ PcOK
      /\ UNCHANGED <<is_frame_locked, lock_next, waiting_to_be_locked, fb_current_command,
                     fb_signal, fb_reply, MacFrameBaseHost, latest, behind, fb_csection,
                     draw_csection>>
  BY DEF IInv, Main, Swapped, swap_desktop, update_palette, QuitEmulator, mainUnchanged, fbVars,
         pictureVars
<1>2. PICK l \in {"run", "draw", "enter"} : Goto("main", l)
  BY DEF Main, Swapped, swap_desktop, update_palette, QuitEmulator
<1>3. /\ PcOK' /\ pc'["main"] = l /\ pc'["cpu"] = pc["cpu"] /\ pc'["fb"] = pc["fb"]
  BY <1>1, <1>2, GotoValues DEF Labels, Callers
<1>4. /\ pc["main"] \in {"run", "swapped"}
      /\ is_own_desktop \in BOOLEAN /\ is_own_desktop' \in BOOLEAN
      /\ cpu_state' \in {"running", "suspended", "terminated"}
  BY <1>1 DEF TypeOK, Main, Swapped, swap_desktop, update_palette, QuitEmulator
<1>5. todo' \in Seq(Commands) /\ Len(todo') <= 2
  <2>1. todo' \in {todo, Only("FB_UNLOCK"), BackToMac, Only("FB_UPDATEPALETTE"),
                   Only("FB_QUIT")}
    BY DEF Main, Swapped, swap_desktop, update_palette, QuitEmulator, Only, BackToMac
  <2>2. todo \in Seq(Commands) /\ Len(todo) <= 2
    BY <1>1 DEF TypeOK
  <2>3. QED
    BY <2>1, <2>2, Queues
<1>6. TypeOK'
  BY <1>1, <1>3, <1>4, <1>5 DEF TypeOK
<1>7. fb_csection # "main"
  BY <1>4 DEF IInv, HandShake, Callers
<1>8. HandShake'
  BY <1>1, <1>3, <1>4, <1>7 DEF IInv, HandShake, InFlight, Callers
<1>9. WindowThread'
  <2>1. CASE Swapped
    <3>1. /\ pc["main"] = "swapped" /\ pc'["main"] = "run" /\ cpu_state' = "running"
          /\ is_own_desktop' = ~ is_own_desktop /\ todo' = todo
      BY <2>1, <1>1, <1>3, GotoValues DEF Swapped, Labels, Callers
    <3>2. cpu_state = "suspended" /\ todo = Nothing /\ waiting_to_be_locked = is_own_desktop
      BY <3>1 DEF IInv, WindowThread, Switched
    <3>3. QED
      BY <3>1, <3>2, <1>1, <1>4 DEF WindowThread
  <2>2. CASE Main
    <3>1. /\ pc["main"] = "run" /\ is_own_desktop' = is_own_desktop
          /\ \/ /\ cpu_state' = "suspended" /\ pc'["main"] = "enter"
                /\ todo' = IF is_own_desktop THEN Only("FB_UNLOCK") ELSE BackToMac
             \/ cpu_state' = cpu_state /\ pc'["main"] = "draw" /\ todo' = Only("FB_UPDATEPALETTE")
             \/ cpu_state' = "terminated" /\ pc'["main"] = "enter" /\ todo' = Only("FB_QUIT")
      BY <2>2, <1>1, GotoValues DEF Main, swap_desktop, update_palette, QuitEmulator, Labels, Callers, Only,
         BackToMac
    <3>2. cpu_state = "running" /\ waiting_to_be_locked = ~ is_own_desktop
      BY <3>1 DEF IInv, WindowThread
    <3>3. QED
      BY <3>1, <3>2, <1>1, <1>4 DEF WindowThread, Switched
  <2>3. QED
    BY <2>1, <2>2
<1>10. DrawsOnLockedSurface' /\ Surface' /\ Picture'
  BY <1>1, <1>3 DEF IInv, DrawsOnLockedSurface, Surface, Picture, Restoring
<1>11. QED
  BY <1>3, <1>6, <1>8, <1>9, <1>10 DEF IInv

\* The Mac draws or sets a palette.
LEMMA CpuStep ==
  ASSUME IInv, Draw \/ video_set_palette
  PROVE  IInv'
<1>1. /\ TypeOK /\ PcOK /\ pc["cpu"] = "run"
      /\ UNCHANGED <<is_frame_locked, lock_next, waiting_to_be_locked, fb_current_command,
                     fb_signal, fb_reply, MacFrameBaseHost, fb_csection, draw_csection,
                     is_own_desktop, todo, cpu_state>>
  BY DEF IInv, Draw, video_set_palette, cpuUnchanged, fbVars, callVars
<1>2. /\ PcOK' /\ pc'["main"] = pc["main"] /\ pc'["cpu"] \in {"run", "draw"}
      /\ pc'["fb"] = pc["fb"]
  BY <1>1, GotoValues DEF Draw, video_set_palette, PcOK, Labels, Callers
<1>3. \/ latest' = latest /\ behind' = behind
      \/ /\ cpu_state = "running" /\ latest' = {MacFrameBaseHost}
         /\ behind' = IF MacFrameBaseHost = "surface"
                      THEN IF Restoring THEN {"overwritten"} ELSE {}
                      ELSE IF is_own_desktop /\ ~ Restoring THEN behind \union {"unlocked"}
                           ELSE behind
  BY DEF Draw, video_set_palette
<1>4. TypeOK'
  BY <1>1, <1>2, <1>3 DEF TypeOK, Memories
<1>5. HandShake' /\ WindowThread'
  BY <1>1, <1>2 DEF IInv, HandShake, InFlight, WindowThread, Switched, Callers
<1>6. DrawsOnLockedSurface' /\ Surface'
  <2>1. MacFrameBaseHost = "the_buffer" /\ "refused" \in behind => "refused" \in behind'
    BY <1>3
  <2>2. QED
    BY <2>1, <1>1, <1>2 DEF IInv, TypeOK, DrawsOnLockedSurface, Surface
<1>7. Picture'
  BY <1>1, <1>2, <1>3
     DEF IInv, TypeOK, Memories, DrawsOnLockedSurface, Surface, WindowThread, Picture, Restoring
<1>8. QED
  BY <1>2, <1>4, <1>5, <1>6, <1>7 DEF IInv

-----------------------------------------------------------------------------
LEMMA InitInv == Init => IInv
<1> SUFFICES ASSUME Init PROVE IInv
  OBVIOUS
<1>1. /\ PcOK /\ pc["main"] = "run" /\ pc["cpu"] = "run" /\ pc["fb"] = "wait"
  BY DEF Init, PcOK, Callers, Labels
<1>2. todo \in Seq(Commands) /\ Len(todo) = 0
  BY DEF Init
<1>3. /\ is_frame_locked = TRUE /\ lock_next = TRUE /\ waiting_to_be_locked = FALSE
      /\ fb_current_command = "FB_NONE" /\ fb_signal = 0 /\ fb_reply = 0
      /\ fb_csection = "none" /\ draw_csection = "none"
      /\ MacFrameBaseHost = "surface" /\ latest = {"surface"} /\ behind = {}
      /\ is_own_desktop = TRUE /\ todo = Nothing /\ cpu_state = "running"
  BY DEF Init, Nothing
<1>4. TypeOK
  <2>1. {is_frame_locked, lock_next, waiting_to_be_locked, is_own_desktop} \subseteq BOOLEAN
    BY <1>3
  <2>2. Len(todo) <= 2
    BY <1>2
  <2>3. fb_current_command \in Commands /\ MacFrameBaseHost \in Memories /\ latest \subseteq Memories
    BY <1>3 DEF Commands, Memories
  <2>4. QED
    BY <2>1, <2>2, <2>3, <1>1, <1>2, <1>3 DEF TypeOK
<1>5. HandShake
  BY <1>1, <1>3 DEF HandShake, InFlight, Callers
<1>0. WindowThread
  BY <1>1, <1>3 DEF WindowThread
<1>6. DrawsOnLockedSurface /\ Surface /\ Picture
  BY <1>1, <1>3 DEF DrawsOnLockedSurface, Surface, Picture, Restoring
<1>7. QED
  BY <1>1, <1>4, <1>5, <1>0, <1>6 DEF IInv

LEMMA NextInv == IInv /\ [Next]_vars => IInv'
<1> SUFFICES ASSUME IInv, [Next]_vars PROVE IInv'
  OBVIOUS
<1>1. ASSUME FbThread PROVE IInv'
  BY <1>1, LockStep, RestoreStep, ReadyStep, TakeStep, UnlockStep, HandleStep DEF FbThread
<1>2. ASSUME Main \/ Swapped PROVE IInv'
  BY <1>2, MainStep
<1>3. ASSUME Draw \/ video_set_palette PROVE IInv'
  BY <1>3, CpuStep
<1>4. ASSUME NEW t \in Callers, Call(t) PROVE IInv'
  BY <1>4, GiveStep, ReplyStep, GrabStep DEF Call
<1>6. ASSUME stop_video_thread PROVE IInv'
  BY <1>6, StopStep
<1>5. ASSUME UNCHANGED vars PROVE IInv'
  BY <1>5 DEF vars, fbVars, pictureVars, callVars, IInv, TypeOK, PcOK, HandShake, InFlight,
              WindowThread, Switched, DrawsOnLockedSurface, Surface, Picture, Restoring
<1>7. QED
  BY <1>1, <1>2, <1>3, <1>4, <1>5, <1>6 DEF Next

\* The inductive invariant holds.
THEOREM Invariance == Spec => []IInv
  BY InitInv, NextInv, PTL DEF Spec

\* Every variable keeps its type.
THEOREM TypeCorrect == Spec => []TypeOK
<1>1. IInv => TypeOK
  BY DEF IInv
<1>2. QED
  BY <1>1, Invariance, PTL

\* While another desktop is shown and the window thread has switched, the Mac draws
\* in the_buffer, whatever palettes it sets, and the surface is unlocked unless
\* the host refused.
THEOREM AwayFromScreenHolds == Spec => []AwayFromScreen
<1>1. IInv => AwayFromScreen
  <2>1. SUFFICES ASSUME IInv, ~ is_own_desktop, pc["main"] = "run"
                 PROVE  MacFrameBaseHost = "the_buffer" /\ (is_frame_locked => "refused" \in behind)
    BY DEF AwayFromScreen
  <2>2. waiting_to_be_locked
    BY <2>1 DEF IInv, WindowThread
  <2>3. QED
    BY <2>1, <2>2 DEF IInv, Surface
<1>2. QED
  BY <1>1, Invariance, PTL

\* Back at the Mac's desktop, the surface shows what the Mac drew last, but for
\* the four ways of losing it that behind records.
THEOREM ScreenIsCurrentHolds == Spec => []ScreenIsCurrent
<1>1. IInv => ScreenIsCurrent
  <2>1. SUFFICES ASSUME IInv, is_own_desktop, is_frame_locked, pc["fb"] = "wait",
                        pc["main"] = "run", behind = {}
                 PROVE  "surface" \in latest
    BY DEF ScreenIsCurrent
  <2>2. ~ waiting_to_be_locked /\ ~ Restoring
    BY <2>1 DEF IInv, Surface, Restoring
  <2>3. QED
    BY <2>1, <2>2 DEF IInv, Picture
<1>2. QED
  BY <1>1, Invariance, PTL

HIDE FrameBufferAssumption

-----------------------------------------------------------------------------
(* Serial.                                                                 *)

USE SerialAssumption

\* The port is set up.
Live == is_open \/ mac = "alloc"

\* Where the MacOS thread is tells the state of the port.
Port ==
  /\ mac = "open" => ~ is_open /\ ~ quitting /\ session < MaxOpens /\ \A s \in Sides : ~ pending[s]
  /\ mac = "alloc" => ~ is_open
  /\ mac \in {"kill", "free"} => is_open
  /\ io_killed <=> mac = "kill"
  /\ Live => session \in Sessions /\ (closed <=> mac = "free") /\ (quitting <=> mac = "free")
  /\ ~ is_open => \A s \in Sides : outstanding[s] = 0

\* Later opens have left no trace yet.
Later ==
  \A s \in Sides, n \in Sessions : n > session => threads[s][n].pc = "none" /\ signalled[s][n] = 0

Working == {"io", "check", "abort", "complete"}

\* The thread of the last open waits on the semaphore of the last open.
Waits ==
  Live => \A s \in Sides : threads[s][session].pc = "wait" => threads[s][session].on = session

\* A request is in one place: the semaphore, the thread, or done and waiting for
\* the interrupt.
Placed(s) ==
  LET t == threads[s][session]
  IN  /\ ~ LeftOver(s)
      /\ pb[s] # 0 /\ outstanding[s] = pb[s]
      /\ done[s] => transferred[s] = pb[s]
      /\ t.pc \in Working => ~ done[s] /\ t.req = pb[s]
      /\ t.pc \in Working \ {"io"} => transferred[s] = pb[s]
      /\ ~ quitting /\ (signalled[s][session] = 1 \/ t.pc = "woken") => ~ done[s]
      /\ ~ quitting /\ signalled[s][session] = 1 => t.pc \notin Working \union {"woken"}

Request(s) == pending[s] /\ ~ crossed[s] => Placed(s)

SerialInv ==
  /\ SerialTypeOK /\ Port /\ Later /\ Waits
  /\ is_serial /\ Live => \A s \in Sides : Request(s)
-----------------------------------------------------------------------------
(* One thread moves.                                                       *)

ThreadRecords == [pc : ThreadPCs, on : 0 .. MaxOpens, req : 0 .. MaxPrimes]

\* Thread n of direction s is t now, and the others are as they were.
Moved(s, n, t) ==
  /\ threads' \in [Sides -> [Sessions -> ThreadRecords]]
  /\ threads'[s][n] = t
  /\ \A r \in Sides, m \in Sessions : r # s \/ m # n => threads'[r][m] = threads[r][m]

\* What a changed thread of s means for all threads.
LEMMA ThreadMoves ==
  ASSUME SerialTypeOK, NEW s \in Sides, NEW n \in Sessions, NEW t \in ThreadRecords,
         threads' = [threads EXCEPT ![s][n] = t]
  PROVE  Moved(s, n, t)
<1>1. threads \in [Sides -> [Sessions -> ThreadRecords]]
  BY DEF SerialTypeOK, ThreadRecords
<1>2. threads' = [threads EXCEPT ![s] = [threads[s] EXCEPT ![n] = t]]
  OBVIOUS
<1>3. threads[s] \in [Sessions -> ThreadRecords]
  BY <1>1
<1>4. QED
  BY <1>1, <1>2, <1>3 DEF Moved

\* The same for a step that moves the program counter only.
LEMMA GoesMoves ==
  ASSUME SerialTypeOK, NEW s \in Sides, NEW n \in Sessions, NEW from, NEW to \in ThreadPCs, Goes(s, n, from, to)
  PROVE  threads[s][n].pc = from /\ Moved(s, n, [threads[s][n] EXCEPT !.pc = to])
<1>1. threads[s][n] \in ThreadRecords
  BY DEF SerialTypeOK, ThreadRecords
<1>2. [threads[s][n] EXCEPT !.pc = to] \in ThreadRecords
  BY <1>1 DEF ThreadRecords
<1>3. threads[s][n].pc = from /\ threads' = [threads EXCEPT ![s][n] = [threads[s][n] EXCEPT !.pc = to]]
  BY DEF Goes
<1>4. QED
  BY <1>2, <1>3, ThreadMoves

\* The steps of a thread, each with where it leads.
LEMMA TransferEndsMoves ==
  ASSUME SerialTypeOK, NEW s \in Sides, NEW n \in Sessions, TransferEnds(s, n)
  PROVE  threads[s][n].pc = "io" /\ Moved(s, n, [threads[s][n] EXCEPT !.pc = "check"])
<1>1. Goes(s, n, "io", "check")
  BY DEF TransferEnds
<1>2. "check" \in ThreadPCs
  BY DEF ThreadPCs
<1>3. QED
  BY <1>1, <1>2, GoesMoves, Zenon

LEMMA AbortMoves ==
  ASSUME SerialTypeOK, NEW s \in Sides, NEW n \in Sessions, Abort(s, n)
  PROVE  threads[s][n].pc = "abort" /\ Moved(s, n, [threads[s][n] EXCEPT !.pc = "loop"])
<1>1. Goes(s, n, "abort", "loop")
  BY DEF Abort
<1>2. "loop" \in ThreadPCs
  BY DEF ThreadPCs
<1>3. QED
  BY <1>1, <1>2, GoesMoves, Zenon

LEMMA CompleteMoves ==
  ASSUME SerialTypeOK, NEW s \in Sides, NEW n \in Sessions, Complete(s, n)
  PROVE  threads[s][n].pc = "complete" /\ Moved(s, n, [threads[s][n] EXCEPT !.pc = "loop"])
<1>1. Goes(s, n, "complete", "loop")
  BY DEF Complete
<1>2. "loop" \in ThreadPCs
  BY DEF ThreadPCs
<1>3. QED
  BY <1>1, <1>2, GoesMoves, Zenon

LEMMA TestKilledMoves ==
  ASSUME SerialTypeOK, NEW s \in Sides, NEW n \in Sessions, TestKilled(s, n)
  PROVE  /\ threads[s][n].pc = "check"
         /\ \/ io_killed /\ Moved(s, n, [threads[s][n] EXCEPT !.pc = "abort"])
            \/ ~ io_killed /\ Moved(s, n, [threads[s][n] EXCEPT !.pc = "complete"])
<1>1. "abort" \in ThreadPCs /\ "complete" \in ThreadPCs
  BY DEF ThreadPCs
<1>2. CASE io_killed
  <2>1. Goes(s, n, "check", "abort")
    BY <1>2 DEF TestKilled
  <2>2. QED
    BY <1>1, <1>2, <2>1, GoesMoves, Zenon
<1>3. CASE ~ io_killed
  <2>1. Goes(s, n, "check", "complete")
    BY <1>3 DEF TestKilled
  <2>2. QED
    BY <1>1, <1>3, <2>1, GoesMoves, Zenon
<1>4. QED
  BY <1>2, <1>3

LEMMA WaitMoves ==
  ASSUME SerialTypeOK, NEW s \in Sides, NEW n \in Sessions, WaitForCommand(s, n)
  PROVE  /\ threads[s][n].pc = "loop"
         /\ \/ closed /\ Moved(s, n, [threads[s][n] EXCEPT !.pc = "woken"])
            \/ ~ closed /\ \E t : Moved(s, n, t) /\ t.pc = "wait" /\ t.on = session
<1>1. threads[s][n] \in ThreadRecords /\ session \in 0 .. MaxOpens
  BY DEF SerialTypeOK, ThreadRecords
<1>2. CASE closed /\ Goes(s, n, "loop", "woken")
  BY <1>2, GoesMoves DEF ThreadPCs
<1>3. CASE ~ closed /\ threads[s][n].pc = "loop"
           /\ threads' = [threads EXCEPT ![s][n].pc = "wait", ![s][n].on = session]
  <2> DEFINE t == [threads[s][n] EXCEPT !.pc = "wait", !.on = session]
  <2>1. t \in ThreadRecords /\ t.pc = "wait" /\ t.on = session
    BY <1>1 DEF ThreadRecords, ThreadPCs
  <2>2. threads' = [threads EXCEPT ![s][n] = t]
    BY <1>3 DEF SerialTypeOK
  <2> HIDE DEF t
  <2>3. Moved(s, n, t)
    BY <2>1, <2>2, ThreadMoves
  <2>4. QED
    BY <1>3, <2>1, <2>3
<1>4. QED
  BY <1>2, <1>3 DEF WaitForCommand

LEMMA TestQuittingMoves ==
  ASSUME SerialTypeOK, NEW s \in Sides, NEW n \in Sessions, TestQuitting(s, n)
  PROVE  /\ threads[s][n].pc = "woken"
         /\ \E t : /\ Moved(s, n, t)
                  /\ \/ quitting /\ t.pc = "ended"
                     \/ ~ quitting /\ t.pc = "io" /\ t.req = pb[s]
<1>1. threads[s][n] \in ThreadRecords /\ pb[s] \in 0 .. MaxPrimes
  BY DEF SerialTypeOK, ThreadRecords
<1> DEFINE to == IF quitting THEN "ended" ELSE "io"
           req == IF quitting THEN threads[s][n].req ELSE pb[s]
           t == [threads[s][n] EXCEPT !.pc = to, !.req = req]
<1>2. to \in ThreadPCs /\ req \in 0 .. MaxPrimes
  BY <1>1 DEF ThreadRecords, ThreadPCs
<1>3. threads' = [threads EXCEPT ![s][n].pc = to, ![s][n].req = req]
  BY DEF TestQuitting
<1>4. \/ quitting /\ to = "ended"
      \/ ~ quitting /\ to = "io" /\ req = pb[s]
  OBVIOUS
<1> HIDE DEF to, req
<1>5. t \in ThreadRecords /\ t.pc = to /\ t.req = req
  BY <1>1, <1>2 DEF ThreadRecords
<1>6. threads' = [threads EXCEPT ![s][n] = t]
  BY <1>3 DEF SerialTypeOK
<1> HIDE DEF t
<1>7. Moved(s, n, t)
  BY <1>5, <1>6, ThreadMoves
<1>8. threads[s][n].pc = "woken"
  BY DEF TestQuitting
<1>9. QED
  BY <1>4, <1>5, <1>7, <1>8

\* A count that is set.
LEMMA CountUpdate ==
  ASSUME NEW f \in [Sessions -> 0 .. 1], NEW o, NEW c \in 0 .. 1
  PROVE  /\ [f EXCEPT ![o] = c] \in [Sessions -> 0 .. 1]
         /\ \A m \in Sessions : [f EXCEPT ![o] = c][m] = IF m = o THEN c ELSE f[m]
OBVIOUS

\* The semaphore of a thread that wakes is taken.
LEMMA WakesValues ==
  ASSUME SerialTypeOK, NEW s \in Sides, NEW n \in Sessions, Wakes(s, n)
  PROVE  /\ threads[s][n].pc = "wait" /\ Moved(s, n, [threads[s][n] EXCEPT !.pc = "woken"])
         /\ threads[s][n].on \in 0 .. MaxOpens /\ signalled[s][threads[s][n].on] = 1
         /\ signalled' \in [Sides -> [Sessions -> 0 .. 1]]
         /\ \A r \in Sides : \A m \in Sessions : signalled[r][m] = 0 => signalled'[r][m] = 0
         /\ \A r \in Sides : \A m \in Sessions :
              r # s \/ m # threads[s][n].on => signalled'[r][m] = signalled[r][m]
         /\ threads[s][n].on \in Sessions => signalled'[s][threads[s][n].on] = 0
<1>1. /\ Goes(s, n, "wait", "woken") /\ signalled[s][threads[s][n].on] = 1
      /\ signalled' = [signalled EXCEPT ![s][threads[s][n].on] = 0]
  BY DEF Wakes
<1>2. threads[s][n].on \in 0 .. MaxOpens
  BY DEF SerialTypeOK
<1>3. DEFINE o == threads[s][n].on
<1>4. /\ signalled' \in [Sides -> [Sessions -> 0 .. 1]]
      /\ \A r \in Sides : \A m \in Sessions : signalled[r][m] = 0 => signalled'[r][m] = 0
      /\ \A r \in Sides : \A m \in Sessions : r # s \/ m # o => signalled'[r][m] = signalled[r][m]
      /\ o \in Sessions => signalled'[s][o] = 0
  <2> HIDE DEF o
  <2>1. signalled' = [signalled EXCEPT ![s] = [signalled[s] EXCEPT ![o] = 0]]
    BY <1>1 DEF o
  <2>2. signalled \in [Sides -> [Sessions -> 0 .. 1]] /\ signalled[s] \in [Sessions -> 0 .. 1]
    BY DEF SerialTypeOK
  <2>3. /\ [signalled[s] EXCEPT ![o] = 0] \in [Sessions -> 0 .. 1]
        /\ \A m \in Sessions : [signalled[s] EXCEPT ![o] = 0][m] = IF m = o THEN 0 ELSE signalled[s][m]
    BY <2>2, CountUpdate
  <2>4. QED
    BY <2>1, <2>2, <2>3
<1>5. threads[s][n].pc = "wait" /\ Moved(s, n, [threads[s][n] EXCEPT !.pc = "woken"])
  <2>1. "woken" \in ThreadPCs
    BY DEF ThreadPCs
  <2>2. QED
    BY <1>1, <2>1, GoesMoves, Zenon
<1>6. QED
  BY <1>1, <1>2, <1>4, <1>5

\* What prime leaves in the two directions.
LEMMA PrimeValues ==
  ASSUME SerialTypeOK, NEW s \in Sides, Prime(s)
  PROVE  /\ pending' \in [Sides -> BOOLEAN] /\ done' \in [Sides -> BOOLEAN]
         /\ pb' \in [Sides -> 0 .. MaxPrimes] /\ outstanding' \in [Sides -> 0 .. MaxPrimes]
         /\ signalled' \in [Sides -> [Sessions -> 0 .. 1]]
         /\ crossed' \in [Sides -> BOOLEAN]
         /\ pending'[s] /\ ~ done'[s] /\ pb'[s] = pb[s] + 1 /\ outstanding'[s] = pb[s] + 1
         /\ crossed'[s] <=> UnderWay(s) \/ LeftOver(s)
         /\ \A r \in Sides \ {s} : /\ pending'[r] = pending[r] /\ done'[r] = done[r]
                                   /\ pb'[r] = pb[r] /\ outstanding'[r] = outstanding[r]
                                   /\ crossed'[r] = crossed[r]
         /\ \A r \in Sides, m \in Sessions :
              signalled'[r][m] = IF r = s /\ m = session THEN 1 ELSE signalled[r][m]
<1>1. /\ done' = [done EXCEPT ![s] = FALSE]
      /\ pending' = [pending EXCEPT ![s] = TRUE]
      /\ pb' = [pb EXCEPT ![s] = pb[s] + 1] /\ pb[s] < MaxPrimes
      /\ signalled' = [signalled EXCEPT ![s] = [signalled[s] EXCEPT ![session] = 1]]
      /\ outstanding' = [outstanding EXCEPT ![s] = pb[s] + 1]
  BY DEF Prime, LastRequest, Released
<1>2. /\ done' \in [Sides -> BOOLEAN] /\ ~ done'[s] /\ \A r \in Sides \ {s} : done'[r] = done[r]
  BY <1>1 DEF SerialTypeOK
<1>3. /\ pending' \in [Sides -> BOOLEAN] /\ pending'[s]
      /\ \A r \in Sides \ {s} : pending'[r] = pending[r]
  BY <1>1 DEF SerialTypeOK
<1>4. pb[s] \in 0 .. MaxPrimes /\ pb[s] + 1 \in 0 .. MaxPrimes
  BY <1>1 DEF SerialTypeOK
<1>5. /\ pb' \in [Sides -> 0 .. MaxPrimes] /\ pb'[s] = pb[s] + 1
      /\ \A r \in Sides \ {s} : pb'[r] = pb[r]
  BY <1>1, <1>4 DEF SerialTypeOK
<1>6. /\ outstanding' \in [Sides -> 0 .. MaxPrimes] /\ outstanding'[s] = pb[s] + 1
      /\ \A r \in Sides \ {s} : outstanding'[r] = outstanding[r]
  BY <1>1, <1>4 DEF SerialTypeOK
<1>7. /\ signalled' \in [Sides -> [Sessions -> 0 .. 1]]
      /\ \A r \in Sides, m \in Sessions :
           signalled'[r][m] = IF r = s /\ m = session THEN 1 ELSE signalled[r][m]
  <2>1. signalled \in [Sides -> [Sessions -> 0 .. 1]] /\ signalled[s] \in [Sessions -> 0 .. 1]
    BY DEF SerialTypeOK
  <2>2. /\ [signalled[s] EXCEPT ![session] = 1] \in [Sessions -> 0 .. 1]
        /\ \A m \in Sessions :
             [signalled[s] EXCEPT ![session] = 1][m] = IF m = session THEN 1 ELSE signalled[s][m]
    BY <2>1, CountUpdate
  <2>3. QED
    BY <1>1, <2>1, <2>2
<1>8. /\ crossed' \in [Sides -> BOOLEAN] /\ (crossed'[s] <=> UnderWay(s) \/ LeftOver(s))
      /\ \A r \in Sides \ {s} : crossed'[r] = crossed[r]
  <2>1. (UnderWay(s) \/ LeftOver(s)) \in BOOLEAN
    BY DEF UnderWay, LeftOver
  <2>2. crossed' = [crossed EXCEPT ![s] = UnderWay(s) \/ LeftOver(s)] /\ crossed \in [Sides -> BOOLEAN]
    BY DEF Prime, SerialTypeOK
  <2> DEFINE c == UnderWay(s) \/ LeftOver(s)
  <2> HIDE DEF c
  <2>3. crossed' = [crossed EXCEPT ![s] = c] /\ c \in BOOLEAN
    BY <2>1, <2>2 DEF c
  <2>4. /\ crossed' \in [Sides -> BOOLEAN] /\ crossed'[s] = c
        /\ \A r \in Sides \ {s} : crossed'[r] = crossed[r]
    BY <2>2, <2>3
  <2>5. QED
    BY <2>4 DEF c
<1>9. QED
  BY <1>2, <1>3, <1>4, <1>5, <1>6, <1>7, <1>8

\* close signals the threads of the last open only.
LEMMA CloseValues ==
  ASSUME SerialTypeOK, ClosePort
  PROVE  /\ signalled' \in [Sides -> [Sessions -> 0 .. 1]]
         /\ \A r \in Sides, m \in Sessions : m # session => signalled'[r][m] = signalled[r][m]
<1>1. signalled' = [r \in Sides |-> [signalled[r] EXCEPT ![session] = 1]]
  BY DEF ClosePort, Released
<1>2. \A r \in Sides : signalled[r] \in [Sessions -> 0 .. 1]
  BY DEF SerialTypeOK
<1>3. \A r \in Sides : /\ [signalled[r] EXCEPT ![session] = 1] \in [Sessions -> 0 .. 1]
                       /\ \A m \in Sessions :
                            [signalled[r] EXCEPT ![session] = 1][m] = IF m = session THEN 1 ELSE signalled[r][m]
  BY <1>2, CountUpdate
<1>4. QED
  BY <1>1, <1>2, <1>3

\* SerialInterrupt() takes back only requests that are done.
LEMMA InterruptValues ==
  ASSUME SerialTypeOK, SerialInterrupt
  PROVE  /\ pending' \in [Sides -> BOOLEAN] /\ done' \in [Sides -> BOOLEAN]
         /\ outstanding' \in [Sides -> 0 .. MaxPrimes]
         /\ \A s \in Sides :
              /\ pending'[s] <=> pending[s] /\ ~ Completes(s)
              /\ done'[s] <=> done[s] /\ ~ Completes(s)
              /\ outstanding'[s] = IF Completes(s) THEN 0 ELSE outstanding[s]
<1>1. /\ pending' = [s \in Sides |-> pending[s] /\ ~ Completes(s)]
      /\ done' = [s \in Sides |-> done[s] /\ ~ Completes(s)]
      /\ outstanding' = [s \in Sides |-> IF Completes(s) THEN 0 ELSE outstanding[s]]
  BY DEF SerialInterrupt
<1>2. outstanding' \in [Sides -> 0 .. MaxPrimes]
  BY <1>1 DEF SerialTypeOK
<1>3. pending' \in [Sides -> BOOLEAN]
  BY <1>1
<1>4. done' \in [Sides -> BOOLEAN]
  BY <1>1
<1>5. \A s \in Sides : /\ pending'[s] <=> pending[s] /\ ~ Completes(s)
                       /\ done'[s] <=> done[s] /\ ~ Completes(s)
                       /\ outstanding'[s] = IF Completes(s) THEN 0 ELSE outstanding[s]
  BY <1>1
<1>6. QED
  BY <1>2, <1>3, <1>4, <1>5

\* open starts one new thread in each direction.
LEMMA OpenValues ==
  ASSUME SerialTypeOK, OpenThreads, session < MaxOpens
  PROVE  /\ threads' \in [Sides -> [Sessions -> ThreadRecords]]
         /\ \A r \in Sides, m \in Sessions :
              /\ m # session + 1 => threads'[r][m] = threads[r][m]
              /\ m = session + 1 => threads'[r][m].pc = "loop"
<1>1. threads \in [Sides -> [Sessions -> ThreadRecords]] /\ session + 1 \in Sessions
  BY DEF SerialTypeOK, ThreadRecords, Sessions
<1>2. \A r \in Sides : [threads[r][session + 1] EXCEPT !.pc = "loop"] \in ThreadRecords
  BY <1>1 DEF ThreadRecords, ThreadPCs
<1>3. \A r \in Sides : threads[r] \in [Sessions -> ThreadRecords]
  BY <1>1
<1>4. threads' = [r \in Sides |-> [threads[r] EXCEPT ![session + 1] =
                                        [threads[r][session + 1] EXCEPT !.pc = "loop"]]]
  BY DEF OpenThreads
<1>5. QED
  BY <1>1, <1>2, <1>3, <1>4 DEF ThreadRecords

-----------------------------------------------------------------------------
(* The invariant, action by action.                                       *)

\* Every step keeps the types.
LEMMA SerialTypes ==
  ASSUME SerialTypeOK, Port, [SerialNext]_serialVars
  PROVE  SerialTypeOK'
<1>1. CASE OpenStart
  BY <1>1 DEF SerialTypeOK, ThreadRecords, No, Zero, OpenStart, history
<1>2. CASE OpenFails
  BY <1>2 DEF SerialTypeOK, ThreadRecords, OpenFails, requests, history
<1>3. CASE OpenThreads
  <2>1. session < MaxOpens
    BY <1>3 DEF Port, OpenThreads
  <2>2. threads' \in [Sides -> [Sessions -> ThreadRecords]]
    BY <1>3, <2>1, OpenValues
  <2>3. mac' = "alloc" /\ closed' = FALSE /\ session' = session + 1
    BY <1>3 DEF OpenThreads
  <2>6. session' \in 0 .. MaxOpens
    <3>1. session \in 0 .. MaxOpens
      BY DEF SerialTypeOK
    <3>2. QED
      BY <2>1, <2>3, <3>1
  <2>4. UNCHANGED <<is_serial, is_open, io_killed, quitting, requests, history, signalled>>
    BY <1>3 DEF OpenThreads
  <2>5. QED
    BY <2>2, <2>3, <2>4, <2>6 DEF SerialTypeOK, ThreadRecords, requests, history
<1>4. CASE OpenDone
  BY <1>4 DEF SerialTypeOK, ThreadRecords, OpenDone, requests, history
<1>5. CASE AllocFails
  BY <1>5, CloseValues DEF SerialTypeOK, ThreadRecords, AllocFails, ClosePort, requests, history
<1>6. CASE CloseStart
  BY <1>6, CloseValues DEF SerialTypeOK, ThreadRecords, CloseStart, ClosePort, requests, history
<1>7. CASE CloseDone
  <2>1. outstanding' \in [Sides -> 0 .. MaxPrimes]
    BY <1>7 DEF CloseDone, Zero
  <2>2. mac' = "run" /\ is_open' = FALSE
    BY <1>7 DEF CloseDone
  <2>3. UNCHANGED <<is_serial, io_killed, quitting, session, closed, requests, transferred,
                    crossed, signalled, threads>>
    BY <1>7 DEF CloseDone
  <2>4. QED
    BY <2>1, <2>2, <2>3 DEF SerialTypeOK, requests
<1>8. CASE KillStart
  BY <1>8 DEF SerialTypeOK, ThreadRecords, KillStart, requests, history
<1>9. CASE KillEnd
  <2>1. outstanding' \in [Sides -> 0 .. MaxPrimes]
    BY <1>9 DEF KillEnd, Zero
  <2>2. pending' \in [Sides -> BOOLEAN]
    BY <1>9 DEF KillEnd, No, SerialTypeOK
  <2>3. mac' = "run" /\ io_killed' = FALSE
    BY <1>9 DEF KillEnd
  <2>4. UNCHANGED <<is_serial, is_open, quitting, session, closed, done, pb, SERIAL,
                    transferred, crossed, signalled, threads>>
    BY <1>9 DEF KillEnd
  <2>5. QED
    BY <2>1, <2>2, <2>3, <2>4 DEF SerialTypeOK
<1>10. CASE SerialInterrupt
  BY <1>10, InterruptValues DEF SerialTypeOK, ThreadRecords, SerialInterrupt, port
<1>11. ASSUME NEW s \in Sides, Prime(s)
      PROVE  SerialTypeOK'
  BY <1>11, PrimeValues DEF SerialTypeOK, ThreadRecords, Prime, port
<1>12. ASSUME NEW s \in Sides, NEW n \in Sessions, WaitForCommand(s, n)
      PROVE  SerialTypeOK'
  BY <1>12, WaitMoves DEF SerialTypeOK, ThreadRecords, Moved, ThreadPCs, WaitForCommand, port,
     requests, history
<1>13. ASSUME NEW s \in Sides, NEW n \in Sessions, Wakes(s, n)
      PROVE  SerialTypeOK'
  BY <1>13, WakesValues DEF SerialTypeOK, ThreadRecords, Moved, ThreadPCs, Wakes, port, requests,
     history
<1>14. ASSUME NEW s \in Sides, NEW n \in Sessions, TestQuitting(s, n)
      PROVE  SerialTypeOK'
  BY <1>14, TestQuittingMoves DEF SerialTypeOK, ThreadRecords, Moved, ThreadPCs, TestQuitting,
     port, requests, history
<1>15. ASSUME NEW s \in Sides, NEW n \in Sessions, TransferEnds(s, n)
      PROVE  SerialTypeOK'
  <2>1. threads' \in [Sides -> [Sessions -> ThreadRecords]]
    BY <1>15, GoesMoves DEF TransferEnds, Moved, ThreadPCs
  <2>2. threads[s][n].req \in 0 .. MaxPrimes
    BY DEF SerialTypeOK
  <2>3. transferred' \in [Sides -> 0 .. MaxPrimes]
    BY <1>15, <2>2 DEF SerialTypeOK, TransferEnds
  <2>4. UNCHANGED <<port, requests, outstanding, crossed, signalled>>
    BY <1>15 DEF TransferEnds
  <2>5. QED
    BY <2>1, <2>3, <2>4 DEF SerialTypeOK, ThreadRecords, port, requests
<1>16. ASSUME NEW s \in Sides, NEW n \in Sessions, TestKilled(s, n)
      PROVE  SerialTypeOK'
  BY <1>16, GoesMoves DEF SerialTypeOK, ThreadRecords, Moved, ThreadPCs, TestKilled, port,
     requests, history
<1>17. ASSUME NEW s \in Sides, NEW n \in Sessions, Abort(s, n)
      PROVE  SerialTypeOK'
  BY <1>17, GoesMoves DEF SerialTypeOK, ThreadRecords, Moved, ThreadPCs, Abort, port, history
<1>18. ASSUME NEW s \in Sides, NEW n \in Sessions, Complete(s, n)
      PROVE  SerialTypeOK'
  BY <1>18, GoesMoves DEF SerialTypeOK, ThreadRecords, Moved, ThreadPCs, Complete, port, history
<1>19. CASE UNCHANGED serialVars
  BY <1>19 DEF SerialTypeOK, ThreadRecords, serialVars, port, requests, history
<1>20. QED
  BY <1>1, <1>2, <1>3, <1>4, <1>5, <1>6, <1>7, <1>8, <1>9, <1>10, <1>11, <1>12, <1>13,
     <1>14, <1>15, <1>16, <1>17, <1>18, <1>19 DEF SerialNext, DriverCalls, DriverReturns, IOThread

\* A step that leaves the port alone keeps what is known of it.
LEMMA PortKept ==
  ASSUME Port, UNCHANGED <<mac, is_open, io_killed, quitting, session, closed, outstanding>>,
         \A s \in Sides : pending'[s] => pending[s]
  PROVE  Port'
BY DEF Port, Live

\* Every step keeps what is known of the port.
LEMMA SerialPort ==
  ASSUME SerialTypeOK, Port, [SerialNext]_serialVars
  PROVE  Port'
<1>1. CASE OpenStart
  BY <1>1 DEF SerialTypeOK, Port, Live, Sessions, No, Zero, OpenStart, history
<1>2. CASE OpenFails
  BY <1>2 DEF SerialTypeOK, Port, Live, Sessions, OpenFails, requests, history
<1>3. CASE OpenThreads
  BY <1>3, OpenValues DEF SerialTypeOK, Port, Live, Sessions, OpenThreads, requests, history
<1>4. CASE OpenDone
  BY <1>4 DEF SerialTypeOK, Port, Live, Sessions, OpenDone, requests, history
<1>5. CASE AllocFails
  <2>1. mac = "alloc" /\ mac' = "run" /\ ~ is_open /\ ~ is_open' /\ ~ io_killed
    BY <1>5 DEF AllocFails, Port
  <2>2. ~ io_killed' /\ outstanding' = outstanding
    BY <1>5, <2>1 DEF AllocFails, ClosePort, history
  <2>3. \A s \in Sides : outstanding[s] = 0
    BY <2>1 DEF Port
  <2>4. QED
    BY <2>1, <2>2, <2>3 DEF Port, Live
<1>6. CASE CloseStart
  BY <1>6, CloseValues DEF SerialTypeOK, Port, Live, Sessions, CloseStart, ClosePort, requests,
     history
<1>7. CASE CloseDone
  BY <1>7 DEF SerialTypeOK, Port, Live, Sessions, Zero, CloseDone, requests
<1>8. CASE KillStart
  BY <1>8 DEF SerialTypeOK, Port, Live, Sessions, KillStart, requests, history
<1>9. CASE KillEnd
  BY <1>9 DEF SerialTypeOK, Port, Live, Sessions, No, Zero, KillEnd
<1>10. CASE SerialInterrupt
  BY <1>10, InterruptValues DEF SerialTypeOK, Port, Live, Sessions, SerialInterrupt, port
<1>11. ASSUME NEW s \in Sides, Prime(s)
      PROVE  Port'
  BY <1>11, PrimeValues DEF SerialTypeOK, Port, Live, Sessions, Prime, port
<1>12. ASSUME NEW s \in Sides, NEW n \in Sessions, WaitForCommand(s, n)
      PROVE  Port'
  BY <1>12, PortKept DEF SerialTypeOK, WaitForCommand, port, requests, history
<1>13. ASSUME NEW s \in Sides, NEW n \in Sessions, Wakes(s, n)
      PROVE  Port'
  BY <1>13, PortKept DEF SerialTypeOK, Wakes, port, requests, history
<1>14. ASSUME NEW s \in Sides, NEW n \in Sessions, TestQuitting(s, n)
      PROVE  Port'
  BY <1>14, PortKept DEF SerialTypeOK, TestQuitting, port, requests, history
<1>15. ASSUME NEW s \in Sides, NEW n \in Sessions, TransferEnds(s, n)
      PROVE  Port'
  BY <1>15, PortKept DEF SerialTypeOK, TransferEnds, port, requests
<1>16. ASSUME NEW s \in Sides, NEW n \in Sessions, TestKilled(s, n)
      PROVE  Port'
  BY <1>16, PortKept DEF SerialTypeOK, TestKilled, port, requests, history
<1>17. ASSUME NEW s \in Sides, NEW n \in Sessions, Abort(s, n)
      PROVE  Port'
  BY <1>17, PortKept DEF SerialTypeOK, Abort, port, history
<1>18. ASSUME NEW s \in Sides, NEW n \in Sessions, Complete(s, n)
      PROVE  Port'
  BY <1>18, PortKept DEF SerialTypeOK, Complete, port, history
<1>19. CASE UNCHANGED serialVars
  BY <1>19 DEF SerialTypeOK, Port, Live, Sessions, serialVars, port, requests, history
<1>20. QED
  BY <1>1, <1>2, <1>3, <1>4, <1>5, <1>6, <1>7, <1>8, <1>9, <1>10, <1>11, <1>12, <1>13,
     <1>14, <1>15, <1>16, <1>17, <1>18, <1>19 DEF SerialNext, DriverCalls, DriverReturns, IOThread

\* A thread that moves is not one of a later open.
LEMMA LaterKept ==
  ASSUME SerialTypeOK, Later, NEW s \in Sides, NEW n \in Sessions, NEW t, Moved(s, n, t), threads[s][n].pc # "none",
         session' = session,
         \A r \in Sides, m \in Sessions : m > session /\ signalled[r][m] = 0 => signalled'[r][m] = 0
  PROVE  Later'
BY DEF Later, Moved

\* Steps of the MacOS thread leave the threads of later opens alone.
LEMMA LaterIdle ==
  ASSUME Later, session \in 0 .. MaxOpens, session' = session, UNCHANGED threads,
         \A r \in Sides, m \in Sessions : m # session => signalled'[r][m] = signalled[r][m]
  PROVE  Later'
BY DEF Later, Sessions

\* Every step leaves later opens without a trace.
LEMMA SerialLater ==
  ASSUME SerialTypeOK, Port, Later, [SerialNext]_serialVars
  PROVE  Later'
<1>1. CASE OpenStart
  BY <1>1 DEF SerialTypeOK, Port, Live, Later, Sessions, OpenStart, history
<1>2. CASE OpenFails
  BY <1>2 DEF SerialTypeOK, Port, Live, Later, Sessions, OpenFails, requests, history
<1>3. CASE OpenThreads
  BY <1>3, OpenValues DEF SerialTypeOK, Port, Live, Later, Sessions, OpenThreads, requests,
     history
<1>4. CASE OpenDone
  BY <1>4 DEF SerialTypeOK, Port, Live, Later, Sessions, OpenDone, requests, history
<1>5. CASE AllocFails
  <2>1. session' = session /\ UNCHANGED threads /\ session \in 0 .. MaxOpens
    BY <1>5 DEF AllocFails, ClosePort, SerialTypeOK
  <2>2. \A r \in Sides, m \in Sessions : m # session => signalled'[r][m] = signalled[r][m]
    BY <1>5, CloseValues DEF AllocFails
  <2>3. QED
    BY <2>1, <2>2, LaterIdle DEF Sessions
<1>6. CASE CloseStart
  <2>1. session' = session /\ UNCHANGED threads /\ session \in 0 .. MaxOpens
    BY <1>6 DEF CloseStart, ClosePort, SerialTypeOK
  <2>2. \A r \in Sides, m \in Sessions : m # session => signalled'[r][m] = signalled[r][m]
    BY <1>6, CloseValues DEF CloseStart
  <2>3. QED
    BY <2>1, <2>2, LaterIdle DEF Sessions
<1>7. CASE CloseDone
  BY <1>7 DEF SerialTypeOK, Port, Live, Later, Sessions, CloseDone, requests
<1>8. CASE KillStart
  BY <1>8 DEF SerialTypeOK, Port, Live, Later, Sessions, KillStart, requests, history
<1>9. CASE KillEnd
  BY <1>9 DEF SerialTypeOK, Port, Live, Later, Sessions, KillEnd
<1>10. CASE SerialInterrupt
  BY <1>10, InterruptValues DEF SerialTypeOK, Port, Live, Later, Sessions, SerialInterrupt, port
<1>11. ASSUME NEW s \in Sides, Prime(s)
      PROVE  Later'
  <2>1. session' = session /\ UNCHANGED threads /\ session \in 0 .. MaxOpens
    BY <1>11 DEF Prime, port, SerialTypeOK
  <2>2. \A r \in Sides, m \in Sessions : m # session => signalled'[r][m] = signalled[r][m]
    BY <1>11, PrimeValues
  <2>3. QED
    BY <2>1, <2>2, LaterIdle DEF Sessions
<1>12. ASSUME NEW s \in Sides, NEW n \in Sessions, WaitForCommand(s, n)
      PROVE  Later'
  <2>1. threads[s][n].pc = "loop" /\ \E t : Moved(s, n, t)
    BY <1>12, WaitMoves
  <2>2. UNCHANGED <<session, signalled>>
    BY <1>12 DEF WaitForCommand, port
  <2>3. QED
    BY <2>1, <2>2, LaterKept
<1>13. ASSUME NEW s \in Sides, NEW n \in Sessions, Wakes(s, n)
      PROVE  Later'
  <2>1. threads[s][n].pc = "wait" /\ Moved(s, n, [threads[s][n] EXCEPT !.pc = "woken"])
    BY <1>13, WakesValues
  <2>2. \A r \in Sides, m \in Sessions : signalled[r][m] = 0 => signalled'[r][m] = 0
    BY <1>13, WakesValues
  <2>3. session' = session
    BY <1>13 DEF Wakes, port
  <2>4. QED
    BY <2>1, <2>2, <2>3, LaterKept
<1>14. ASSUME NEW s \in Sides, NEW n \in Sessions, TestQuitting(s, n)
      PROVE  Later'
  <2>1. threads[s][n].pc = "woken" /\ \E t : Moved(s, n, t)
    BY <1>14, TestQuittingMoves
  <2>2. UNCHANGED <<session, signalled>>
    BY <1>14 DEF TestQuitting, port
  <2>3. QED
    BY <2>1, <2>2, LaterKept
<1>15. ASSUME NEW s \in Sides, NEW n \in Sessions, TransferEnds(s, n)
      PROVE  Later'
  <2>2. threads[s][n].pc = "io" /\ \E t : Moved(s, n, t)
    BY <1>15, TransferEndsMoves, Zenon
  <2>3. UNCHANGED <<session, signalled>>
    BY <1>15 DEF TransferEnds, port
  <2>4. QED
    BY <2>2, <2>3, LaterKept
<1>16. ASSUME NEW s \in Sides, NEW n \in Sessions, TestKilled(s, n)
      PROVE  Later'
  <2>2. threads[s][n].pc = "check" /\ \E t : Moved(s, n, t)
    BY <1>16, TestKilledMoves, Zenon
  <2>3. UNCHANGED <<session, signalled>>
    BY <1>16 DEF TestKilled, port
  <2>4. QED
    BY <2>2, <2>3, LaterKept
<1>17. ASSUME NEW s \in Sides, NEW n \in Sessions, Abort(s, n)
      PROVE  Later'
  <2>2. threads[s][n].pc = "abort" /\ \E t : Moved(s, n, t)
    BY <1>17, AbortMoves, Zenon
  <2>3. UNCHANGED <<session, signalled>>
    BY <1>17 DEF Abort, port
  <2>4. QED
    BY <2>2, <2>3, LaterKept
<1>18. ASSUME NEW s \in Sides, NEW n \in Sessions, Complete(s, n)
      PROVE  Later'
  <2>2. threads[s][n].pc = "complete" /\ \E t : Moved(s, n, t)
    BY <1>18, CompleteMoves, Zenon
  <2>3. UNCHANGED <<session, signalled>>
    BY <1>18 DEF Complete, port
  <2>4. QED
    BY <2>2, <2>3, LaterKept
<1>19. CASE UNCHANGED serialVars
  BY <1>19 DEF SerialTypeOK, Port, Live, Later, Sessions, serialVars, port, requests, history
<1>20. QED
  BY <1>1, <1>2, <1>3, <1>4, <1>5, <1>6, <1>7, <1>8, <1>9, <1>10, <1>11, <1>12, <1>13,
     <1>14, <1>15, <1>16, <1>17, <1>18, <1>19 DEF SerialNext, DriverCalls, DriverReturns, IOThread

\* A thread that moves is that of the last open, or is left over.
LEMMA CurrentThread ==
  ASSUME SerialTypeOK, Later, NEW s \in Sides, NEW n \in Sessions,
         threads[s][n].pc \notin {"none", "ended"}, ~ LeftOver(s)
  PROVE  n = session
<1>1. session \in 0 .. MaxOpens /\ n \in 1 .. MaxOpens
  BY DEF SerialTypeOK, Sessions
<1>2. ~ n > session
  BY DEF Later
<1>3. n \notin 1 .. session - 1
  BY DEF LeftOver
<1>4. QED
  BY <1>1, <1>2, <1>3

\* Threads that have ended are not left over.
LEMMA NoneLeft ==
  ASSUME SerialTypeOK, NEW s \in Sides, ~ LeftOver(s), session' = session,
         \A n \in Sessions : n # session => threads'[s][n] = threads[s][n]
  PROVE  ~ LeftOver(s)'
<1>1. session \in 0 .. MaxOpens
  BY DEF SerialTypeOK
<1>2. \A n \in 1 .. session - 1 : n \in Sessions /\ n # session
  BY <1>1 DEF Sessions
<1>3. QED
  BY <1>2 DEF LeftOver

\* A step that leaves a direction alone keeps its request.
LEMMA RequestKept ==
  ASSUME SerialTypeOK, NEW s \in Sides, Request(s), session \in Sessions,
         UNCHANGED <<quitting, session>>,
         UNCHANGED <<pending[s], done[s], pb[s], outstanding[s], transferred[s], crossed[s]>>,
         \A n \in Sessions : threads'[s][n] = threads[s][n],
         signalled'[s][session] = signalled[s][session]
  PROVE  Request(s)'
<1>1. ~ LeftOver(s) => ~ LeftOver(s)'
  BY NoneLeft
<1>2. threads'[s][session] = threads[s][session]
  OBVIOUS
<1>3. QED
  BY <1>1, <1>2 DEF Request, Placed

\* Only open brings a port to life.
LEMMA LiveBefore ==
  ASSUME SerialTypeOK, Port, [SerialNext]_serialVars, Live'
  PROVE  Live \/ OpenThreads
<1>1. CASE DriverCalls
  BY <1>1 DEF DriverCalls, Live, OpenStart, CloseStart, KillStart, Prime, port
<1>2. CASE OpenFails \/ OpenThreads \/ OpenDone \/ CloseDone \/ KillEnd
  BY <1>2 DEF Live, OpenFails, OpenDone, CloseDone, KillEnd, Port
<1>3. CASE AllocFails
  BY <1>3 DEF Live, AllocFails
<1>4. CASE SerialInterrupt
  BY <1>4 DEF Live, SerialInterrupt, port
<1>5. ASSUME NEW s \in Sides, NEW n \in Sessions, IOThread(s, n)
      PROVE  Live
  BY <1>5 DEF Live, IOThread, WaitForCommand, Wakes, TestQuitting, TransferEnds, TestKilled,
     Abort, Complete, port
<1>6. CASE UNCHANGED serialVars
  BY <1>6 DEF Live, serialVars, port
<1>7. QED
  BY <1>1, <1>2, <1>3, <1>4, <1>5, <1>6 DEF SerialNext, DriverReturns

\* A port stays a COM port, or none.
LEMMA KindKept ==
  ASSUME [SerialNext]_serialVars
  PROVE  is_serial' = is_serial
<1>1. CASE DriverCalls \/ DriverReturns \/ SerialInterrupt
  BY <1>1 DEF DriverCalls, DriverReturns, OpenStart, CloseStart, KillStart, Prime, OpenFails,
     OpenThreads, OpenDone, AllocFails, CloseDone, KillEnd, SerialInterrupt, ClosePort, port
<1>2. ASSUME NEW s \in Sides, NEW n \in Sessions, IOThread(s, n)
      PROVE  is_serial' = is_serial
  BY <1>2 DEF IOThread, WaitForCommand, Wakes, TestQuitting, TransferEnds, TestKilled,
     Abort, Complete, port
<1>3. QED
  BY <1>1, <1>2 DEF SerialNext, serialVars, port

\* The steps of the MacOS thread.
LEMMA DriverRequest ==
  ASSUME SerialTypeOK, Port, is_serial, Live, NEW s \in Sides, Request(s), Live',
         DriverCalls \/ OpenFails \/ OpenDone \/ AllocFails \/ CloseDone \/ KillEnd \/ SerialInterrupt
  PROVE  Request(s)'
<1>0. session \in Sessions /\ (quitting <=> mac = "free") /\ (closed <=> mac = "free")
  BY DEF Port
<1>1. CASE OpenStart \/ OpenFails \/ AllocFails \/ CloseDone
  BY <1>1 DEF OpenStart, OpenFails, AllocFails, CloseDone, Live, Port
<1>2. CASE OpenDone
  BY <1>2 DEF OpenDone, Request, Placed, LeftOver, requests, history
<1>3. CASE CloseStart
  BY <1>3 DEF CloseStart, ClosePort, Request, Placed, LeftOver, requests, history
<1>4. CASE KillStart
  BY <1>4 DEF KillStart, Request, Placed, LeftOver, requests, history
<1>5. CASE KillEnd
  <2>1. ~ pending'[s]
    BY <1>5 DEF KillEnd, No
  <2>2. QED
    BY <2>1 DEF Request
<1>6. CASE SerialInterrupt
  <2>1. /\ pending'[s] <=> pending[s] /\ ~ Completes(s)
        /\ done'[s] <=> done[s] /\ ~ Completes(s)
        /\ outstanding'[s] = IF Completes(s) THEN 0 ELSE outstanding[s]
    BY <1>6, InterruptValues
  <2>2. UNCHANGED <<quitting, session, pb, transferred, crossed, signalled, threads>>
    BY <1>6 DEF SerialInterrupt, port
  <2>3. CASE Completes(s)
    BY <2>1, <2>3 DEF Request
  <2>4. CASE ~ Completes(s)
    BY <2>1, <2>2, <2>4 DEF Request, Placed, LeftOver
  <2>5. QED
    BY <2>3, <2>4
<1>7. ASSUME NEW r \in Sides, Prime(r)
      PROVE  Request(s)'
  <2>1. UNCHANGED <<quitting, session, transferred, threads>>
    BY <1>7 DEF Prime, port
  <2>2. CASE r # s
    <3>1. UNCHANGED <<pending[s], done[s], pb[s], outstanding[s], crossed[s]>>
      BY <1>7, <2>2, PrimeValues
    <3>2. signalled'[s][session] = signalled[s][session]
      BY <1>0, <1>7, <2>2, PrimeValues
    <3>3. QED
      BY <1>0, <2>1, <3>1, <3>2, RequestKept
  <2>3. CASE r = s
    <3>1. /\ pending'[s] /\ ~ done'[s] /\ pb'[s] = pb[s] + 1 /\ outstanding'[s] = pb[s] + 1
          /\ crossed'[s] <=> UnderWay(s) \/ LeftOver(s)
      BY <1>7, <2>3, PrimeValues
    <3>2. pb[s] + 1 # 0
      BY DEF SerialTypeOK
    <3>3. ~ crossed'[s] => threads[s][session].pc \notin Working \union {"woken"}
      BY <1>0, <3>1 DEF UnderWay, Working
    <3>4. ~ crossed'[s] => ~ LeftOver(s)'
      BY <2>1, <3>1 DEF LeftOver
    <3>5. QED
      BY <2>1, <3>1, <3>2, <3>3, <3>4 DEF Request, Placed, Working
  <2>4. QED
    BY <2>2, <2>3
<1>8. QED
  BY <1>1, <1>2, <1>3, <1>4, <1>5, <1>6, <1>7 DEF DriverCalls

\* The steps of the I/O thread of a request that crosses no other.
LEMMA ThreadPlaced ==
  ASSUME SerialTypeOK, Port, Later, Waits, Live, NEW s \in Sides, Placed(s),
         NEW n \in Sessions, IOThread(s, n), pending'[s]
  PROVE  Placed(s)'
<1>0. session \in Sessions /\ (quitting <=> mac = "free") /\ (closed <=> mac = "free")
  BY DEF Port
<1>1. UNCHANGED <<quitting, session>>
  BY DEF IOThread, WaitForCommand, Wakes, TestQuitting, TransferEnds, TestKilled, Abort,
     Complete, port
<1>2. threads[s][n] \in ThreadRecords /\ n = session
  <2>1. threads[s][n].pc \notin {"none", "ended"}
    BY DEF IOThread, WaitForCommand, Wakes, TestQuitting, TransferEnds, TestKilled, Abort,
       Complete, Goes
  <2>2. n = session
    BY <2>1, CurrentThread DEF Placed
  <2>3. QED
    BY <2>2 DEF SerialTypeOK, ThreadRecords
<1>3. ASSUME NEW t, Moved(s, n, t)
      PROVE  ~ LeftOver(s)'
  <2>1. \A m \in Sessions : m # session => threads'[s][m] = threads[s][m]
    BY <1>2, <1>3 DEF Moved
  <2>2. QED
    BY <1>1, <2>1, NoneLeft DEF Placed
<1>4. CASE WaitForCommand(s, n)
  <2>1. threads[s][n].pc = "loop"
    BY <1>4, WaitMoves
  <2>2. UNCHANGED <<pending, done, pb, outstanding, transferred, signalled>>
    BY <1>4 DEF WaitForCommand, requests, history
  <2>3. CASE closed /\ Moved(s, n, [threads[s][n] EXCEPT !.pc = "woken"])
    <3>1. threads'[s][n].pc = "woken"
      BY <1>2, <2>3 DEF Moved, ThreadRecords
    <3>2. QED
      BY <1>0, <1>1, <1>2, <1>3, <2>2, <2>3, <3>1 DEF Placed, Working
  <2>4. ASSUME NEW t, Moved(s, n, t), t.pc = "wait"
        PROVE  Placed(s)'
    <3>1. threads'[s][n].pc = "wait"
      BY <1>2, <2>4 DEF Moved
    <3>2. QED
      BY <1>1, <1>2, <1>3, <2>2, <2>4, <3>1 DEF Placed, Working
  <2>5. QED
    BY <1>4, <2>3, <2>4, WaitMoves
<1>5. CASE Wakes(s, n)
  <2>1. /\ threads[s][n].pc = "wait" /\ Moved(s, n, [threads[s][n] EXCEPT !.pc = "woken"])
        /\ signalled[s][threads[s][n].on] = 1
        /\ threads[s][n].on \in Sessions => signalled'[s][threads[s][n].on] = 0
    BY <1>5, WakesValues
  <2>2. threads[s][n].on = session
    BY <1>2, <2>1 DEF Waits
  <2>3. signalled[s][session] = 1 /\ signalled'[s][session] = 0
    BY <1>0, <2>1, <2>2
  <2>4. threads'[s][n].pc = "woken"
    BY <1>2, <2>1 DEF Moved, ThreadRecords
  <2>5. UNCHANGED <<pending, done, pb, outstanding, transferred>>
    BY <1>5 DEF Wakes, requests, history
  <2>6. QED
    BY <1>1, <1>2, <1>3, <2>1, <2>3, <2>4, <2>5 DEF Placed, Working
<1>6. CASE TestQuitting(s, n)
  <2>1. threads[s][n].pc = "woken"
    BY <1>6, TestQuittingMoves
  <2>2. UNCHANGED <<pending, done, pb, outstanding, transferred, signalled>>
    BY <1>6 DEF TestQuitting, requests, history
  <2>3. ASSUME NEW t, Moved(s, n, t), t.pc = "ended"
        PROVE  Placed(s)'
    <3>1. threads'[s][n].pc = "ended"
      BY <1>2, <2>3 DEF Moved
    <3>2. QED
      BY <1>1, <1>2, <1>3, <2>2, <2>3, <3>1 DEF Placed, Working
  <2>4. ASSUME ~ quitting, NEW t, Moved(s, n, t), t.pc = "io", t.req = pb[s]
        PROVE  Placed(s)'
    <3>1. threads'[s][n].pc = "io" /\ threads'[s][n].req = pb[s]
      BY <1>2, <2>4 DEF Moved
    <3>2. ~ done[s] /\ signalled[s][session] # 1
      BY <1>2, <2>1, <2>4 DEF Placed
    <3>3. QED
      BY <1>1, <1>2, <1>3, <2>2, <2>4, <3>1, <3>2 DEF Placed, Working
  <2>5. QED
    BY <1>6, <2>3, <2>4, TestQuittingMoves
<1>7. CASE TransferEnds(s, n)
  <2>1. threads[s][n].pc = "io" /\ Moved(s, n, [threads[s][n] EXCEPT !.pc = "check"])
    BY <1>7, TransferEndsMoves
  <2>2. threads'[s][n].pc = "check" /\ threads'[s][n].req = threads[s][n].req
    BY <1>2, <2>1 DEF Moved, ThreadRecords
  <2>3. UNCHANGED <<pending, done, pb, outstanding, signalled>>
    BY <1>7 DEF TransferEnds, requests
  <2>4. transferred'[s] = threads[s][n].req
    BY <1>7 DEF TransferEnds, SerialTypeOK
  <2>5. QED
    BY <1>1, <1>2, <1>3, <2>1, <2>2, <2>3, <2>4 DEF Placed, Working
<1>8. CASE TestKilled(s, n)
  <2>1. threads[s][n].pc = "check"
    BY <1>8, TestKilledMoves
  <2>2. \/ Moved(s, n, [threads[s][n] EXCEPT !.pc = "abort"])
        \/ Moved(s, n, [threads[s][n] EXCEPT !.pc = "complete"])
    BY <1>8, TestKilledMoves
  <2>3. /\ threads'[s][n].req = threads[s][n].req
        /\ threads'[s][n].pc \in {"abort", "complete"}
    BY <1>2, <2>2 DEF Moved, ThreadRecords
  <2>4. UNCHANGED <<pending, done, pb, outstanding, transferred, signalled>>
    BY <1>8 DEF TestKilled, requests, history
  <2>5. ~ LeftOver(s)'
    BY <1>3, <2>2
  <2>6. QED
    BY <1>1, <1>2, <2>1, <2>3, <2>4, <2>5 DEF Placed, Working
<1>9. CASE Abort(s, n)
  BY <1>9 DEF Abort, SerialTypeOK
<1>10. CASE Complete(s, n)
  <2>1. threads[s][n].pc = "complete" /\ Moved(s, n, [threads[s][n] EXCEPT !.pc = "loop"])
    BY <1>10, CompleteMoves
  <2>2. threads'[s][n].pc = "loop"
    BY <1>2, <2>1 DEF Moved, ThreadRecords
  <2>3. UNCHANGED <<pending, pb, outstanding, transferred, signalled>>
    BY <1>10 DEF Complete, history
  <2>4. transferred[s] = pb[s] /\ (~ quitting => signalled[s][session] # 1)
    BY <1>2, <2>1 DEF Placed, Working
  <2>5. QED
    BY <1>1, <1>2, <1>3, <2>1, <2>2, <2>3, <2>4 DEF Placed, Working
<1>11. QED
  BY <1>4, <1>5, <1>6, <1>7, <1>8, <1>9, <1>10 DEF IOThread

\* A thread hands nothing over, and makes no request pending.
LEMMA ThreadLeaves ==
  ASSUME SerialTypeOK, NEW r \in Sides, NEW n \in Sessions, IOThread(r, n)
  PROVE  /\ UNCHANGED <<crossed, mac, is_open, quitting, session>>
         /\ \A s \in Sides : pending'[s] => pending[s]
<1>1. UNCHANGED <<crossed, mac, is_open, quitting, session>>
  BY DEF IOThread, WaitForCommand, Wakes, TestQuitting, TransferEnds, TestKilled, Abort,
     Complete, port, history
<1>2. CASE Abort(r, n)
  BY <1>1, <1>2 DEF Abort, SerialTypeOK
<1>3. CASE ~ Abort(r, n)
  <2>1. pending' = pending
    BY <1>3 DEF IOThread, WaitForCommand, Wakes, TestQuitting, TransferEnds, TestKilled, Complete,
       requests
  <2>2. QED
    BY <1>1, <2>1
<1>4. QED
  BY <1>2, <1>3

\* Where a thread goes.
LEMMA SomethingMoves ==
  ASSUME SerialTypeOK, NEW r \in Sides, NEW n \in Sessions, IOThread(r, n)
  PROVE  \E t : Moved(r, n, t)
<1>1. CASE WaitForCommand(r, n)
  BY <1>1, WaitMoves
<1>2. CASE Wakes(r, n)
  BY <1>2, WakesValues
<1>3. CASE TestQuitting(r, n)
  BY <1>3, TestQuittingMoves
<1>4. CASE TransferEnds(r, n)
  BY <1>4, TransferEndsMoves, Zenon
<1>5. CASE TestKilled(r, n)
  BY <1>5, TestKilledMoves
<1>6. CASE Abort(r, n)
  BY <1>6, AbortMoves, Zenon
<1>7. CASE Complete(r, n)
  BY <1>7, CompleteMoves, Zenon
<1>8. QED
  BY <1>1, <1>2, <1>3, <1>4, <1>5, <1>6, <1>7 DEF IOThread

\* The other direction's thread leaves this direction alone.
LEMMA OtherSide ==
  ASSUME SerialTypeOK, Port, Live, NEW s \in Sides, Request(s),
         NEW r \in Sides, r # s, NEW n \in Sessions, IOThread(r, n)
  PROVE  Request(s)'
<1>1. session \in Sessions /\ UNCHANGED <<crossed, quitting, session>>
  BY ThreadLeaves DEF Port
<1>2. \A m \in Sessions : threads'[s][m] = threads[s][m]
  BY SomethingMoves DEF Moved
<1>3. signalled'[s][session] = signalled[s][session]
  <2>1. CASE Wakes(r, n)
    <3>1. \A x \in Sides : \A m \in Sessions :
            x # r \/ m # threads[r][n].on => signalled'[x][m] = signalled[x][m]
      BY <2>1, WakesValues
    <3>2. QED
      BY <1>1, <3>1
  <2>2. CASE ~ Wakes(r, n)
    BY <2>2 DEF IOThread, WaitForCommand, TestQuitting, TransferEnds, TestKilled, Abort, Complete
  <2>3. QED
    BY <2>1, <2>2
<1>4. UNCHANGED <<pending[s], done[s]>>
  BY DEF SerialTypeOK, IOThread, WaitForCommand, Wakes, TestQuitting, TransferEnds, TestKilled,
     Abort, Complete, requests
<1>5. UNCHANGED <<pb[s], outstanding[s], transferred[s]>>
  BY DEF SerialTypeOK, IOThread, WaitForCommand, Wakes, TestQuitting, TransferEnds, TestKilled,
     Abort, Complete, requests, history
<1>6. QED
  BY <1>1, <1>2, <1>3, <1>4, <1>5, RequestKept

\* The port that OpenThreads sets up has no request yet.
LEMMA OpenRequest ==
  ASSUME Port, NEW s \in Sides, OpenThreads
  PROVE  Request(s)'
<1>1. mac = "open" /\ pending' = pending
  BY DEF OpenThreads, requests
<1>2. ~ pending'[s]
  BY <1>1 DEF Port
<1>3. QED
  BY <1>2 DEF Request

\* Every step keeps the request of a direction in one place.
LEMMA SerialRequest ==
  ASSUME SerialInv, [SerialNext]_serialVars, is_serial', Live', NEW s \in Sides
  PROVE  Request(s)'
<1>1. SerialTypeOK /\ Port /\ Later /\ Waits /\ is_serial
  BY KindKept DEF SerialInv
<1>2. CASE OpenThreads
  BY <1>1, <1>2, OpenRequest
<1>3. CASE Live /\ ~ OpenThreads
  <2>1. Request(s)
    BY <1>1, <1>3 DEF SerialInv
  <2>2. CASE DriverCalls \/ DriverReturns \/ SerialInterrupt
    BY <1>1, <1>3, <2>1, <2>2, DriverRequest DEF DriverReturns
  <2>3. ASSUME NEW r \in Sides, NEW n \in Sessions, IOThread(r, n)
        PROVE  Request(s)'
    <3>1. CASE r = s
      <4>1. SUFFICES ASSUME pending'[s], ~ crossed'[s]
                     PROVE  Placed(s)'
        BY DEF Request
      <4>2. pending[s] /\ ~ crossed[s]
        BY <1>1, <2>3, <4>1, ThreadLeaves
      <4>3. Placed(s)
        BY <2>1, <4>2 DEF Request
      <4>4. QED
        BY <1>1, <1>3, <2>3, <3>1, <4>1, <4>3, ThreadPlaced
    <3>2. CASE r # s
      BY <1>1, <1>3, <2>1, <2>3, <3>2, OtherSide
    <3>3. QED
      BY <3>1, <3>2
  <2>4. CASE UNCHANGED serialVars
    BY <2>1, <2>4 DEF Request, Placed, LeftOver, serialVars, port, requests, history
  <2>5. QED
    BY <2>2, <2>3, <2>4 DEF SerialNext
<1>4. QED
  BY <1>1, <1>2, <1>3, LiveBefore

\* Every step keeps the last thread on its own semaphore.
LEMMA SerialWaits ==
  ASSUME SerialTypeOK, Port, Later, Waits, [SerialNext]_serialVars
  PROVE  Waits'
<1> SUFFICES ASSUME Live', NEW s \in Sides, threads'[s][session'].pc = "wait"
             PROVE  threads'[s][session'].on = session'
  BY DEF Waits
<1>1. CASE OpenThreads
  <2>1. session < MaxOpens /\ session' = session + 1 /\ session + 1 \in Sessions
    BY <1>1 DEF OpenThreads, Port, SerialTypeOK, Sessions
  <2>2. threads'[s][session + 1].pc = "loop"
    BY <1>1, <2>1, OpenValues
  <2>3. QED
    BY <2>1, <2>2
<1>2. CASE Live /\ ~ OpenThreads
  <2>1. session \in Sessions
    BY <1>2 DEF Port
  <2>2. ASSUME UNCHANGED <<session, threads>>
        PROVE  threads'[s][session'].on = session'
    BY <1>2, <2>2 DEF Waits
  <2>3. CASE DriverCalls \/ DriverReturns \/ SerialInterrupt
    <3>1. UNCHANGED <<session, threads>>
      BY <1>2, <2>3 DEF DriverCalls, DriverReturns, OpenStart, CloseStart, KillStart, Prime, OpenFails,
         OpenDone, AllocFails, CloseDone, KillEnd, SerialInterrupt, ClosePort, port
    <3>2. QED
      BY <2>2, <3>1
  <2>4. ASSUME NEW r \in Sides, NEW n \in Sessions, IOThread(r, n)
        PROVE  threads'[s][session'].on = session'
    <3>1. session' = session
      BY <2>4, ThreadLeaves
    <3>2. CASE r # s \/ n # session
      <4>1. threads'[s][session] = threads[s][session]
        BY <2>1, <2>4, <3>2, SomethingMoves DEF Moved
      <4>2. QED
        BY <1>2, <3>1, <4>1 DEF Waits
    <3>3. CASE r = s /\ n = session
      <4>1. threads[s][n] \in ThreadRecords
        BY DEF SerialTypeOK, ThreadRecords
      <4>2. ASSUME NEW to \in ThreadPCs, Moved(s, n, [threads[s][n] EXCEPT !.pc = to])
            PROVE  threads'[s][n].pc = to
        BY <4>1, <4>2 DEF Moved, ThreadRecords
      <4>3. {"woken", "check", "abort", "complete", "loop"} \subseteq ThreadPCs
        BY DEF ThreadPCs
      <4>4. CASE WaitForCommand(s, n)
        <5>1. CASE Moved(s, n, [threads[s][n] EXCEPT !.pc = "woken"])
          BY <3>1, <3>3, <4>2, <4>3, <5>1
        <5>2. ASSUME NEW t, Moved(s, n, t), t.on = session
              PROVE  threads'[s][session'].on = session'
          BY <3>1, <3>3, <5>2 DEF Moved
        <5>3. QED
          BY <4>4, <5>1, <5>2, WaitMoves
      <4>5. CASE TestQuitting(s, n)
        <5>1. threads'[s][n].pc \in {"ended", "io"}
          BY <4>5, TestQuittingMoves DEF Moved
        <5>2. QED
          BY <3>1, <3>3, <5>1
      <4>6. CASE Wakes(s, n) \/ TransferEnds(s, n) \/ TestKilled(s, n) \/ Abort(s, n) \/ Complete(s, n)
        <5>1. \E to \in {"woken", "check", "abort", "complete", "loop"} :
                Moved(s, n, [threads[s][n] EXCEPT !.pc = to])
          BY <4>6, WakesValues, TransferEndsMoves, TestKilledMoves, AbortMoves, CompleteMoves, Zenon
        <5>2. threads'[s][n].pc \in {"woken", "check", "abort", "complete", "loop"}
          BY <4>2, <4>3, <5>1
        <5>3. QED
          BY <3>1, <3>3, <5>2
      <4>7. QED
        BY <2>4, <3>3, <4>4, <4>5, <4>6 DEF IOThread
    <3>4. QED
      BY <3>2, <3>3
  <2>5. CASE UNCHANGED serialVars
    BY <2>2, <2>5 DEF serialVars, port
  <2>6. QED
    BY <2>3, <2>4, <2>5 DEF SerialNext
<1>3. QED
  BY <1>1, <1>2, LiveBefore

-----------------------------------------------------------------------------
(* The theorems.                                                           *)

\* The invariant holds at first.
LEMMA SerialEstablished ==
  ASSUME SerialInit
  PROVE  SerialInv
<1>1. SerialTypeOK
  <2>1. threads \in [Sides -> [Sessions -> ThreadRecords]]
    BY DEF SerialInit, ThreadRecords, ThreadPCs
  <2>2. signalled \in [Sides -> [Sessions -> 0 .. 1]]
    BY DEF SerialInit
  <2>3. pending \in [Sides -> BOOLEAN] /\ done \in [Sides -> BOOLEAN]
    BY DEF SerialInit, No
  <2>4. /\ pb \in [Sides -> 0 .. MaxPrimes] /\ outstanding \in [Sides -> 0 .. MaxPrimes]
        /\ transferred \in [Sides -> 0 .. MaxPrimes]
    BY DEF SerialInit, Zero
  <2>9. crossed \in [Sides -> BOOLEAN]
    BY DEF SerialInit, No
  <2>5. is_serial \in BOOLEAN /\ mac = "run"
    BY DEF SerialInit
  <2>6. session \in 0 .. MaxOpens
    BY SerialAssumption DEF SerialInit, SerialAssumption
  <2>7. {is_open, io_killed, quitting, closed, SERIAL} \subseteq BOOLEAN
    BY DEF SerialInit
  <2>8. QED
    BY <2>1, <2>2, <2>3, <2>4, <2>5, <2>6, <2>7, <2>9 DEF SerialTypeOK, ThreadRecords
<1>2. Port
  BY DEF SerialInit, Port, Live, Zero
<1>3. Later
  BY DEF SerialInit, Later
<1>4. ~ Live
  BY DEF SerialInit, Live
<1>5. QED
  BY <1>1, <1>2, <1>3, <1>4 DEF SerialInv, Waits

\* The flags of the port, the requests, the semaphores and the threads keep their
\* types, whether or not the threads of an earlier open have ended.
THEOREM SerialTypeCorrect == SerialSpec => []SerialTypeOK
<1>1. SerialInit => SerialTypeOK /\ Port
  BY SerialEstablished DEF SerialInv
<1>2. SerialTypeOK /\ Port /\ [SerialNext]_serialVars => (SerialTypeOK /\ Port)'
  BY SerialTypes, SerialPort
<1>3. QED
  BY <1>1, <1>2, PTL DEF SerialSpec

\* The inductive invariant holds in every state.
LEMMA SerialInvariance == SerialSpec => []SerialInv
<1>1. SerialInit => SerialInv
  BY SerialEstablished
<1>2. SerialInv /\ [SerialNext]_serialVars => SerialInv'
  <2> SUFFICES ASSUME SerialInv, [SerialNext]_serialVars
               PROVE  SerialInv'
    OBVIOUS
  <2>1. SerialTypeOK' /\ Port' /\ Later' /\ Waits'
    BY SerialTypes, SerialPort, SerialLater, SerialWaits DEF SerialInv
  <2>2. is_serial' /\ Live' => \A s \in Sides : Request(s)'
    BY SerialRequest
  <2>3. QED
    BY <2>1, <2>2 DEF SerialInv
<1>3. QED
  BY <1>1, <1>2, PTL DEF SerialSpec

\* When SerialInterrupt() tells the Device Manager of a COM port that a request is
\* done, it is the one that is waited for, and its own I/O has ended.  This holds
\* for any number of opens and requests, of threads that close leaves behind and of
\* waits that KillIO gives up, but for a request handed over while a thread of its
\* direction was still at an earlier one.
THEOREM DoneMeansTransferredHolds == SerialSpec => []DoneMeansTransferred
<1>1. SerialInv => DoneMeansTransferred
  BY DEF SerialInv, Request, Placed, Live, DoneMeansTransferred, Completes
<1>2. QED
  BY <1>1, SerialInvariance, PTL
=============================================================================
