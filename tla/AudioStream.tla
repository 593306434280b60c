----------------------------- MODULE AudioStream -----------------------------
(***************************************************************************)
(* Sound output: the sound component that the Mac calls (audio.cpp) and    *)
(* the streaming thread, AudioInterrupt() and the mute control of Windows/ *)
(* audio_windows.cpp.  The thread asks the Mac for a block of sound with   *)
(* an interrupt, waits for it, and writes it to the wave device; mute      *)
(* closes the device from the CPU thread, at any moment.                   *)
(*                                                                         *)
(* Blocks are numbered 1 .. MaxBlocks over and over; the parameters of the *)
(* sound appear only as the need to open the device again.                 *)
(***************************************************************************)
EXTENDS Integers, FiniteSets

CONSTANTS
  Buffers,     \* m_audio_buffer_count
  MaxBlocks,   \* block numbers in use
  MaxOpens,    \* bound on open_count
  MaxSources,  \* bound on num_sources
  Resets       \* the Mac may be reset

ASSUME AudioAssumption ==
  /\ Buffers \in Nat \ {0} /\ MaxBlocks \in Nat \ {0, 1}
  /\ MaxOpens \in Nat \ {0} /\ MaxSources \in Nat /\ Resets \in BOOLEAN

VARIABLES
  audio_data,                  \* whether the component's globals exist
  open_count, mixer, num_sources,
  info,                        \* adatStreamInfo: the block, or 0
  fetched,                     \* the block got last from the Apple Mixer
  INTFLAG_AUDIO,
  audio_irq_done_sem,
  muted,                       \* is_sound_muted
  needed,                      \* sound_header_update_needed
  hWaveOut,                    \* none, of an open device, or of one that is closed
  playing,                     \* what the device of hWaveOut has to play
  stray,                       \* what devices have to play whose handle is gone
  abufs,                       \* dwFlags of each header
  next_free_sound,
  pc,                          \* where the stream and the CPU thread are
  back,                        \* where the stream thread goes after close_sound()
  block,                       \* what the stream thread has to write
  playing_sound_count,
  sound_running,
  raced,                       \* the device was opened or written to in the CPU's close_sound()
  lost,                        \* history: a device was left open without such a race
  refused                      \* history: the last waveOutOpen() failed

macVars == <<audio_data, open_count, mixer, num_sources, info, fetched>>
deviceVars == <<hWaveOut, playing, stray, lost, raced>>
devVars == <<deviceVars, abufs, playing_sound_count>>
soundVars == <<macVars, INTFLAG_AUDIO, audio_irq_done_sem, muted, needed, devVars,
          next_free_sound, pc, back, block, sound_running, refused>>

Slots == 0 .. Buffers - 1
Blocks == 1 .. MaxBlocks
Threads == {"stream", "cpu"}

SoundInit ==
  /\ audio_data = FALSE /\ open_count = 0 /\ mixer = FALSE /\ num_sources = 0
  /\ info = 0 /\ fetched = MaxBlocks
  /\ INTFLAG_AUDIO = FALSE /\ audio_irq_done_sem = 0
  /\ muted \in BOOLEAN /\ needed = TRUE
  /\ hWaveOut = "none" /\ playing = {} /\ stray = {} /\ abufs = [b \in Slots |-> "free"]
  /\ lost = FALSE /\ raced = FALSE /\ refused = FALSE
  /\ next_free_sound = 0 /\ playing_sound_count = 0
  /\ pc = [t \in Threads |-> IF t = "stream" THEN "top" ELSE "run"] /\ back = "top"
  /\ block = 0
  /\ sound_running = TRUE

-----------------------------------------------------------------------------
(* The wave device.                                                        *)

Queued == {b \in Slots : abufs[b] = "queued"}

\* update_playing_sound_count(): headers that are done are prepared no more.
CountPlaying ==
  /\ abufs' = IF hWaveOut # "none"
              THEN [b \in Slots |-> IF abufs[b] = "done" THEN "free" ELSE abufs[b]]
              ELSE abufs
  /\ playing_sound_count' = IF hWaveOut # "none" THEN Cardinality(Queued) ELSE 0

\* A device has played a buffer.
Played ==
  /\ \E b \in playing \union stray :
       /\ abufs' = [abufs EXCEPT ![b] = "done"]
       /\ \/ b \in playing /\ playing' = playing \ {b} /\ UNCHANGED stray
          \/ b \in stray /\ stray' = stray \ {b} /\ UNCHANGED playing
  /\ UNCHANGED <<macVars, INTFLAG_AUDIO, audio_irq_done_sem, muted, needed, hWaveOut,
                 playing_sound_count, next_free_sound, pc, back, block,
                 sound_running, lost, raced, refused>>

\* hWaveOut takes another value: a device that is open stays open for ever.
Forget ==
  /\ lost' = (lost \/ (hWaveOut = "open" /\ ~ raced))
  /\ stray' = stray \union playing /\ playing' = {}

Goto(t, label) == pc' = [pc EXCEPT ![t] = label]

Return(t) ==
  IF t = "stream" THEN Goto(t, back) /\ back' = "top" /\ UNCHANGED raced
  ELSE Goto(t, "run") /\ raced' = FALSE /\ UNCHANGED back

closeUnchanged ==
  UNCHANGED <<macVars, INTFLAG_AUDIO, audio_irq_done_sem, muted, needed,
              next_free_sound, block, sound_running, refused>>

\* close_sound(), in which two threads may be at a time.
CloseReset(t) ==
  /\ pc[t] = "close"
  /\ IF hWaveOut # "none"
     THEN /\ abufs' = [b \in Slots |-> IF b \in playing THEN "done" ELSE abufs[b]]
          /\ playing' = {}
          /\ Goto(t, "drain") /\ UNCHANGED <<back, raced>>
     ELSE UNCHANGED <<abufs, playing>> /\ Return(t)
  /\ UNCHANGED <<hWaveOut, stray, lost, playing_sound_count>>
  /\ closeUnchanged

CloseDrain(t) ==
  /\ pc[t] = "drain"
  /\ CountPlaying
  /\ Goto(t, IF playing_sound_count' > 0 THEN "drain" ELSE "shut")
  /\ UNCHANGED <<deviceVars, back>>
  /\ closeUnchanged

\* waveOutClose() fails while the device has blocks to play.
CloseDevice(t) ==
  /\ pc[t] = "shut"
  /\ hWaveOut' = IF hWaveOut = "open" /\ playing = {} THEN "stale" ELSE hWaveOut
  /\ Goto(t, "forget")
  /\ UNCHANGED <<playing, stray, lost, raced, abufs, playing_sound_count, back>>
  /\ closeUnchanged

\* Whether it has failed or not, the handle is set to 0.
CloseHandle(t) ==
  /\ pc[t] = "forget"
  /\ hWaveOut' = "none" /\ Forget
  /\ Return(t)
  /\ UNCHANGED <<abufs, playing_sound_count>>
  /\ closeUnchanged

Close(t) == CloseReset(t) \/ CloseDrain(t) \/ CloseDevice(t) \/ CloseHandle(t)

-----------------------------------------------------------------------------
(* stream_func().                                                          *)

streamUnchanged == UNCHANGED <<macVars, muted, back, sound_running, refused>>

MutStreamTop ==
  /\ pc["stream"] = "top"
  /\ IF ~ sound_running
     THEN Goto("stream", "close") /\ back' = "ended"
     ELSE Goto("stream", "count") /\ UNCHANGED back
  /\ UNCHANGED <<macVars, INTFLAG_AUDIO, audio_irq_done_sem, muted, needed, devVars,
                 next_free_sound, block, sound_running, refused>>

\* A muted thread gives the device to other programs.
StreamTop ==
  /\ pc["stream"] = "top"
  /\ IF ~ sound_running \/ (muted /\ hWaveOut # "none")
     THEN /\ Goto("stream", "close")
          /\ back' = IF sound_running THEN "count" ELSE "ended"
     ELSE Goto("stream", "count") /\ UNCHANGED back
  /\ UNCHANGED <<macVars, INTFLAG_AUDIO, audio_irq_done_sem, muted, needed, devVars,
                 next_free_sound, block, sound_running, refused>>

MutStreamRequest ==
  /\ pc["stream"] = "count"
  /\ CountPlaying
  /\ IF num_sources > 0 /\ playing_sound_count' < Buffers
     THEN INTFLAG_AUDIO' = TRUE /\ Goto("stream", "fill") /\ block' = info
     ELSE UNCHANGED <<INTFLAG_AUDIO, block>> /\ Goto("stream", "top")
  /\ UNCHANGED <<audio_irq_done_sem, needed, deviceVars, next_free_sound>>
  /\ streamUnchanged

\* SetInterruptFlag() and TriggerInterrupt(), or Sleep(50).
StreamRequest ==
  /\ pc["stream"] = "count"
  /\ CountPlaying
  /\ IF num_sources > 0 /\ playing_sound_count' < Buffers
     THEN INTFLAG_AUDIO' = TRUE /\ Goto("stream", "wait")
     ELSE UNCHANGED INTFLAG_AUDIO /\ Goto("stream", "top")
  /\ UNCHANGED <<audio_irq_done_sem, needed, deviceVars, next_free_sound, block>>
  /\ streamUnchanged

\* The block may have other parameters than the one before; an empty one is
\* answered with silence.
StreamAck ==
  /\ pc["stream"] = "wait" /\ audio_irq_done_sem = 1
  /\ audio_irq_done_sem' = 0
  /\ IF ~ sound_running \/ ~ audio_data
     THEN Goto("stream", "close") /\ back' = "ended" /\ UNCHANGED <<block, needed>>
     ELSE IF info = 0
     THEN Goto("stream", "top") /\ UNCHANGED <<back, block, needed>>
     ELSE /\ needed' \in {needed, TRUE}
          /\ \/ Goto("stream", "empty") /\ UNCHANGED block
             \/ muted /\ Goto("stream", "top") /\ UNCHANGED block
             \/ ~ muted /\ Goto("stream", "fill") /\ block' = info
          /\ UNCHANGED back
  /\ refused' = (refused /\ ~ needed')
  /\ UNCHANGED <<macVars, INTFLAG_AUDIO, muted, devVars, next_free_sound, sound_running>>

\* Sleep(50)
StreamSilence ==
  /\ pc["stream"] = "empty"
  /\ Goto("stream", "top")
  /\ UNCHANGED <<INTFLAG_AUDIO, audio_irq_done_sem, needed, devVars, next_free_sound, block>>
  /\ streamUnchanged

MutStreamFill ==
  /\ pc["stream"] = "fill"
  /\ abufs' = [abufs EXCEPT ![next_free_sound] = "free"]
  /\ next_free_sound' = (next_free_sound + 1) % Buffers
  /\ Goto("stream", IF needed THEN "open" ELSE "write") /\ UNCHANGED back
  /\ UNCHANGED <<macVars, INTFLAG_AUDIO, audio_irq_done_sem, muted, needed, deviceVars,
                 playing_sound_count, block, sound_running, refused>>

\* The buffer whose turn it is is filled, and the device opened again if needed.
StreamFill ==
  /\ pc["stream"] = "fill"
  /\ abufs' = [abufs EXCEPT ![next_free_sound] = "free"]
  /\ next_free_sound' = (next_free_sound + 1) % Buffers
  /\ IF needed
     THEN Goto("stream", "close") /\ back' = "open"
     ELSE Goto("stream", "write") /\ UNCHANGED back
  /\ UNCHANGED <<macVars, INTFLAG_AUDIO, audio_irq_done_sem, muted, needed, deviceVars,
                 playing_sound_count, block, sound_running, refused>>

\* The stream thread is in update_sound_parameters2() and has sound_csection.
InSection ==
  \/ pc["stream"] \in {"open", "opening", "opened"}
  \/ pc["stream"] \in {"close", "drain", "shut", "forget"} /\ back = "open"

\* Mute may come between the test and waveOutOpen().
StreamOpen ==
  /\ pc["stream"] = "open"
  /\ Goto("stream", IF muted THEN "opened" ELSE "opening")
  /\ UNCHANGED <<INTFLAG_AUDIO, audio_irq_done_sem, needed, devVars, next_free_sound,
                 block>>
  /\ streamUnchanged

closing == pc["cpu"] \in {"close", "drain", "shut", "forget"}

\* It may fail, and hWaveOut is 0 then.
waveOutOpen ==
  /\ pc["stream"] = "opening"
  /\ hWaveOut' \in {"open", "none"} /\ Forget
  /\ refused' = (hWaveOut' = "none")
  /\ raced' = closing
  /\ Goto("stream", "opened")
  /\ UNCHANGED <<macVars, INTFLAG_AUDIO, audio_irq_done_sem, muted, needed, abufs,
                 playing_sound_count, next_free_sound, back, block, sound_running>>

\* The flag is reset even when the device could not be opened.
StreamOpened ==
  /\ pc["stream"] = "opened"
  /\ needed' = FALSE
  /\ Goto("stream", "write")
  /\ UNCHANGED <<INTFLAG_AUDIO, audio_irq_done_sem, devVars, next_free_sound, block>>
  /\ streamUnchanged

Written == (next_free_sound + Buffers - 1) % Buffers

\* waveOutWrite() may fail; without a device the thread sleeps instead.
StreamWrite ==
  /\ pc["stream"] = "write"
  /\ \/ /\ hWaveOut = "open"
        /\ abufs' = [abufs EXCEPT ![Written] = "queued"]
        /\ playing' = playing \union {Written}
        /\ playing_sound_count' = playing_sound_count + 1
        /\ raced' = closing
     \/ UNCHANGED <<abufs, playing, playing_sound_count, raced>>
  /\ block' = 0
  /\ Goto("stream", "top")
  /\ UNCHANGED <<INTFLAG_AUDIO, audio_irq_done_sem, needed, hWaveOut, stray, lost,
                 next_free_sound>>
  /\ streamUnchanged

Stream ==
  \/ StreamTop \/ StreamRequest \/ StreamAck \/ StreamSilence \/ StreamFill \/ StreamOpen
  \/ waveOutOpen \/ StreamOpened \/ StreamWrite \/ Close("stream")

-----------------------------------------------------------------------------
(* The CPU thread.                                                         *)

cpuUnchanged ==
  UNCHANGED <<muted, needed, devVars, next_free_sound, pc, back, block, sound_running,
              refused>>

MutAudioInterrupt ==
  /\ pc["cpu"] = "run" /\ INTFLAG_AUDIO
  /\ INTFLAG_AUDIO' = FALSE
  /\ IF audio_data /\ mixer
     THEN fetched' = (fetched % MaxBlocks) + 1 /\ info' = fetched'
     ELSE info' = 0 /\ UNCHANGED fetched
  /\ audio_irq_done_sem' = IF audio_data THEN 1 ELSE 0
  /\ UNCHANGED <<audio_data, open_count, mixer, num_sources>>
  /\ cpuUnchanged

\* AudioInterrupt(): the mixer gives the next block, or the stream info is
\* cleared; in both cases the stream thread goes on.
AudioInterrupt ==
  /\ pc["cpu"] = "run" /\ INTFLAG_AUDIO
  /\ INTFLAG_AUDIO' = FALSE
  /\ IF audio_data /\ mixer
     THEN fetched' = (fetched % MaxBlocks) + 1 /\ info' = fetched'
     ELSE info' = 0 /\ UNCHANGED fetched
  /\ audio_irq_done_sem' = 1
  /\ UNCHANGED <<audio_data, open_count, mixer, num_sources>>
  /\ cpuUnchanged

ComponentCall ==
  /\ pc["cpu"] = "run"
  /\ UNCHANGED <<INTFLAG_AUDIO, audio_irq_done_sem, fetched>>
  /\ cpuUnchanged

\* kComponentOpenSelect
ComponentOpen ==
  /\ ComponentCall
  /\ open_count < MaxOpens
  /\ open_count' = open_count + 1
  /\ audio_data' = TRUE
  /\ info' = IF audio_data THEN info ELSE 0
  /\ UNCHANGED <<mixer, num_sources>>

\* kComponentCloseSelect: with a mixer the sources are not forgotten.
ComponentClose ==
  /\ ComponentCall
  /\ open_count > 0
  /\ open_count' = open_count - 1
  /\ mixer' = (mixer /\ open_count > 1)
  /\ num_sources' = IF open_count = 1 /\ ~ mixer THEN 0 ELSE num_sources
  /\ UNCHANGED <<audio_data, info>>

\* kSoundComponentInitOutputDeviceSelect, which the Mac calls on an open component.
InitOutputDevice ==
  /\ ComponentCall
  /\ open_count > 0 /\ audio_data
  /\ mixer' \in {mixer, TRUE} /\ info' = IF mixer THEN info ELSE 0
  /\ UNCHANGED <<audio_data, open_count, num_sources>>

AddSource ==
  /\ ComponentCall
  /\ mixer /\ audio_data /\ num_sources < MaxSources
  /\ num_sources' = num_sources + 1
  /\ UNCHANGED <<audio_data, open_count, mixer, info>>

RemoveSource ==
  /\ ComponentCall
  /\ mixer /\ audio_data /\ num_sources > 0
  /\ num_sources' = num_sources - 1
  /\ UNCHANGED <<audio_data, open_count, mixer, info>>

\* audio_set_main_mute(TRUE) closes the device.
Mute ==
  /\ pc["cpu"] = "run" /\ ~ muted
  /\ muted' = TRUE
  /\ Goto("cpu", "close")
  /\ UNCHANGED <<macVars, INTFLAG_AUDIO, audio_irq_done_sem, needed, devVars,
                 next_free_sound, back, block, sound_running, refused>>

\* audio_set_main_mute(FALSE), then update_sound_parameters().
Unmute ==
  /\ pc["cpu"] = "run" /\ muted
  /\ muted' = FALSE
  /\ Goto("cpu", "update")
  /\ UNCHANGED <<macVars, INTFLAG_AUDIO, audio_irq_done_sem, needed, devVars,
                 next_free_sound, back, block, sound_running, refused>>

MutUpdate ==
  /\ pc["cpu"] = "update"
  /\ needed' = TRUE /\ refused' = FALSE
  /\ Goto("cpu", "run")
  /\ UNCHANGED <<macVars, INTFLAG_AUDIO, audio_irq_done_sem, muted, devVars,
                 next_free_sound, back, block, sound_running>>

\* Under sound_csection.
update_sound_parameters ==
  /\ pc["cpu"] = "update" /\ ~ InSection
  /\ needed' = TRUE /\ refused' = FALSE
  /\ Goto("cpu", "run")
  /\ UNCHANGED <<macVars, INTFLAG_AUDIO, audio_irq_done_sem, muted, devVars,
                 next_free_sound, back, block, sound_running>>

\* A changed sample rate or size.  It is refused while there are sources.
SetParameters ==
  /\ pc["cpu"] = "run" /\ num_sources = 0
  /\ Goto("cpu", "update")
  /\ UNCHANGED <<macVars, INTFLAG_AUDIO, audio_irq_done_sem, muted, needed, devVars,
                 next_free_sound, back, block, sound_running, refused>>

\* EMUL_OP_RESET: the globals are gone, the rest of the state is kept.
Reset ==
  /\ Resets /\ ComponentCall
  /\ audio_data' = FALSE
  /\ UNCHANGED <<open_count, mixer, num_sources, info>>

CPU ==
  \/ AudioInterrupt \/ ComponentOpen \/ ComponentClose \/ InitOutputDevice
  \/ AddSource \/ RemoveSource \/ Mute \/ Unmute \/ update_sound_parameters
  \/ SetParameters \/ Reset \/ Close("cpu")

\* AudioExit(), on the main thread.
AudioExit ==
  /\ sound_running
  /\ sound_running' = FALSE /\ audio_irq_done_sem' = 1
  /\ UNCHANGED <<macVars, INTFLAG_AUDIO, muted, needed, devVars, next_free_sound, pc, back,
                 block, refused>>

SoundNext == Stream \/ CPU \/ AudioExit \/ Played

SoundSpec == SoundInit /\ [][SoundNext]_soundVars

\* The host schedules both threads and the device plays; the CPU thread gets
\* to an interrupt that is pending and returns from its calls.
SoundFairSpec ==
  /\ SoundSpec
  /\ WF_soundVars(Stream) /\ WF_soundVars(Played)
  /\ WF_soundVars(Close("cpu") \/ update_sound_parameters)
  /\ SF_soundVars(AudioInterrupt)

-----------------------------------------------------------------------------
StreamPCs == {"top", "close", "drain", "shut", "forget", "count", "wait", "empty", "fill",
              "open", "opening", "opened", "write", "ended"}
CpuPCs == {"run", "close", "drain", "shut", "forget", "update"}

\* The type invariant.
SoundTypeOK ==
  /\ {audio_data, mixer, INTFLAG_AUDIO, muted, needed, sound_running, lost, raced, refused}
       \subseteq BOOLEAN
  /\ hWaveOut \in {"none", "open", "stale"} /\ playing \subseteq Slots /\ stray \subseteq Slots
  /\ open_count \in 0 .. MaxOpens /\ num_sources \in 0 .. MaxSources
  /\ info \in {0} \union Blocks /\ fetched \in Blocks /\ block \in {0} \union Blocks
  /\ audio_irq_done_sem \in 0 .. 1
  /\ abufs \in [Slots -> {"free", "queued", "done"}]
  /\ next_free_sound \in Slots /\ playing_sound_count \in 0 .. Buffers
  /\ pc \in [Threads -> StreamPCs \union CpuPCs] /\ pc["stream"] \in StreamPCs /\ pc["cpu"] \in CpuPCs
  /\ back \in {"top", "count", "ended", "open"}

\* What the stream thread writes is the block it has asked for last: the mixer
\* does not produce another one before that one is written.
BlockIsCurrent ==
  /\ pc["stream"] \in {"fill", "open", "opening", "opened", "write"} => block = fetched
  /\ INTFLAG_AUDIO /\ sound_running => pc["stream"] = "wait"

\* No wave device is left open for ever without a handle.  The exception (raced)
\* is that the stream thread has opened the device, or written a block to it,
\* while the CPU thread was in close_sound(): there waveOutClose() fails, or
\* closes another device, and hWaveOut is set to 0 all the same.
DeviceKept == ~ lost

\* The stream thread does not wait forever for the Mac's interrupt, whatever
\* the Mac closes or resets meanwhile.
WaitEnds == (pc["stream"] = "wait") ~> (pc["stream"] # "wait")

\* A muted Mac gives up the wave device, even when it is being opened while the
\* Mac mutes: the device of hWaveOut is closed, and but for DeviceKept's
\* exception no other one is open.
MutedMeansClosed == muted ~> (~ muted \/ (hWaveOut # "open" /\ ~ lost))

\* While there is sound to play and the Mac is not muted the device is opened,
\* unless the host refuses it (which is not tried again before the parameters
\* change) or the Mac's blocks are empty.
UnmutedSoundReturns ==
  (~ muted /\ num_sources > 0)
    ~> (\/ hWaveOut = "open" \/ refused \/ pc["stream"] = "empty"
        \/ muted \/ num_sources = 0 \/ ~ mixer \/ pc["stream"] = "ended"
        \/ ~ audio_data \/ ~ sound_running)
=============================================================================
