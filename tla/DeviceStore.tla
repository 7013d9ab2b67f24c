---------------------------- MODULE DeviceStore ----------------------------
(***************************************************************************)
(* Where the E2EE identity lives (client.go and store.go of the bridge).    *)
(* Every change of the store is made under its lock and starts a goroutine  *)
(* that saves: it takes a snapshot under the lock, and then writes the file *)
(* or raises deviceDataChanged with no lock held, so that saves overlap and *)
(* overtake each other.  The adapter of the bot writes what is raised to a  *)
(* file of its own, and hands that file in at the next start.               *)
(***************************************************************************)
EXTENDS Integers, FiniteSets, Sequences

CONSTANTS Savers,      \* bound: saves that are under way at the same time
          MemoryOnly,  \* options.e2eeMemoryOnly at the starts: {FALSE}, {TRUE} or BOOLEAN
          ReadFaults,  \* may reading an existing file fail: {FALSE} or BOOLEAN
          MaxKey,      \* bound: pre-key ids
          MaxRest,     \* bound: identities, sessions and sender keys, by their size
          MaxEvents,   \* bound: deviceDataChanged events that wait
          MaxDevices   \* bound: devices ever created

ASSUME StoreAssumption == /\ MemoryOnly \subseteq BOOLEAN /\ ReadFaults \subseteq BOOLEAN
                          /\ MaxKey \in Nat /\ MaxRest \in Nat
                          /\ MaxEvents \in Nat /\ MaxDevices \in Nat \ {0}

VARIABLES proc,      \* the process: "down", "creating", "up"
          mode,      \* which of the three stores NewClient made: "memory", "data", "file"
          callback,  \* onDataChanged is set
          mem,       \* the maps of the store
          saver,     \* saver[s]: a goroutine running Save
          own,       \* e2ee_device.json, the file the bridge writes
          given,     \* device.json, the file the adapter writes
          events,    \* deviceDataChanged events on their way to the adapter
          devices,   \* devices created so far
          firstOwn,  \* the device own was created with, 0 for none (history)
          unread     \* a start could not read own, and replaced it (history)

storeVars == <<proc, mode, callback, mem, saver, own, given, events, devices, firstOwn, unread>>

Contents == [dev : 1 .. MaxDevices, keys : SUBSET (1 .. MaxKey),
             next : 1 .. MaxKey + 1, rest : 0 .. MaxRest]

Fresh(d) == [dev |-> d, keys |-> {}, next |-> 1, rest |-> 0]

\* How long the JSON of c is.
Size(c) == 1 + Cardinality(c.keys) + c.rest

\* A file is absent, or the JSON of some contents, or bytes that do not parse.
Absent   == [kind |-> "absent"]
Whole(c) == [kind |-> "whole", data |-> c]
Torn(n)  == [kind |-> "torn", len |-> n]
Files    == {Absent} \cup {Whole(c) : c \in Contents} \cup {Torn(n) : n \in 0 .. MaxKey + MaxRest + 1}

Length(f) == IF f.kind = "torn" THEN f.len ELSE Size(f.data)

\* write(2) at the start of the file: longer bytes that were there stick out behind.
Overwrite(f, c) == IF Length(f) <= Size(c) THEN Whole(c) ELSE Torn(Length(f))

Idle      == [pc |-> "idle"]
Asked     == [pc |-> "asked"]
Holds(c)  == [pc |-> "holds", data |-> c]
Opened(c) == [pc |-> "opened", data |-> c]
SaverStates == {Idle, Asked} \cup {Holds(c) : c \in Contents} \cup {Opened(c) : c \in Contents}

StoreInit == /\ proc = "down" /\ mode = "memory" /\ callback = FALSE
             /\ mem = Fresh(1)
             /\ saver = [s \in Savers |-> Idle]
             /\ own = Absent /\ given \in {Absent, Whole(Fresh(1))} /\ events = << >>
             /\ devices = 1 /\ firstOwn = 0 /\ unread = FALSE
-----------------------------------------------------------------------------
(* Starting: MessengerAdapter.connect, NewClient and its three constructors. *)

\* An empty file is handed in as "", which is no device data.
Handed == given.kind = "whole" \/ (given.kind = "torn" /\ given.len > 0)

Create == devices < MaxDevices /\ devices' = devices + 1 /\ mem' = Fresh(devices')

StartInMemory ==
    /\ proc = "down" /\ TRUE \in MemoryOnly
    /\ Create
    /\ proc' = "up" /\ mode' = "memory" /\ callback' = Handed
    /\ UNCHANGED <<saver, own, given, events, firstOwn, unread>>

\* Data that does not parse ends the start with an error.
StartFromData ==
    /\ proc = "down" /\ FALSE \in MemoryOnly /\ given.kind = "whole"
    /\ mem' = given.data
    /\ proc' = "up" /\ mode' = "data" /\ callback' = TRUE
    /\ UNCHANGED <<saver, own, given, events, devices, firstOwn, unread>>

StartFromFile == /\ FALSE \in MemoryOnly /\ ~ Handed /\ proc = "down"
                 /\ mode' = "file" /\ callback' = FALSE

\* Mutant: the counter is not read back.
LoadWithoutCounter ==
    /\ StartFromFile /\ own.kind = "whole"
    /\ mem' = [own.data EXCEPT !.next = 1] /\ proc' = "up"
    /\ UNCHANGED <<saver, own, given, events, devices, firstOwn, unread>>

Load ==
    /\ StartFromFile /\ own.kind = "whole"
    /\ mem' = own.data /\ proc' = "up"
    /\ UNCHANGED <<saver, own, given, events, devices, firstOwn, unread>>

\* Mutant: a file that does not parse is replaced as well.
CreateFileIfUnreadable ==
    /\ StartFromFile /\ own.kind \in {"absent", "torn"}
    /\ Create /\ own' = Torn(0)
    /\ proc' = "creating"
    /\ firstOwn' = IF firstOwn = 0 THEN devices' ELSE firstOwn
    /\ UNCHANGED <<saver, given, events, unread>>

\* Every error of os.ReadFile counts as "no such file": a new device is made, and
\* saved at once, the file being truncated first.
CreateFile ==
    /\ StartFromFile
    /\ own.kind = "absent" \/ TRUE \in ReadFaults
    /\ Create /\ own' = Torn(0)
    /\ proc' = "creating"
    /\ firstOwn' = IF firstOwn = 0 THEN devices' ELSE firstOwn
    /\ unread' = (unread \/ own.kind # "absent")
    /\ UNCHANGED <<saver, given, events>>

FileCreated ==
    /\ proc = "creating" /\ own' = Whole(mem) /\ proc' = "up"
    /\ UNCHANGED <<mode, callback, mem, saver, given, events, devices, firstOwn, unread>>
-----------------------------------------------------------------------------
(* Changes: the store interface of whatsmeow, each under the lock. *)

GoSave == \E s \in Savers : saver[s] = Idle /\ saver' = [saver EXCEPT ![s] = Asked]

Change(c) == /\ proc = "up" /\ mem' = c /\ GoSave
             /\ UNCHANGED <<proc, mode, callback, own, given, events, devices, firstOwn, unread>>

\* GetOrGenPreKeys, and GenOnePreKey with n = 1.
GenPreKeys(n) ==
    /\ mem.next + n <= MaxKey + 1
    /\ Change([mem EXCEPT !.keys = @ \cup mem.next .. mem.next + n - 1, !.next = @ + n])

RemovePreKey(k) == k \in mem.keys /\ Change([mem EXCEPT !.keys = @ \ {k}])

\* Put and Delete of identities, sessions and sender keys; PutDevice and the Save of
\* ConnectE2EE, which change nothing.
Put(size) == Change([mem EXCEPT !.rest = size])
-----------------------------------------------------------------------------
(* Save, in a goroutine. *)

Snapshot(s) ==
    /\ saver[s] = Asked
    /\ saver' = [saver EXCEPT ![s] = IF mode = "file" \/ callback THEN Holds(mem) ELSE Idle]
    /\ UNCHANGED <<proc, mode, callback, mem, own, given, events, devices, firstOwn, unread>>

\* os.WriteFile: open with O_TRUNC, then write.
OpenFile(s) ==
    /\ saver[s].pc = "holds" /\ mode = "file"
    /\ own' = Torn(0)
    /\ saver' = [saver EXCEPT ![s] = Opened(saver[s].data)]
    /\ UNCHANGED <<proc, mode, callback, mem, given, events, devices, firstOwn, unread>>

WriteFile(s) ==
    /\ saver[s].pc = "opened"
    /\ own' = Overwrite(own, saver[s].data)
    /\ saver' = [saver EXCEPT ![s] = Idle]
    /\ UNCHANGED <<proc, mode, callback, mem, given, events, devices, firstOwn, unread>>

\* The event is dropped when the channel, which all events share, is full.
Raise(s) ==
    /\ saver[s].pc = "holds" /\ mode # "file"
    /\ \/ Len(events) < MaxEvents /\ events' = Append(events, saver[s].data)
       \/ UNCHANGED events
    /\ saver' = [saver EXCEPT ![s] = Idle]
    /\ UNCHANGED <<proc, mode, callback, mem, own, given, devices, firstOwn, unread>>

\* The adapter's listener: writeFileSync.
AdapterWrites ==
    /\ proc = "up" /\ events # << >>
    /\ given' = Whole(Head(events)) /\ events' = Tail(events)
    /\ UNCHANGED <<proc, mode, callback, mem, saver, own, devices, firstOwn, unread>>

\* The process ends, also in the middle of a write.
Crash ==
    /\ proc # "down"
    /\ proc' = "down" /\ saver' = [s \in Savers |-> Idle] /\ events' = << >>
    /\ \/ UNCHANGED given
       \/ events # << >> /\ given' = Torn(0)
    /\ UNCHANGED <<mode, callback, mem, own, devices, firstOwn, unread>>

StoreNext == \/ StartInMemory \/ StartFromData \/ Load \/ CreateFile \/ FileCreated
             \/ \E n \in 1 .. MaxKey : GenPreKeys(n)
             \/ \E k \in 1 .. MaxKey : RemovePreKey(k)
             \/ \E size \in 0 .. MaxRest : Put(size)
             \/ \E s \in Savers : Snapshot(s) \/ OpenFile(s) \/ WriteFile(s) \/ Raise(s)
             \/ AdapterWrites \/ Crash

StoreSpec == StoreInit /\ [][StoreNext]_storeVars
-----------------------------------------------------------------------------
StoreTypeOK == /\ proc \in {"down", "creating", "up"}
               /\ mode \in {"memory", "data", "file"} /\ callback \in BOOLEAN
               /\ mem \in Contents /\ saver \in [Savers -> SaverStates]
               /\ own \in Files /\ given \in Files /\ events \in Seq(Contents)
               /\ devices \in 1 .. MaxDevices /\ firstOwn \in 0 .. MaxDevices
               /\ unread \in BOOLEAN

\* Everything of the store that is in memory, under way, or in a whole file.
InFlight == {saver[s].data : s \in {x \in Savers : saver[x].pc \in {"holds", "opened"}}}
OnDisk   == {f.data : f \in {x \in {own, given} : x.kind = "whole"}}
Copies   == {mem} \cup InFlight \cup {events[i] : i \in DOMAIN events} \cup OnDisk

\* The counter is ahead of the keys in every copy a later start may load, however
\* saves overtook each other and wherever a crash hit.
CounterAhead == \A c \in Copies : \A k \in c.keys : k < c.next

StoreInv == StoreTypeOK /\ CounterAhead

\* Generating pre-keys never replaces one the store still holds: a session opened
\* with that key could not be answered any more.
NoPreKeyReplaced ==
    [][proc = "up" => mem.keys \cap (mem.next .. mem'.next - 1) = {}]_storeVars

\* The file of the bridge stands for one device for ever: a start comes up as that
\* device or not at all, until a start finds a file it cannot read.
SameDevice ==
    ~ unread =>
        /\ (mode = "file" /\ proc # "down") => mem.dev = firstOwn
        /\ own.kind = "whole" => own.data.dev = firstOwn
=============================================================================
