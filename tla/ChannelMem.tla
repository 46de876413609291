----------------------------- MODULE ChannelMem -----------------------------
(***************************************************************************)
(* The memory of a channel from its creation to its end: the Machnet       *)
(* process creates it on huge pages or, when any step of that fails, as    *)
(* POSIX shared memory, initialises it, registers it with the device and   *)
(* destroys it (src/ext/machnet_private.h,                                 *)
(* src/core/drivers/shm/channel.cc); the application maps it through the   *)
(* descriptor it is sent (machnet_bind in src/ext/machnet.c). Every system *)
(* call may fail.                                                          *)
(***************************************************************************)
EXTENDS ChannelLayout

CONSTANTS
  Params,      \* parameters channels are created with
  ZeroCopy,    \* kShmZeroCopyEnabled
  MaxCreates   \* bound: calls of AddChannel, all with one name

ASSUME MemAssumption ==
  /\ Params \subseteq [machnet_slots: Nat, app_slots: Nat, buf_slots: Nat,
                       buffer_size: Nat]
  /\ ZeroCopy \in BOOLEAN /\ MaxCreates \in Nat

VARIABLES
  mem,     \* the side of the Machnet process: where its call is, what it holds
  client,  \* the application: whether it is bound, to which of the channels that
           \* were created, and what it holds
  creates  \* calls of AddChannel so far

memVars == <<mem, client, creates>>

None == [machnet_slots |-> 0, app_slots |-> 0, buf_slots |-> 0,
         buffer_size |-> 0]

\* held: the open descriptor, the mapping, the name in the file system and the
\* registration for DMA.
MemInit ==
  /\ mem = [pc |-> "none", par |-> None, posix |-> FALSE, size |-> 0,
            held |-> {}, magic |-> FALSE]
  /\ client = [pc |-> "none", held |-> {}, par |-> None, posix |-> FALSE,
            size |-> 0, of |-> 0]
  /\ creates = 0

-----------------------------------------------------------------------------
\* What the steps of a creation hold when the call "fault" fails.
Faults == {"none", "create", "ftruncate", "mmap", "mlock"}

Acquired(posix, fault) ==
  LET file == {"fd"} \cup (IF posix THEN {"name"} ELSE {})
  IN  IF fault = "create" THEN {}
      ELSE IF fault \in {"ftruncate", "mmap"} THEN file
      ELSE file \cup {"map"}

\* The fail label of both functions.
\* (Mutation: the name stays.)
Undo_name(held) == held \ {"map", "fd"}

Undo(held) == held \ {"map", "fd", "name"}

\* __machnet_channel_create begins: the size for huge pages.
CreateBegins(p) ==
  [mem EXCEPT !.pc = "huge", !.par = p, !.posix = FALSE,
              !.size = CalculateSize(p, FALSE), !.magic = FALSE]

AddChannel(p) ==
  /\ mem.pc = "none" /\ creates < MaxCreates
  /\ creates' = creates + 1
  /\ mem' = CreateBegins(p)
  /\ UNCHANGED client

\* The outcome of one of the two ways to create the memory.
Created(fault, next) ==
  IF fault = "none"
  THEN [mem EXCEPT !.pc = "mapped", !.held = @ \cup Acquired(mem.posix, fault)]
  ELSE [mem EXCEPT !.pc = next, !.held = @ \cup Undo(Acquired(mem.posix, fault))]

\* __machnet_channel_hugetlbfs_create. A size that is not a multiple of the huge
\* page, (size_t)-1 among them, fails at once.
HugetlbfsCreate(fault) ==
  /\ mem.pc = "huge"
  /\ mem.size % HUGE_PAGE_2M_SIZE # 0 => fault = "create"
  /\ mem' = Created(fault, "fallback")
  /\ UNCHANGED <<client, creates>>

\* The fallback: the size for small pages.
Fallback ==
  /\ mem.pc = "fallback"
  /\ mem' = [mem EXCEPT !.pc = "posix", !.posix = TRUE,
                        !.size = CalculateSize(mem.par, TRUE)]
  /\ UNCHANGED <<client, creates>>

\* __machnet_channel_posix_create. shm_open with O_EXCL fails when the name
\* exists, ftruncate to (size_t)-1 fails.
PosixCreate(fault) ==
  /\ mem.pc = "posix"
  /\ "name" \in mem.held => fault = "create"
  /\ mem.size = Bad => fault \in {"create", "ftruncate"}
  /\ mem' = Created(fault, "none")
  /\ UNCHANGED <<client, creates>>

\* __machnet_channel_destroy.
Destroyed(m) ==
  [m EXCEPT !.pc = "none",
            !.held = @ \ ({"map", "fd", "dma"}
                          \cup IF m.posix THEN {"name"} ELSE {})]

\* __machnet_channel_dataplane_init, which fails when the size does not fit or
\* malloc fails; the magic is written last.
DataplaneInit(ok) ==
  /\ mem.pc = "mapped"
  /\ LET total == CalculateSize(mem.par, mem.posix)
     IN  ok => total # Bad /\ total <= mem.size
  /\ mem' = IF ok THEN [mem EXCEPT !.pc = "created", !.magic = TRUE]
                  ELSE [Destroyed(mem) EXCEPT !.size = 0]
  /\ UNCHANGED <<client, creates>>

\* RegisterMemForDMA, called for a channel that is ready when the build has
\* zero-copy; a failure ends the process (CHECK in CreateChannel), and leaves
\* nothing but the name.
RegisterMemForDMA(ok) ==
  /\ ZeroCopy /\ mem.pc = "created" /\ "dma" \notin mem.held /\ client.pc = "none"
  /\ buf_pool_ofs(mem.par, mem.posix) % Page(mem.posix) = 0 \/ ~ok
  /\ mem' = IF ok THEN [mem EXCEPT !.held = @ \cup {"dma"}]
                  ELSE [mem EXCEPT !.pc = "aborted", !.held = @ \cap {"name"}]
  /\ UNCHANGED <<client, creates>>

\* ~Channel and ~ShmChannel, when the last pointer to the channel goes: the
\* registration goes before the mapping.
Destroy ==
  /\ mem.pc = "created"
  /\ mem' = Destroyed(mem)
  /\ UNCHANGED <<client, creates>>

-----------------------------------------------------------------------------
\* machnet_bind: the descriptor comes with the response to machnet_attach. It is
\* closed when a call fails or the magic is not there, and kept on success.
machnet_bind(ok) ==
  /\ ZeroCopy => "dma" \in mem.held
  /\ mem.pc = "created" /\ client.pc = "none"
  /\ ok => mem.magic
  /\ client' = IF ok
               THEN [pc |-> "bound", held |-> {"fd", "map"}, par |-> mem.par,
                     posix |-> mem.posix, size |-> mem.size, of |-> creates]
               ELSE client
  /\ UNCHANGED <<mem, creates>>

\* The application ends. Its memory stays until then, also when the Machnet
\* process has destroyed its own mapping.
ClientExit ==
  /\ client.pc = "bound"
  /\ client' = [pc |-> "none", held |-> {}, par |-> None, posix |-> FALSE,
                size |-> 0, of |-> 0]
  /\ UNCHANGED <<mem, creates>>

MemNext ==
  \/ \E p \in Params : AddChannel(p)
  \/ \E fault \in Faults : HugetlbfsCreate(fault) \/ PosixCreate(fault)
  \/ Fallback
  \/ \E ok \in BOOLEAN :
       DataplaneInit(ok) \/ RegisterMemForDMA(ok) \/ machnet_bind(ok)
  \/ Destroy
  \/ ClientExit

MemSpec == MemInit /\ [][MemNext]_memVars

-----------------------------------------------------------------------------
\* A creation that failed at any of its system calls, and a channel that was
\* destroyed, leave nothing behind in the Machnet process: no descriptor, no
\* mapping, no name that would make the next creation fail, no registration.
NothingLeaked == mem.pc \in {"none", "huge", "fallback", "posix"} => mem.held = {}

\* The layout that both sides compute addresses with fits the memory each of
\* them has mapped, also after the fallback to the other page size.
Sound(par, posix, size) ==
  /\ AreasSound(par, posix, size)
  /\ BuffersSound(par, posix, size)
  /\ PagesSound(par, posix, size)

LayoutSound ==
  /\ mem.pc = "created" => Sound(mem.par, mem.posix, mem.size)
  /\ client.pc = "bound" => Sound(client.par, client.posix, client.size)
=============================================================================
