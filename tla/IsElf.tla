------------------------------- MODULE IsElf --------------------------------
(***************************************************************************)
(* is-elf.c: name those of the arguments that are ELF files.  Files may be *)
(* truncated by others while is-elf works; the byte order of the last file *)
(* and the descriptors are what one file could leave to the next.          *)
(***************************************************************************)
EXTENDS Integers, Sequences

CONSTANTS
  Files,    \* what the arguments may name
  MaxArgs,  \* bound: the number of arguments
  FdMax     \* descriptors that may be open

\* A field of several bytes is a number, and the order of its bytes; the
\* signature is a number in the order "msb".
Field == [value : Nat, order : {"lsb", "msb"}]

\* e_ident by its parts, then the fields that have a byte order.
Header ==
  [sig : Field, class : Nat, data : Nat, version : Nat, osabi : Nat,
   type : Field, machine : Field, eversion : Field]

\* long is whether there are as many bytes as an Elf32_Ehdr has.
\* Assumed of the constants by whoever takes an instance.
FileAssumption ==
  /\ Files \subseteq [opens : BOOLEAN, regular : BOOLEAN, long : BOOLEAN, ehdr : Header]
  /\ MaxArgs \in Nat /\ FdMax \in Nat \ {0}

VARIABLES
  disk,       \* the files named by the arguments
  at, pc,     \* the argument is_elf() is at, and the step
  bo_target,  \* the byte order of the file before, and then of this one
  fds,        \* descriptors open
  n_buf,      \* the header read
  listed,     \* the arguments printed
  seen        \* history: what was read of each argument, a header or nothing

evars == <<disk, at, pc, bo_target, fds, n_buf, listed, seen>>

Signature == 16777216 * 127 + 65536 * 69 + 256 * 76 + 70
None == 0  \* ELFDATANONE, and ELFDATA2LSB and ELFDATA2MSB
Lsb  == 1
Msb  == 2
EvCurrent == 1
Classes == {1, 2}                    \* ELFCLASS32, ELFCLASS64
Abis    == {0, 3}                    \* ELFOSABI_SYSV, ELFOSABI_GNU
Types   == {1, 2, 3}                 \* ET_REL, ET_EXEC, ET_DYN
Machines == {3, 21, 22, 62, 183}     \* EM_386, PPC64, S390, X86_64, AARCH64

-----------------------------------------------------------------------------
EInit ==
  /\ disk \in UNION {[1 .. n -> Files] : n \in 0 .. MaxArgs}
  /\ at = 1 /\ pc = "open" /\ bo_target = None /\ fds = 0 /\ n_buf = <<>>
  /\ listed = <<>> /\ seen = [i \in DOMAIN disk |-> {}]

Busy(step) == at <= Len(disk) /\ pc = step

\* A mutant of Cleanup: the file stays open.
CleanupOpen == at' = at + 1 /\ pc' = "open" /\ UNCHANGED fds

\* cleanup: the file is closed if it is open.
Cleanup == at' = at + 1 /\ pc' = "open" /\ fds' = 0

\* open(2) fails for its own reasons, or because too many are open.
Open ==
  /\ Busy("open")
  /\ IF disk[at].opens /\ fds < FdMax
     THEN fds' = fds + 1 /\ pc' = "stat" /\ UNCHANGED at
     ELSE at' = at + 1 /\ UNCHANGED <<fds, pc>>
  /\ UNCHANGED <<disk, bo_target, n_buf, listed, seen>>

\* fstat(2): what it is, and long enough.
Stat ==
  /\ Busy("stat")
  /\ IF disk[at].regular /\ disk[at].long THEN pc' = "read" /\ UNCHANGED <<at, fds>> ELSE Cleanup
  /\ UNCHANGED <<disk, bo_target, n_buf, listed, seen>>

\* read(2) of a header: less may be there by now; then close(2).
ReadHeader ==
  /\ Busy("read")
  /\ IF disk[at].long
     THEN /\ n_buf' = disk[at].ehdr /\ seen' = [seen EXCEPT ![at] = {disk[at].ehdr}]
          /\ fds' = fds - 1 /\ pc' = "judge" /\ UNCHANGED at
     ELSE Cleanup /\ UNCHANGED <<n_buf, seen>>
  /\ UNCHANGED <<disk, bo_target, listed>>

\* u16toh() and u32toh(): bytes taken in the other order make another number,
\* here a negative one, but for 0.
ToHost(field, bo) ==
  IF field.order = (IF bo = Lsb THEN "lsb" ELSE "msb") THEN field.value ELSE -field.value

\* A mutant of FirstOrder: what the file before has left.
FirstOrderKept == bo_target

\* The order the signature is read in.
FirstOrder == None

\* The checks up to the byte order, and the ones after.
Marked(h) == ToHost(h.sig, FirstOrder) = Signature /\ h.class \in Classes

Known(h) ==
  /\ h.data \in {Lsb, Msb} /\ h.version = EvCurrent /\ h.osabi \in Abis
  /\ ToHost(h.type, h.data) \in Types
  /\ ToHost(h.machine, h.data) \in Machines
  /\ ToHost(h.eversion, h.data) = EvCurrent

Judge ==
  /\ Busy("judge")
  /\ bo_target' = IF Marked(n_buf) THEN n_buf.data ELSE FirstOrder
  /\ listed' = IF Marked(n_buf) /\ Known(n_buf) THEN Append(listed, at) ELSE listed
  /\ at' = at + 1 /\ pc' = "open" /\ UNCHANGED <<disk, fds, n_buf, seen>>

\* Another process truncates a file.
Truncate(i) ==
  /\ disk[i].long /\ disk' = [disk EXCEPT ![i].long = FALSE]
  /\ UNCHANGED <<at, pc, bo_target, fds, n_buf, listed, seen>>

Ended == at > Len(disk) /\ UNCHANGED evars

ENext == Open \/ Stat \/ ReadHeader \/ Judge \/ Ended \/ \E i \in DOMAIN disk : Truncate(i)

ESpec == EInit /\ [][ENext]_evars

-----------------------------------------------------------------------------
(* Properties. *)

\* An ELF header, whose fields have the order that it says.
IsElfHeader(h) ==
  /\ h.sig = [value |-> Signature, order |-> "msb"]
  /\ h.class \in Classes /\ h.version = EvCurrent /\ h.osabi \in Abis
  /\ \E order \in {"lsb", "msb"} :
       /\ h.data = IF order = "lsb" THEN Lsb ELSE Msb
       /\ {h.type.order, h.machine.order, h.eversion.order} = {order}
  /\ h.type.value \in Types /\ h.machine.value \in Machines /\ h.eversion.value = EvCurrent

\* OwnVerdict: an argument is listed if and only if what was read of it is an
\* ELF header of a kind that is wanted, whatever the byte order of the files
\* before it, once and in the order of the arguments (is-elf.c is_elf(), where
\* bo_target is one for all files).
OwnVerdict ==
  pc = "open" =>
    /\ {listed[k] : k \in DOMAIN listed} = {i \in 1 .. at - 1 : \E h \in seen[i] : IsElfHeader(h)}
    /\ \A j, k \in DOMAIN listed : j < k => listed[j] < listed[k]

\* NoneSkipped: a file is passed over unread only for what it is itself, never
\* for what the files before it were: each way out of is_elf() gives back the
\* descriptor (is-elf.c cleanup).
NoneSkipped ==
  \A i \in 1 .. at - 1 :
    seen[i] = {} => ~disk[i].opens \/ ~disk[i].regular \/ ~disk[i].long

\* EachByItself: no file is judged, or passed over, for what another one was
\* (is-elf.c is_elf()).
EachByItself == OwnVerdict /\ NoneSkipped
=============================================================================
