------------------------------- MODULE Canmat --------------------------------
(***************************************************************************)
(* The shell tool canmat (canmat.c, probe.c, with dict.c, util.c and the   *)
(* interface modules it opens): processes run by users, each of which      *)
(* opens its interfaces, runs one command and ends.  Several run at the    *)
(* same time on the same buses - a dump in one terminal, an access in      *)
(* another, a simulated node in a third - and each socket receives what    *)
(* the others send.                                                        *)
(*                                                                         *)
(* The nodes are SDO servers (external).  What an access does under other  *)
(* traffic is SdoClient's subject, and the accesses of map-rpdo are        *)
(* PdoRemap's; here it is what a command's arguments come to, on the wire, *)
(* in the node, on the screen and in the exit status.  The bit rate of an  *)
(* adapter (set, info) is left out.                                        *)
(***************************************************************************)
EXTENDS Display, Sequences, FiniteSets, SequencesExt

CONSTANTS
  Proc,       \* the terminals canmat is run in, one process at a time each
  Present,    \* Present[bus]: the nodes on a bus; its domain are the buses
  ObjType,    \* ObjType[ix]: the type of an object of the nodes
  Sized,      \* buses whose nodes state the length of an answer (bit s)
  Api,        \* the interface modules dlopen finds
  Commands,   \* Commands[p]: the command lines typed in terminal p
  Fixed,      \* Fixed[b]: the objects the nodes on b do not let be written
  Initial,    \* Initial[bus][node][ix]: the numbers the nodes' objects begin with
  NodeMask,   \* CANMAT_NODE_MASK
  PdoMax,     \* PDO_MAX
  ComBase,    \* CANMAT_RPDO_COM_BASE
  MapBase,    \* CANMAT_RPDO_MAP_BASE
  MaxCmds,    \* bound: command lines typed
  MaxFails    \* bound: failed calls of an interface

\* A sequence, of anything.
IsSeq(s) == s \in Seq({s[k] : k \in DOMAIN s})

ASSUME FrameAssumption == \A p \in Proc : \A c \in Commands[p] :
                             c.op = "send" => c.frame \in Frame
ASSUME IfaceAssumption == \A p \in Proc : \A c \in Commands[p] : IsSeq(c.ifs)
ASSUME BoundAssumption == MaxCmds \in Nat /\ MaxFails \in Nat

Bus == DOMAIN Present

VARIABLES
  run,    \* run[p]: the process in terminal p
  net,    \* net[b][n]: requests on their way to a node
  od,     \* od[b][n][ix]: the words in the object dictionaries of the nodes
  given,  \* given[b][n][ix]: the number that was last downloaded (history)
  typed,  \* command lines typed so far
  fails   \* failed interface calls so far

vars == <<run, net, od, given, typed, fails>>

Key(index, subindex) == index * Byte + subindex

Idle == [pc |-> "ended", cmd |-> [op |-> "none"], bus |-> <<>>, rx |-> <<>>, out |-> <<>>,
         ok |-> TRUE, alone |-> FALSE, before |-> Junk, arrived |-> <<>>,
         ready |-> {}, errs |-> {}, at |-> [field |-> "com", i |-> 0, j |-> 0],
         com_size |-> 0, map_size |-> 0]

(***************************************************************************)
(* What a process checks before it sends anything.  A failed check is a    *)
(* hard_assert: it aborts.                                                 *)
(***************************************************************************)
\* canmat_iface_new: lookup and load find a module
canmat_iface_new(api) == api \in Api

\* v_open of the two modules: the device is there; only a socket is a descriptor
Opens(i) == i.bus \in Bus
HasFd(i) == i.api = "socketcan"

\* open_iface for each -f; poll needs a descriptor
IfacesOpen(c) ==
  /\ c.ifs # <<>>
  /\ \A i \in DOMAIN c.ifs : canmat_iface_new(c.ifs[i].api) /\ Opens(c.ifs[i])
  /\ Len(c.ifs) > 1 => \A i \in DOMAIN c.ifs : HasFd(c.ifs[i])

\* parse_uhex, parse_u
InRange(text, max) == ~ErangeUlong(text) /\ strtoul(text) <= max

\* canmat_dict_search_name over the table canmatc sorted
canmat_dict_search_name(name) == name \in DOMAIN Dictionary

\* Mutant: only the type is looked at, not what canmat_typed_parse says of the text.
DownloadAcceptedUnparsed(c) ==
  /\ canmat_dict_search_name(c.name)
  /\ Dictionary[c.name].var
  /\ Dictionary[c.name].type \in DOMAIN Width

\* canmat_obj_dl_str and canmat_obj_dl up to the request
DownloadAccepted(c) ==
  /\ canmat_dict_search_name(c.name)
  /\ Dictionary[c.name].var
  /\ canmat_typed_parse(Dictionary[c.name].type, c.text).ok

UploadAccepted(c) == canmat_dict_search_name(c.name) /\ Dictionary[c.name].var

ToNode(c) == c.op \in {"dict-dl", "dict-ul", "probe", "nmt", "ul-resp", "dl-resp"}
Listens(c) == c.op \in {"dump", "display"}
Access(c) == c.op \in {"dict-dl", "dict-ul", "probe"}

ArgsAccepted(c) ==
  /\ c.op \notin {"ul", "dl"}                          \* assert(0)
  /\ ToNode(c) => InRange(c.node, NodeMask)
  /\ Access(c) \/ c.op = "nmt" => Len(c.ifs) = 1
  /\ c.op = "dict-dl" => DownloadAccepted(c)
  /\ c.op = "dict-ul" => UploadAccepted(c)
  /\ c.op = "dl-resp" => c.data = <<>>
  /\ c.op = "ul-resp" => Len(c.data) <= 4

(***************************************************************************)
(* The bus.                                                                *)
(***************************************************************************)
\* r after frame f was sent: sent holds <<bus, handle>> for each time it was, and the
\* handle <<p, i>> that sent it on a bus does not get it there.
Deliver(r, f, sent) ==
  [q \in Proc |->
    LET copies(i) == Cardinality({s \in sent : s[1] = r[q].bus[i] /\ s[2] # <<q, i>>})
        add(s)    == [i \in DOMAIN s |-> s[i] \o [k \in 1 .. copies(i) |-> f]]
    IN [r[q] EXCEPT !.rx = add(@), !.arrived = add(@)]]

Nobody == <<>>

\* net after frame f was sent likewise: a node serves a request once for each time.
\* number is what the sender means by its data (history).
Requested(f, number, sent) ==
  [b \in Bus |-> [n \in Present[b] |->
    LET copies == IF f.func = "sdo_rx" /\ f.node = n
                  THEN Cardinality({s \in sent : s[1] = b}) ELSE 0
    IN net[b][n] \o [k \in 1 .. copies |-> [frame |-> f, number |-> number]]]]

Target(c) == <<c.ifs[1].bus, strtoul(c.node)>>

\* Processes whose access to (b, n) is under way.
Accessing(b, n) ==
  {p \in Proc : run[p].pc # "ended" /\ Access(run[p].cmd) /\ Target(run[p].cmd) = <<b, n>>}

\* The processes in ps have lost the node to themselves.
Disturb(r, ps) == [p \in Proc |-> [r[p] EXCEPT !.alone = @ /\ p \notin ps]]

End(ok, out) == [Idle EXCEPT !.ok = ok, !.out = out]

(***************************************************************************)
(* main: the interfaces, the arguments, the command.                       *)
(***************************************************************************)
FirstPc(c) == CASE Access(c)     -> "send"
                [] Listens(c)    -> "poll"
                [] OTHER         -> "once"

Start(p, c) ==
  /\ run[p].pc = "ended" /\ typed < MaxCmds
  /\ typed' = typed + 1
  /\ IF ~(IfacesOpen(c) /\ ArgsAccepted(c))
     THEN run' = [run EXCEPT ![p] = End(FALSE, <<>>)]
     ELSE LET b == Target(c)[1]
              n == Target(c)[2]
              others == IF Access(c) THEN Accessing(b, n) ELSE {}
              object == Dictionary[c.name].ix
          IN run' = [Disturb(run, others) EXCEPT ![p] =
               [Idle EXCEPT
                  !.cmd = c, !.pc = FirstPc(c),
                  !.bus = [i \in DOMAIN c.ifs |-> c.ifs[i].bus],
                  !.rx = [i \in DOMAIN c.ifs |-> <<>>],
                  !.arrived = IF Listens(c) THEN [i \in DOMAIN c.ifs |-> <<>>] ELSE <<>>,
                  !.alone = Access(c) /\ others = {} /\ n \in Present[b] /\ net[b][n] = <<>>,
                  !.before = IF c.op \in {"dict-dl", "dict-ul"} /\ n \in Present[b]
                                  /\ object \in DOMAIN od[b][n]
                             THEN od[b][n][object] ELSE Junk]]
  /\ UNCHANGED <<net, od, given, fails>>

(***************************************************************************)
(* dict-dl, dict-ul and probe: accesses one after the other.               *)
(***************************************************************************)
\* Mutant: the loop over the mapped objects begins at subindex 0.
ProbeObjectFromZero(at) ==
  LET com == ComBase + at.i
      map == MapBase + at.i
  IN CASE at.field = "com"   -> [ix |-> Key(com, 0), type |-> "u8"]
       [] at.field = "cob"   -> [ix |-> Key(com, 1), type |-> "u32"]
       [] at.field = "trans" -> [ix |-> Key(com, 2), type |-> "u8"]
       [] at.field = "map"   -> [ix |-> Key(map, 0), type |-> "u8"]
       [] at.field = "entry" -> [ix |-> Key(map, at.j), type |-> "u32"]

\* canmat_probe_pdo: what is read at each place of its loops
ProbeObject(at) ==
  LET com == ComBase + at.i
      map == MapBase + at.i
  IN CASE at.field = "com"   -> [ix |-> Key(com, 0), type |-> "u8"]
       [] at.field = "cob"   -> [ix |-> Key(com, 1), type |-> "u32"]
       [] at.field = "trans" -> [ix |-> Key(com, 2), type |-> "u8"]
       [] at.field = "map"   -> [ix |-> Key(map, 0), type |-> "u8"]
       [] at.field = "entry" -> [ix |-> Key(map, 1 + at.j), type |-> "u32"]

\* The request of the access a process is at.
Req(r) ==
  LET o == IF r.cmd.op = "probe" THEN ProbeObject(r.at) ELSE Dictionary[r.cmd.name]
  IN [node |-> strtoul(r.cmd.node), ix |-> o.ix, type |-> o.type,
      cs |-> IF r.cmd.op = "dict-dl" THEN CcsExDl ELSE CcsExUl,
      data |-> IF r.cmd.op = "dict-dl" THEN canmat_typed_parse(o.type, r.cmd.text).data
               ELSE Junk]

\* The number a download asks for.
Asked(c) == IF c.op = "dict-dl" THEN Meant(Dictionary[c.name].type, c.text) ELSE 0

SendRequest(p) ==
  /\ run[p].pc = "send"
  /\ LET b == run[p].bus[1]
         req == Req(run[p])
         f == canmat_sdo2can(req, FALSE)
         sent == {<<b, <<p, 1>>>>}
     IN /\ run' = [Deliver(run, f, sent) EXCEPT ![p].pc = "recv"]
        /\ net' = Requested(f, Asked(run[p].cmd), sent)
  /\ UNCHANGED <<od, given, typed, fails>>

SkipFrame(p) ==
  /\ run[p].pc = "recv" /\ run[p].rx[1] # <<>>
  /\ LET f == Head(run[p].rx[1])
     IN ~(f.func = "sdo_tx" /\ f.node = strtoul(run[p].cmd.node))
  /\ run' = [run EXCEPT ![p].rx[1] = Tail(@)]
  /\ UNCHANGED <<net, od, given, typed, fails>>

\* Where canmat_probe_pdo goes on after it has printed what it read.
NextPdo(r) ==
  IF r.at.i + 1 < PdoMax
  THEN [r EXCEPT !.pc = "send", !.at = [field |-> "com", i |-> r.at.i + 1, j |-> 0]]
  ELSE End(TRUE, r.out)

GoOn(r, field) == [r EXCEPT !.pc = "send", !.at.field = field]

AfterRead(r) ==
  CASE r.at.field = "com" -> GoOn(r, IF r.com_size > 0 THEN "cob" ELSE "map")
    [] r.at.field = "cob" -> GoOn(r, IF r.com_size > 1 THEN "trans" ELSE "map")
    [] r.at.field = "trans" -> GoOn(r, "map")
    [] r.at.field = "map" -> IF r.map_size > 0 THEN GoOn(r, "entry") ELSE NextPdo(r)
    [] r.at.field = "entry" -> IF r.at.j + 1 < r.map_size
                               THEN [GoOn(r, "entry") EXCEPT !.at.j = @ + 1]
                               ELSE NextPdo(r)

\* What is printed of a word: of a mapped object its name and its bits.
Shown(field, w) ==
  IF field = "entry" THEN <<canmat_dict_search_index(w \div Byte), w % Byte>> ELSE <<w>>

ProbeRead(r, w) ==
  AfterRead([r EXCEPT !.com_size = IF r.at.field = "com" THEN w ELSE @,
                      !.map_size = IF r.at.field = "map" THEN w ELSE @,
                      !.out = Append(@, <<r.at.i, r.at.field>> \o Shown(r.at.field, w))])

\* canmat_obj_print: types without a case print nothing.  The hexadecimal number of
\* an unsigned type; the decimal one beside it is printed as if signed.
Printed(t, w) == IF t \in Signed \union Unsigned THEN <<Value(t, w)>> ELSE <<>>

RecvResponse(p) ==
  /\ run[p].pc = "recv" /\ run[p].rx[1] # <<>>
  /\ LET f    == Head(run[p].rx[1])
         r    == [run[p] EXCEPT !.rx[1] = Tail(@)]
         t    == Req(r).type
         resp == canmat_can2sdo(f, t)
         \* memcpy( val, &resp.data, resp.length )
         val  == Store(resp.data, resp.length)
     IN /\ f.func = "sdo_tx" /\ f.node = strtoul(r.cmd.node)
        /\ run' = [run EXCEPT ![p] =
             IF r.cmd.op = "probe" /\ resp.status = "ERR_ABORT" /\ r.at.field = "com"
             THEN NextPdo(r)
             ELSE IF resp.status # "OK" \/ (r.cmd.op = "probe" /\ resp.cs # ScsExUl)
             THEN End(FALSE, <<>>)
             ELSE CASE r.cmd.op = "dict-dl" -> End(TRUE, <<>>)
                    [] r.cmd.op = "dict-ul" -> End(TRUE, Printed(t, val))
                    [] OTHER -> ProbeRead(r, Value(t, val))]
  /\ UNCHANGED <<net, od, given, typed, fails>>

(***************************************************************************)
(* Commands of one step: send_frame on every interface, whose failures are *)
(* reported and forgotten; nmt.                                            *)
(***************************************************************************)
\* The word of a sequence of bytes stored over junk.
BytesOf(d) ==
  LET w[k \in 0 .. Len(d)] == IF k = 0 THEN 0 ELSE w[k - 1] + d[k] * Byte^(k - 1)
  IN Store(w[Len(d)], Len(d))

\* The frames a command may send.  cmd_ul_resp and cmd_dl_resp never set the
\* data_type of the message, so that it is any; one without a width is an error.
SdoResponse(c, t) ==
  [node |-> strtoul(c.node), ix |-> c.ix, type |-> t, data |-> BytesOf(c.data),
   cs |-> IF c.op = "dl-resp" THEN ScsExDl ELSE ScsExUl]

Other(func, n) == [func |-> func, node |-> n, dlc |-> 2, cs |-> 0, s |-> 0, n |-> 0,
                   ix |-> 0, bytes |-> 0]

FramesOf(c) ==
  CASE c.op \in {"ul-resp", "dl-resp"} ->
         {canmat_sdo2can(SdoResponse(c, t), TRUE) : t \in DOMAIN Width}
    [] c.op = "nmt"  -> {Other("nmt", strtoul(c.node))}
    [] c.op = "send" -> {c.frame}

\* The handles of process r in terminal p that are not in failed.
Handles(r, p, failed) == {<<r.bus[i], <<p, i>>>> : i \in DOMAIN r.bus \ failed}

\* A request sent as bytes means the number they are in the node's object.
SendFrame(p) ==
  /\ run[p].pc = "once"
  /\ \E f \in FramesOf(run[p].cmd), failed \in SUBSET DOMAIN run[p].bus :
       /\ fails + Cardinality(failed) <= MaxFails
       /\ fails' = fails + Cardinality(failed)
       /\ LET sent == Handles(run[p], p, failed)
              hit  == IF f.func \in {"sdo_tx", "sdo_rx"}
                      THEN UNION {Accessing(s[1], f.node) : s \in sent} ELSE {}
              ok   == run[p].cmd.op = "nmt" => failed = {}
          IN /\ run' = [Disturb(Deliver(run, f, sent), hit) EXCEPT ![p] = End(ok, <<>>)]
             /\ net' = Requested(f, Value(ObjType[f.ix], f.bytes), sent)
  /\ UNCHANGED <<od, given, typed>>

\* cmd_ul_resp, when what data_type holds is not a type canmat_sdo2can knows
SendNoFrame(p) ==
  /\ run[p].pc = "once" /\ run[p].cmd.op = "ul-resp"
  /\ run' = [run EXCEPT ![p] = End(FALSE, <<>>)]
  /\ UNCHANGED <<net, od, given, typed, fails>>

(***************************************************************************)
(* dump and display: cmd_pollin, with one printer or the other (Display).  *)
(***************************************************************************)
\* pollin_raw, pollin_display
Printer(c, f) == IF c.op = "display" THEN canmat_display(f) ELSE f

\* Mutant: the name of the first interface is printed.
Pollin1First(r, i) ==
  [r EXCEPT !.rx[i] = Tail(@), !.out = Append(@, <<1, Printer(r.cmd, Head(r.rx[i]))>>)]

\* pollin1: the frame at the head of interface i is printed, or an assertion fails.
Pollin1(r, i) ==
  IF r.cmd.op = "display" /\ DisplayAborts(Head(r.rx[i]))
  THEN End(FALSE, <<>>)
  ELSE [r EXCEPT !.rx[i] = Tail(@), !.out = Append(@, <<i, Printer(r.cmd, Head(r.rx[i]))>>)]

\* One interface: no poll, a read that blocks.
ReadOnly(p) ==
  /\ run[p].pc = "poll" /\ Len(run[p].bus) = 1 /\ run[p].rx[1] # <<>>
  /\ run' = [run EXCEPT ![p] = Pollin1(@, 1)]
  /\ UNCHANGED <<net, od, given, typed, fails>>

\* Mutant: revents is not looked at.
ReventsAll(r) == DOMAIN r.bus

\* The interfaces poll reports as readable.
Revents(r) == {i \in DOMAIN r.bus : r.rx[i] # <<>>}

Poll(p) ==
  /\ run[p].pc = "poll" /\ Len(run[p].bus) > 1
  /\ \E errs \in SUBSET DOMAIN run[p].bus :
       /\ {i \in DOMAIN run[p].bus : run[p].rx[i] # <<>>} \union errs # {}
       /\ fails + Cardinality(errs) <= MaxFails
       /\ fails' = fails + Cardinality(errs)
       /\ run' = [run EXCEPT ![p].pc = "drain", ![p].ready = Revents(run[p]), ![p].errs = errs]
  /\ UNCHANGED <<net, od, given, typed>>

\* The loop over the interfaces, at the next one that poll reported.
Drain(p) ==
  /\ run[p].pc = "drain"
  /\ \E i \in run[p].ready \union run[p].errs :
       LET reported == run[p].ready \union run[p].errs
           left == [run[p] EXCEPT !.ready = @ \ {i},
                                  !.pc = IF reported = {i} THEN "poll" ELSE "drain"]
       IN /\ \A k \in reported : i <= k
          /\ \/ i \in run[p].errs /\ run' = [run EXCEPT ![p] = End(FALSE, <<>>)]
             \/ /\ i \notin run[p].errs /\ run[p].rx[i] # <<>>
                /\ run' = [run EXCEPT ![p] = Pollin1(left, i)]
  /\ UNCHANGED <<net, od, given, typed, fails>>

(***************************************************************************)
(* Failures and the user's ^C.                                             *)
(***************************************************************************)
IfaceFails(p) ==
  /\ \/ run[p].pc \in {"send", "recv"}
     \/ run[p].pc = "poll" /\ Len(run[p].bus) = 1
  /\ fails < MaxFails /\ fails' = fails + 1
  /\ run' = [run EXCEPT ![p] = End(FALSE, <<>>)]
  /\ UNCHANGED <<net, od, given, typed>>

Interrupt(p) ==
  /\ run[p].pc \in {"recv", "poll"}
  /\ run' = [run EXCEPT ![p] = End(FALSE, <<>>)]
  /\ UNCHANGED <<net, od, given, typed, fails>>

(***************************************************************************)
(* A node (external) serves the request at the head.  It aborts when it    *)
(* has no such object, when the data has another length, and when the      *)
(* object is not one to be written.                                        *)
(***************************************************************************)
Answer(b, n, f, cs, w, len) ==
  [func |-> "sdo_tx", node |-> n, cs |-> cs, ix |-> f.ix, bytes |-> w,
   s |-> IF cs = ScsExUl /\ b \in Sized THEN 1 ELSE 0,
   n |-> IF cs = ScsExUl /\ b \in Sized THEN 4 - len ELSE 0,
   dlc |-> IF cs = ScsExUl /\ b \notin Sized THEN 4 + len ELSE 8]

Serve(b, n) ==
  /\ net[b][n] # <<>>
  /\ net' = [net EXCEPT ![b][n] = Tail(@)]
  /\ LET f     == Head(net[b][n]).frame
         known == f.ix \in DOMAIN od[b][n]
         len   == IF known THEN Width[ObjType[f.ix]] ELSE 0
         write == f.cs = CcsExDl /\ known /\ (4 - f.n) * f.s = len /\ f.ix \notin Fixed[b]
         answer == IF write THEN Answer(b, n, f, ScsExDl, 0, 0)
                   ELSE IF f.cs = CcsExUl /\ known
                        THEN Answer(b, n, f, ScsExUl, od[b][n][f.ix], len)
                   ELSE Answer(b, n, f, CsAbort, 0, 4)
     IN /\ od' = IF write THEN [od EXCEPT ![b][n][f.ix] = Low(f.bytes, len)] ELSE od
        /\ given' = IF write THEN [given EXCEPT ![b][n][f.ix] = Head(net[b][n]).number]
                    ELSE given
        /\ run' = Deliver(run, answer, {<<b, Nobody>>})
  /\ UNCHANGED <<typed, fails>>

(***************************************************************************)
(* The specification.                                                      *)
(***************************************************************************)
Init ==
  /\ run = [p \in Proc |-> Idle]
  /\ net = [b \in Bus |-> [n \in Present[b] |-> <<>>]]
  /\ given = Initial
  /\ od = [b \in Bus |-> [n \in Present[b] |->
             [ix \in DOMAIN Initial[b][n] |-> Low(Initial[b][n][ix], Width[ObjType[ix]])]]]
  /\ typed = 0 /\ fails = 0

Dump(p) == ReadOnly(p) \/ Poll(p) \/ Drain(p)

Next ==
  \/ \E p \in Proc :
       \/ \E c \in Commands[p] : Start(p, c)
       \/ SendRequest(p) \/ SkipFrame(p) \/ RecvResponse(p)
       \/ SendFrame(p) \/ SendNoFrame(p) \/ Dump(p)
       \/ IfaceFails(p) \/ Interrupt(p)
  \/ \E b \in Bus : \E n \in Present[b] : Serve(b, n)

Spec == Init /\ [][Next]_vars

\* A process that can run is scheduled.
FairSpec == Spec /\ \A p \in Proc : WF_vars(Dump(p))

(***************************************************************************)
(* Properties.                                                             *)
(***************************************************************************)
\* Process p had the node to itself and has just ended its command by an answer.
Concludes(p, op) ==
  RecvResponse(p) /\ run[p].cmd.op = op /\ run[p].alone /\ run'[p].pc = "ended"

\* A dict-ul that succeeds prints the number that was last given to a dict-dl for
\* that object, as strtol or strtoul read it, for every type and at both ends of its
\* range (canmat_typed_parse, canmat_sdo2can, canmat_can2sdo, canmat_obj_print): no
\* step of the way cuts, extends or reorders a byte, and what does not fit is not sent.
DictRoundTrip ==
  [][\A p \in Proc : Concludes(p, "dict-ul") =>
       LET c == run[p].cmd
           o == Dictionary[c.name]
       IN run'[p].ok => run'[p].out = IF o.type \in Signed \union Unsigned
                                      THEN <<given[Target(c)[1]][Target(c)[2]][o.ix]>>
                                      ELSE <<>>]_vars

\* What the shell is told of a dict-dl is what happened (cmd_dict_dl): status 0
\* means that the node's object is the number in the text, whole and with its sign,
\* as strtol or strtoul read it; failure by an answer of the node that the object is
\* as before.
DownloadExit ==
  [][\A p \in Proc : Concludes(p, "dict-dl") =>
       LET c == run[p].cmd
           o == Dictionary[c.name]
           objects == od[Target(c)[1]][Target(c)[2]]
       IN IF run'[p].ok
          THEN o.ix \in DOMAIN objects /\ Value(o.type, objects[o.ix]) = Meant(o.type, c.text)
          ELSE o.ix \in DOMAIN objects => objects[o.ix] = run[p].before]_vars

\* The lines a display has shown of the SDO frames of node n on its interface i.
SdoLines(r, i, n) ==
  LET about(line) == line[1] = i /\ line[2].kind \in {"sdo", "bad sdo"} /\ line[2].node = n
  IN SelectSeq(r.out, about)

\* A display that has shown an access of another process shows its request and its
\* answer, one after the other, under the name of the object, and what it shows is
\* what that process was told: the number it asked for, the number it printed, and an
\* abort or a bad frame just when the process failed (display.c, canmat_obj_print).
DisplayTellsAccess ==
  [][\A p \in Proc : Concludes(p, "dict-dl") \/ Concludes(p, "dict-ul") =>
       LET c == run[p].cmd
           b == Target(c)[1]
           number == Dictionary[c.name].type \in Signed \union Unsigned
       IN \A q \in {q \in Proc : run[q].cmd.op = "display"} : \A i \in DOMAIN run[q].bus :
            LET lines == SdoLines(run[q], i, Target(c)[2])
                request == lines[Len(lines) - 1][2]
                answer == lines[Len(lines)][2]
            IN (run[q].bus[i] = b /\ run[q].rx[i] = <<>> /\ Len(lines) >= 2) =>
                 /\ request.kind = "sdo" /\ ~request.isTx /\ request.name = c.name
                 /\ c.op = "dict-dl" => request.data = <<Asked(c)>>
                 /\ run'[p].ok <=> (answer.kind = "sdo" /\ answer.cs # CsAbort)
                 /\ run'[p].ok => answer.isTx /\ answer.name = c.name
                 /\ run'[p].ok /\ number => answer.data = run'[p].out]_vars

\* The lines of the PDOs of a node.
PdoLines(objects, i) ==
  LET com == ComBase + i
      map == MapBase + i
      size == objects[Key(com, 0)]
      entry(j) == objects[Key(map, j)]
  IN IF Key(com, 0) \notin DOMAIN objects THEN <<>>
     ELSE << <<i, "com", size>> >>
          \o (IF size >= 1 THEN << <<i, "cob", objects[Key(com, 1)]>> >> ELSE <<>>)
          \o (IF size >= 2 THEN << <<i, "trans", objects[Key(com, 2)]>> >> ELSE <<>>)
          \o << <<i, "map", objects[Key(map, 0)]>> >>
          \o [j \in 1 .. objects[Key(map, 0)] |->
                <<i, "entry", canmat_dict_search_index(entry(j) \div Byte), entry(j) % Byte>>]

\* The PDOs of a node have the parameters they say they have.
Complete(objects) ==
  \A i \in 0 .. PdoMax - 1 : Key(ComBase + i, 0) \in DOMAIN objects =>
    LET com == ComBase + i
        map == MapBase + i
    IN /\ \A j \in 1 .. objects[Key(com, 0)] : Key(com, j) \in DOMAIN objects
       /\ Key(map, 0) \in DOMAIN objects
       /\ \A j \in 1 .. objects[Key(map, 0)] : Key(map, j) \in DOMAIN objects

\* A probe succeeds just when the PDOs of the node are complete, and then lists each
\* PDO the node has, in order, also after ones it has not, with its parameters and all
\* objects mapped to it (canmat_probe_pdo: two loops, an abort that means "go on" and
\* others that do not).
ProbeListsPdos ==
  [][\A p \in Proc : Concludes(p, "probe") =>
       LET objects == od[Target(run[p].cmd)[1]][Target(run[p].cmd)[2]]
       IN /\ run'[p].ok <=> Complete(objects)
          /\ run'[p].ok =>
               run'[p].out = FlattenSeq([k \in 1 .. PdoMax |-> PdoLines(objects, k - 1)])]_vars

\* The lines printed of interface i: as many as frames are no longer waiting, each the
\* line of its frame.
PrintedLines(r, i) ==
  LET lines == {k \in DOMAIN r.out : r.out[k][1] = i}
      shown == Len(r.arrived[i]) - Len(r.rx[i])
  IN /\ r.rx[i] = SubSeq(r.arrived[i], shown + 1, Len(r.arrived[i]))
     /\ Cardinality(lines) = shown
     /\ \A k \in lines : LET n == Cardinality({j \in lines : j <= k})
                        IN r.out[k][2] = Printer(r.cmd, r.arrived[i][n])

\* What a dump or display has printed of an interface is what it shows of the frames
\* the interface received, in order, up to those that wait there: no frame is lost,
\* repeated or attributed to another interface while several of them have frames
\* (cmd_pollin, pollin1).
DumpFaithful ==
  \A p \in Proc : run[p].pc \in {"poll", "drain"} =>
    \A i \in DOMAIN run[p].bus : PrintedLines(run[p], i)

\* A dump never leaves an interface unread for good: whatever waits is printed, as
\* long as the dump runs, also when other interfaces are silent (cmd_pollin reads
\* only where poll reported data, and would block elsewhere).  Traffic ends here, so
\* that nothing is said of an interface beside one with endless traffic.
DumpKeepsUp ==
  \A p \in Proc :
    (run[p].pc \in {"poll", "drain"} /\ \E i \in DOMAIN run[p].rx : run[p].rx[i] # <<>>)
      ~> (run[p].pc = "ended" \/ \A i \in DOMAIN run[p].rx : run[p].rx[i] = <<>>)
=============================================================================
