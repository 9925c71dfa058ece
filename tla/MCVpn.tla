------------------------------- MODULE MCVpn --------------------------------
(***************************************************************************)
(* The userspace OpenVPN client in one run: the reliable layer of its      *)
(* control channel, the keys and their renegotiations, the task that       *)
(* drives the session, a stream over the tunnel's own TCP stack, the       *)
(* ports streams share, and the window that refuses replayed packets.      *)
(* Each is modelled against what its neighbours may do, so a behaviour is  *)
(* one of one of them: `part` is fixed at the start, and the variables     *)
(* the other modules have and this one has not stay as they are.           *)
(***************************************************************************)
EXTENDS Reliable, TLC

CONSTANTS Ids, Lag, MaxGen, Firsts, Laters,                        \* VpnKeys
          ConnectTimeout, IdlePoll, Cap, PushInterval, PushTimeout,
          Pushes, DefaultRestart, ChannelWakes,                    \* VpnDriver
          Depth,                                                   \* and TunnelStream
          StreamWindow, MaxWritten, MaxSent,                       \* TunnelStream
          Conns, Ports, Lived, Remembered, QueueDepth,             \* TunnelMux
          ReplaySpan, LastId, LastClock                            \* ReplayWindow

\* The values of Vpn.cfg that a configuration cannot write.
TwoRepliesOrRefused == {<<"reset", "flight", "keys", "info", "info", "push">>,
                        <<"reset", "flight", "refused">>}
KeysAfterInfo == {<<"reset", "flight", "info", "keys", "push">>}
PushesOrSilence == {[ping |-> 3, restart |-> 5, disabled |-> FALSE],
                    [ping |-> 99, restart |-> 99, disabled |-> FALSE],
                    [ping |-> 99, restart |-> 99, disabled |-> TRUE]}

VARIABLES part,
          client, asked, script, said, peerGen, peerKeys, tried, task, ages,
          caller, ready, failure, queues, pump, stacks, loop, sock, progress,
          toStack, toCaller, reading, peer, cursor, routes, conn, port, inbox,
          link, wire, recent, left, long, sender, window, sent, accepted, repeated,
          refused

suiteVars == <<part, vars,
          client, asked, script, said, peerGen, peerKeys, tried, task, ages,
          caller, ready, failure, queues, pump, stacks, loop, sock, progress,
          toStack, toCaller, reading, peer, cursor, routes, conn, port, inbox,
          link, wire, recent, left, long, sender, window, sent, accepted, repeated,
          refused>>

Keys == INSTANCE VpnKeys
Driver == INSTANCE VpnDriver
Stream == INSTANCE TunnelStream
    WITH Window <- StreamWindow
Mux == INSTANCE TunnelMux
Replay == INSTANCE ReplayWindow
    WITH Window <- ReplaySpan

ASSUME KeysOk == Keys!KeysAssumption
ASSUME DriverOk == Driver!DriverAssumption
ASSUME StreamOk == Stream!StreamAssumption
ASSUME MuxOk == Mux!MuxAssumption
ASSUME ReplayOk == Replay!ReplayAssumption

\* The variables a part does not have.
Off == "-"

\* Reliable where it is not the part.
IdleReliable == Init

SuiteInit ==
    \/ /\ part = "reliable" /\ Init
       /\ client = Off /\ asked = Off /\ script = Off /\ said = Off
       /\ peerGen = Off /\ peerKeys = Off /\ tried = Off /\ task = Off
       /\ ages = Off /\ caller = Off /\ ready = Off /\ failure = Off
       /\ queues = Off /\ pump = Off /\ stacks = Off /\ loop = Off
       /\ sock = Off /\ progress = Off /\ toStack = Off /\ toCaller = Off
       /\ reading = Off /\ peer = Off /\ cursor = Off /\ routes = Off
       /\ conn = Off /\ port = Off /\ inbox = Off /\ link = Off /\ wire = Off
       /\ recent = Off /\ left = Off /\ long = Off /\ sender = Off /\ window = Off /\ sent = Off
       /\ accepted = Off /\ repeated = Off /\ refused = Off
    \/ /\ part = "keys" /\ Keys!Init /\ IdleReliable
       /\ task = Off /\ ages = Off /\ caller = Off /\ ready = Off
       /\ failure = Off /\ queues = Off /\ pump = Off /\ stacks = Off
       /\ loop = Off /\ sock = Off /\ progress = Off /\ toStack = Off
       /\ toCaller = Off /\ reading = Off /\ peer = Off /\ cursor = Off
       /\ routes = Off /\ conn = Off /\ port = Off /\ inbox = Off
       /\ link = Off /\ wire = Off /\ recent = Off /\ left = Off /\ long = Off /\ sender = Off
       /\ window = Off /\ sent = Off /\ accepted = Off /\ repeated = Off
       /\ refused = Off
    \/ /\ part = "driver" /\ Driver!Init /\ IdleReliable
       /\ client = Off /\ asked = Off /\ script = Off /\ said = Off
       /\ peerGen = Off /\ peerKeys = Off /\ tried = Off /\ loop = Off
       /\ sock = Off /\ progress = Off /\ toStack = Off /\ toCaller = Off
       /\ reading = Off /\ peer = Off /\ cursor = Off /\ routes = Off
       /\ conn = Off /\ port = Off /\ inbox = Off /\ link = Off /\ wire = Off
       /\ recent = Off /\ left = Off /\ long = Off /\ sender = Off /\ window = Off /\ sent = Off
       /\ accepted = Off /\ repeated = Off /\ refused = Off
    \/ /\ part = "stream" /\ Stream!Init /\ IdleReliable
       /\ client = Off /\ asked = Off /\ script = Off /\ said = Off
       /\ peerGen = Off /\ peerKeys = Off /\ tried = Off /\ task = Off
       /\ ages = Off /\ ready = Off /\ failure = Off /\ queues = Off
       /\ pump = Off /\ stacks = Off /\ cursor = Off /\ routes = Off
       /\ conn = Off /\ port = Off /\ inbox = Off /\ link = Off /\ wire = Off
       /\ recent = Off /\ left = Off /\ long = Off /\ sender = Off /\ window = Off /\ sent = Off
       /\ accepted = Off /\ repeated = Off /\ refused = Off
    \/ /\ part = "mux" /\ Mux!Init /\ IdleReliable
       /\ client = Off /\ asked = Off /\ script = Off /\ said = Off
       /\ peerGen = Off /\ peerKeys = Off /\ tried = Off /\ task = Off
       /\ ages = Off /\ caller = Off /\ ready = Off /\ failure = Off
       /\ queues = Off /\ pump = Off /\ stacks = Off /\ loop = Off
       /\ sock = Off /\ progress = Off /\ toStack = Off /\ toCaller = Off
       /\ reading = Off /\ peer = Off /\ sender = Off /\ window = Off
       /\ sent = Off /\ accepted = Off /\ repeated = Off /\ refused = Off
    \/ /\ part = "replay" /\ Replay!Init /\ IdleReliable
       /\ client = Off /\ asked = Off /\ script = Off /\ said = Off
       /\ peerGen = Off /\ peerKeys = Off /\ tried = Off /\ task = Off
       /\ ages = Off /\ caller = Off /\ ready = Off /\ failure = Off
       /\ queues = Off /\ pump = Off /\ stacks = Off /\ loop = Off
       /\ sock = Off /\ progress = Off /\ toStack = Off /\ toCaller = Off
       /\ reading = Off /\ peer = Off /\ cursor = Off /\ routes = Off
       /\ conn = Off /\ port = Off /\ inbox = Off /\ link = Off /\ wire = Off
       /\ recent = Off /\ left = Off /\ long = Off

OnlyReliable ==
    /\ part = "reliable"
    /\ UNCHANGED <<part, client, asked, script, said, peerGen, peerKeys, tried,
                  task, ages, caller, ready, failure, queues, pump, stacks,
                  loop, sock, progress, toStack, toCaller, reading, peer,
                  cursor, routes, conn, port, inbox, link, wire, recent, left, long,
                  sender, window, sent, accepted, repeated, refused>>
OnlyKeys ==
    /\ part = "keys"
    /\ UNCHANGED <<part, vars, task, ages, caller, ready, failure, queues,
                  pump, stacks, loop, sock, progress, toStack, toCaller,
                  reading, peer, cursor, routes, conn, port, inbox, link,
                  wire, recent, left, long, sender, window, sent, accepted, repeated,
                  refused>>
OnlyDriver ==
    /\ part = "driver"
    /\ UNCHANGED <<part, vars, client, asked, script, said, peerGen, peerKeys,
                  tried, loop, sock, progress, toStack, toCaller, reading,
                  peer, cursor, routes, conn, port, inbox, link, wire, recent, left, long,
                  sender, window, sent, accepted, repeated, refused>>
OnlyStream ==
    /\ part = "stream"
    /\ UNCHANGED <<part, vars, client, asked, script, said, peerGen, peerKeys,
                  tried, task, ages, ready, failure, queues, pump, stacks,
                  cursor, routes, conn, port, inbox, link, wire, recent, left, long,
                  sender, window, sent, accepted, repeated, refused>>
OnlyMux ==
    /\ part = "mux"
    /\ UNCHANGED <<part, vars, client, asked, script, said, peerGen, peerKeys,
                  tried, task, ages, caller, ready, failure, queues, pump,
                  stacks, loop, sock, progress, toStack, toCaller, reading,
                  peer, sender, window, sent, accepted, repeated, refused>>
OnlyReplay ==
    /\ part = "replay"
    /\ UNCHANGED <<part, vars, client, asked, script, said, peerGen, peerKeys,
                  tried, task, ages, caller, ready, failure, queues, pump,
                  stacks, loop, sock, progress, toStack, toCaller, reading,
                  peer, cursor, routes, conn, port, inbox, link, wire, recent, left, long>>

SuiteNext ==
    \/ OnlyReliable /\ Next
    \/ OnlyKeys /\ Keys!Next
    \/ OnlyDriver /\ Driver!Next
    \/ OnlyStream /\ Stream!Next
    \/ OnlyMux /\ Mux!Next
    \/ OnlyReplay /\ Replay!Next

SuiteSpec == SuiteInit /\ [][SuiteNext]_suiteVars

-----------------------------------------------------------------------------
(* Each part's properties, in the states of that part; Reliable's own are listed by
   their names there. *)

\* VpnKeys!NeverMisrouted, TunnelInStep and Moves: data is never decrypted with
\* another generation's keys, the tunnel is handed the keys both ends have, and what
\* was abandoned stays so, whatever of the peer's last generations arrives late.
KeysInStep ==
    /\ [](part = "keys" => Keys!TypeOK /\ Keys!NeverMisrouted /\ Keys!TunnelInStep)
    /\ [][part = "keys" => Keys!Moves]_suiteVars

\* VpnDriver!OnTime, SilenceNoticed, SilenceAllowed and EndIsExplained: the task never
\* sleeps past something that is due, a peer that has gone quiet is given up on in time
\* unless it asked not to be, and who finds the tunnel gone is told why it went.
DriverOnTime ==
    part = "driver" => /\ Driver!TypeOK /\ Driver!OnTime
                       /\ Driver!SilenceNoticed /\ Driver!SilenceAllowed
                       /\ Driver!EndIsExplained

\* TunnelStream!FlushTruthful and EofTruthful: a flush that succeeds means the peer has
\* it all, a clean end of file that the peer said goodbye or reset the connection with
\* all it sent read, and what arrived before the link's end is read before it.
StreamTruthful ==
    part = "stream" => Stream!TypeOK /\ Stream!FlushTruthful /\ Stream!EofTruthful

\* TunnelMux!PortsApart and EndReaches: no connection is opened from a port the far end
\* may still have the last one's for, nor hears that one's packets, but for the ports of
\* long-lived ones; and everyone who is up is told when the link ends.
PortsApart == part = "mux" => Mux!TypeOK /\ Mux!PortsApart /\ Mux!EndReaches

\* ReplayWindow!TakenOnce and RefusedForCause: no packet is taken twice, and none is
\* refused that was not taken before or has not fallen out of the window.
TakenOnce ==
    part = "replay" => /\ Replay!TypeOK /\ Replay!WindowIsAccepted
                       /\ Replay!TakenOnce /\ Replay!RefusedForCause
=============================================================================
