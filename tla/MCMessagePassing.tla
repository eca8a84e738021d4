-------------------------- MODULE MCMessagePassing --------------------------
(* Instances of MessagePassing for TLC. *)
EXTENDS MessagePassing, TLC

CONSTANTS a, b, r

NoCalls == {}

\* Two clients of the server r; each opens a channel and may send on one.
ToServer == {<<a, r, 0>>, <<a, r, 1>>, <<b, r, 0>>, <<b, r, 2>>}

\* The server receives from anyone or from a, on any channel.
AnyChannel == {<<r, NoProc, 0>>, <<r, a, 0>>}

\* The client asks the server and waits for its answer.
Request == {<<a, r, 0>>, <<a, r, 1>>}
Answer == {<<a, r, 0>>}

\* Two processes that send to each other, and receive from each other; one of
\* them also on a channel.
OnChannel == {<<a, b, 0>>, <<a, b, 1>>, <<b, a, 0>>}
FromChannel == {<<a, b, 0>>, <<b, a, 0>>, <<b, a, 1>>}
BothWays == {<<a, b, 0>>, <<b, a, 0>>}
Mutual == {<<a, b, 0>>, <<b, a, 0>>}
Polling == {<<a, "timeout">>, <<b, "timeout">>, <<b, "init">>, <<b, "from">>}

\* The server looks before it receives.
Looking == {r} \X CheckKinds
=============================================================================
