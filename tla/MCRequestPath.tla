--------------------------- MODULE MCRequestPath ---------------------------
(* Calls of different shapes in pairs, with and without failures.          *)
EXTENDS RequestPath

Plain == [n |-> 1, chunks |-> 0, raw |-> FALSE, stop |-> 0]
Raw == [Plain EXCEPT !.raw = TRUE]
Stopped == [Plain EXCEPT !.stop = 1]
Fanout == [Raw EXCEPT !.n = 2]
Stream(chunks) == [Plain EXCEPT !.chunks = chunks]

Limits(cap, tokens, slice, maxCrashes, maxFaults) ==
    [cap |-> cap, tokens |-> tokens, slice |-> slice, crashes |-> maxCrashes,
     faults |-> maxFaults]

With(calls, l) == [calls |-> calls, cap |-> l.cap, tokens |-> l.tokens, slice |-> l.slice,
                   crashes |-> l.crashes, faults |-> l.faults]

\* A stop string found in the first of two slices beside a plain call; two stopped
\* requests of one call whose slices, or what follows them, fail; calls competing
\* for one place while the engine dies or a task of the front end fails; a fan-out
\* beside a plain call, and alone when its children fail; sessions whose input or
\* engine fails, alone and beside a call that takes their place
MCSetups ==
    {With([a |-> Stopped, b |-> Plain], Limits(2, 2, 1, 0, 0)),
     With([a |-> [Stopped EXCEPT !.n = 2]], Limits(2, 2, 1, 0, 1)),
     With([a |-> Raw, b |-> Plain], Limits(1, 1, 1, 1, 1)),
     With([a |-> Fanout, b |-> Plain], Limits(2, 1, 2, 0, 0)),
     With([a |-> Fanout], Limits(2, 1, 2, 0, 1)),
     With([a |-> Stream(2)], Limits(1, 2, 1, 0, 0)),
     With([a |-> Stream(2)], Limits(1, 1, 1, 1, 1)),
     With([a |-> Stream(1), b |-> Plain], Limits(1, 1, 1, 0, 1))}
=============================================================================
