--------------------------- MODULE SignalDelivery ---------------------------
(***************************************************************************)
(* What zsignal (lib/zsignal.cc) promises, without pipe, lock or loops:    *)
(* each signal caught runs at most one callback, once; the callback is one *)
(* registered for that signal, runs with the context it was registered with*)
(* and in the thread that registered it (zsignal.cc:185-186).              *)
(***************************************************************************)
EXTENDS Naturals, Sequences

CONSTANTS Threads, Sigs

VARIABLES
    regs,    \* the registrations so far: who registered a callback for what
    status,  \* what became of each signal caught
    calls    \* the callbacks run, in order

vars == <<regs, status, calls>>

Callback(n, k) == [n |-> n, cb |-> k, ctxt |-> k, on |-> regs[k].by]

Init == regs = <<>> /\ status = <<>> /\ calls = <<>>

Register(t, s) ==
    /\ regs' = Append(regs, [by |-> t, sig |-> s])
    /\ UNCHANGED <<status, calls>>

Catch(s, state) ==
    /\ status' = Append(status, [sig |-> s, state |-> state])
    /\ UNCHANGED <<regs, calls>>

Lose(n) ==
    /\ status[n].state = "pending"
    /\ status' = [status EXCEPT ![n].state = "lost"]
    /\ UNCHANGED <<regs, calls>>

Call(n, k) ==
    /\ status[n].state = "pending"
    /\ regs[k].sig = status[n].sig
    /\ status' = [status EXCEPT ![n].state = "called"]
    /\ calls' = Append(calls, Callback(n, k))
    /\ UNCHANGED regs

Next ==
    \/ \E t \in Threads, s \in Sigs : Register(t, s)
    \/ \E s \in Sigs, state \in {"pending", "lost"} : Catch(s, state)
    \/ \E n \in DOMAIN status : Lose(n)
    \/ \E n \in DOMAIN status, k \in DOMAIN regs : Call(n, k)

Spec == Init /\ [][Next]_vars
=============================================================================
