----------------------------- MODULE MCServiceHost -----------------------------
(* Instances of ServiceHost: a faulty service in a process of its own, and *)
(* a process of two services, both sound or one of them faulty.            *)
EXTENDS ServiceHost

CONSTANTS a, b

Sound == <<{a, b}, {}>>
SmallProcesses == {<<{a}, {a}>>, Sound, <<{a, b}, {b}>>}
SoundOnly == {Sound}
=============================================================================
