---- MODULE MCTrace ----
(* The instance TLC checks: a worker thread and a child, relative and       *)
(* decorated paths, a directory change, a raw git process, a git builtin.   *)
EXTENDS Trace

Call(name, file, to, git) == [name |-> name, file |-> file, to |-> to, git |-> git]

MCCalls == {
    Call("open-r", ".git", Absent, FALSE),
    Call("unlink", "f", Absent, FALSE),
    Call("chdir", Absent, "..", FALSE),
    Call("clone", Absent, Absent, FALSE),
    Call("execve", Absent, Absent, TRUE)}

MCBuiltins == {[name |-> "git add", path |-> Path("root", "f")],
               [name |-> "echo", path |-> Path("root", "f")]}
====
