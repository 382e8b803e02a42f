---------------------------- MODULE MCJobServer ----------------------------
EXTENDS JobServer

CONSTANTS build, test

EchoIt == [kind |-> "echo"]
Run   == [kind |-> "exec"]
Cd(name) == [kind |-> "cd", name |-> name]

TwoJobs == {build, test}

MCDirs == {"/", "/src", "/src/sub", "/tmp", "/tmp/sub"}

\* /src and /tmp are absolute names; sub is looked up where one is.
MCLookup == [p \in MCDirs \X {"/src", "/tmp", "sub"} |->
               CASE p[2] # "sub" -> p[2]
                 [] p[2] = "sub" /\ p[1] = "/src" -> "/src/sub"
                 [] p[2] = "sub" /\ p[1] = "/tmp" -> "/tmp/sub"
                 [] OTHER -> "missing"]

MCStart == [j \in TwoJobs |-> IF j = build THEN "/src" ELSE "/tmp"]

AbsoluteNames == [j \in TwoJobs |-> IF j = build THEN <<Run, Cd("/tmp"), EchoIt>>
                                    ELSE <<Cd("/src"), Run>>]

RelativeNames == [j \in TwoJobs |-> IF j = build THEN <<Run, Cd("sub"), Run>>
                                    ELSE <<EchoIt, Run>>]

CdFirst == [j \in TwoJobs |-> <<Cd("/src"), Run>>]
=============================================================================
