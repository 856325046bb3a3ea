---------------------------- MODULE MCGeneration ----------------------------
\* Profiles 1 (default) and 2; two generations that can be used, one that
\* cannot, and an operator who edits the shipped profile.
EXTENDS Generation

Yaml(n) == <<n, "profile.yaml">>
Page(n) == <<n, "captcha.html">>
MCShipped == [p \in {Yaml(1)} |-> "r"]
MCPlain == [rev |-> 1, level |-> "warn", files |-> [p \in {Yaml(1)} |-> "r"]]
MCPaged == [rev |-> 3, level |-> None,
            files |-> [p \in {Yaml(1), Page(1)} |-> "s"]]
MCBroken == [rev |-> 2, level |-> None,
             files |-> [p \in {Yaml(1), Page(1), Yaml(2)} |->
                         IF p = Yaml(1) THEN "r" ELSE Bad]]
MCGenerations == {MCPlain, MCBroken, MCPaged}
MCEdits == {<<Yaml(1), "s">>}
=============================================================================
