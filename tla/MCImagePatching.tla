--------------------------- MODULE MCImagePatching ---------------------------
(***************************************************************************)
(* Four pull requests: two meet in one file and one of them brings a        *)
(* migration, the others patch a gem, one of them its gemspec.  Three runs  *)
(* meet what the ones before them left behind.  Images are built in         *)
(* behaviours of their own, for the two scripts share no state.             *)
(***************************************************************************)
EXTENDS ImagePatchingProps, ImageBuild, TLC

MCPR == {"a", "b", "c", "d"}
MCFile == {"lib", "conf", "spec", "migrate", "log", "glue", "old", "gemspec"}
MCBaseOf == [p \in MCPR |-> IF p \in {"a", "b"} THEN "foreman" ELSE "gem"]
MCFilesIn == [b \in {"foreman", "gem"} |->
    IF b = "foreman" THEN {"lib", "conf", "spec", "migrate", "log"} ELSE {"glue", "old", "gemspec"}]
MCAdds == [p \in MCPR |->
    CASE p = "a" -> {"lib", "migrate", "spec"} [] p = "b" -> {"lib", "conf", "log"}
      [] p = "c" -> {"glue"} [] p = "d" -> {"glue", "gemspec"}]
MCRemoves == [p \in MCPR |-> IF p = "c" THEN {"old"} ELSE {}]

Args(t, units, name, prs, flags) ==
    [tag |-> t, units |-> units, dropin |-> name, prs |-> prs,
     whole |-> "whole" \in flags, perFile |-> "perFile" \in flags, force |-> "force" \in flags,
     dry |-> "dry" \in flags, restart |-> "wait" \notin flags, root |-> "user" \notin flags]

\* As the role calls the script for one container, as its examples do, and the
\* mistakes: no --force, no root, a unit without a .container file.
MCRequests ==
    {Args("t1", {"foreman"}, "10", prs, flags) :
        prs \in {<<"a", "b">>, <<"b", "c">>}, flags \in {{"force"}, {"whole", "force"}, {"force", "dry"}}}
    \cup {Args("t2", {"foreman", "dynflow"}, "10", <<"b">>, flags) : flags \in {{}, {"whole"}, {"wait"}}}
    \cup {Args("t2", {"foreman"}, "11", <<p>>, flags) :
            p \in {"b", "c"}, flags \in {{"perFile"}, {"perFile", "whole", "wait"}}}
    \cup {Args("t2", {"foreman"}, "11", <<"d">>, {}), Args("t1", {"foreman"}, "11", <<"a">>, {"user", "force"}),
          Args("t2", {"proxy"}, "11", <<"c">>, {})}

\* Builds: a gem that depends on "faraday" and "rest", and pull requests that
\* bump, add and drop dependencies, on top of each other too.
MCGem == {"faraday", "faraday-multipart", "rest", "typhoeus"}
MCLonger == [g \in MCGem |-> IF g = "faraday" THEN {"faraday-multipart"} ELSE {}]
MCBaseSpec == [g \in MCGem |-> IF g \in {"faraday", "rest"} THEN 2 ELSE 0]
MCNone == [g \in MCGem |-> <<0, 0>>]
MCPull == {"bump", "add", "raise", "drop", "retake", "plain", "multi"}
MCChange == [p \in MCPull |->
    CASE p = "bump" -> [MCNone EXCEPT !["faraday"] = <<2, 3>>]
      [] p = "add" -> [MCNone EXCEPT !["typhoeus"] = <<0, 2>>]
      [] p = "raise" -> [MCNone EXCEPT !["typhoeus"] = <<2, 3>>]
      [] p = "drop" -> [MCNone EXCEPT !["rest"] = <<2, 0>>]
      [] p = "retake" -> [MCNone EXCEPT !["rest"] = <<0, 3>>]
      [] p = "plain" -> [MCNone EXCEPT !["rest"] = <<2, 1>>]
      [] p = "multi" -> [MCNone EXCEPT !["faraday"] = <<2, 0>>, !["faraday-multipart"] = <<0, 2>>]]

MCInit == Init /\ BuildInit
MCNext ==
    \/ step = "idle" /\ Next /\ UNCHANGED buildVars
    \/ runs = 0 /\ BuildNext /\ UNCHANGED vars
MCSpec == MCInit /\ [][MCNext]_<<vars, buildVars>>

\* The role: the containers one after the other, all with the default tag, and nothing fails.
RoleRequests ==
    {Args("t1", {u}, "10", IF u = "foreman" THEN <<"a">> ELSE <<"c">>, {"whole", "force"}) :
        u \in {"foreman", "dynflow"}}
RoleNext ==
    \/ Collect \/ Extract \/ Apply \/ Manifest \/ Migrate \/ WriteDropin \/ Restart
    \/ \E r \in RoleRequests : Begin(r)
RoleSpec == MCInit /\ [][RoleNext /\ UNCHANGED buildVars]_<<vars, buildVars>>
=============================================================================
