----------------------------- MODULE MCDispatch -----------------------------
(* A small pool: two keys of gemini at boot, a third that may be donated.   *)
EXTENDS Dispatch

CONSTANTS openai, anthropic, gemini, deepseek, n1, n2, n3, w1, m1, m2

MCHome == [n \in Nodes |-> gemini]
MCGrant == [n \in Nodes |-> IF n = n1 THEN 2 ELSE 1]
MCFirstRows == [p \in Providers |-> IF p = gemini THEN <<n1, n2>> ELSE <<>>]
MCKeyHeader ==
  [p \in Providers |-> CASE p = anthropic -> "x-api-key"
                         [] p = gemini -> "x-goog-api-key"
                         [] OTHER -> "authorization"]

ClientChat(p) ==
  [who |-> NoUser, remote |-> FALSE, prov |-> p, chat |-> TRUE, est |-> 1,
   carries |-> {"authorization"}]
PeerPrompt(n) ==
  [who |-> w1, remote |-> TRUE, prov |-> gemini, chat |-> FALSE, est |-> n,
   carries |-> {}]

\* A client of gemini, the configured key of which travels in a header of its
\* own and a pool key in Authorization; and a peer that states any estimate.
MCTraffic == {ClientChat(gemini)} \cup {PeerPrompt(n) : n \in {-1, 1}}
\* Clients of deepseek.
MCDeepSeek == {ClientChat(deepseek)}
=============================================================================
