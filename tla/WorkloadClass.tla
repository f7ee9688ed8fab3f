---------------------------- MODULE WorkloadClass ----------------------------
(***************************************************************************)
(* The classification of a request by its headers and User-Agent           *)
(* (workload_class.rs).  A User-Agent is the set of the known texts it     *)
(* contains, since a text is looked for anywhere in it; headers are those  *)
(* of the markers, by their names, that carry the value that counts.       *)
(***************************************************************************)
CI_USER_AGENTS == {"Jenkins", "GitLab-Runner"}
AGENT_USER_AGENTS == {"claude-code", "continue"}
HUMAN_BROWSER_SIGNATURES == {"Mozilla/", "Chrome/"}
OtherTexts == {"curl"}
CI_MARKER_HEADERS == {"x-ci", "github-actions-job"}
OverrideHeader == "x-gostly-workload-class: agent"
HeadlessHeader == "x-runtime: nodejs"

Texts == CI_USER_AGENTS \cup AGENT_USER_AGENTS \cup HUMAN_BROWSER_SIGNATURES \cup OtherTexts
Headers == CI_MARKER_HEADERS \cup {OverrideHeader, HeadlessHeader}

Classes == {"human", "ci", "agent", "unknown"}

IsCi(headers, ua) ==
  headers \cap CI_MARKER_HEADERS # {} \/ ua \cap CI_USER_AGENTS # {}

(* An empty User-Agent counts with the header of a headless runtime only.  *)
IsAgent(headers, ua) ==
  \/ OverrideHeader \in headers
  \/ ua \cap AGENT_USER_AGENTS # {}
  \/ ua = {} /\ HeadlessHeader \in headers

(* Variant for checking: a browser's text is looked for before the agents'. *)
InferBrowserFirst(headers, ua) ==
  IF IsCi(headers, ua) THEN "ci"
  ELSE IF ua \cap HUMAN_BROWSER_SIGNATURES # {} THEN "human"
  ELSE IF IsAgent(headers, ua) THEN "agent"
  ELSE "unknown"

(* infer_workload_class: the first that fits.                              *)
InferWorkloadClass(headers, ua) ==
  IF IsCi(headers, ua) THEN "ci"
  ELSE IF IsAgent(headers, ua) THEN "agent"
  ELSE IF ua \cap HUMAN_BROWSER_SIGNATURES # {} THEN "human"
  ELSE "unknown"
=============================================================================
