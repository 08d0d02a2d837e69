----------------------------- MODULE MCTaskLoop -----------------------------
\* Model-checking instance of TaskLoop.
EXTENDS TaskLoop, TLC

AllGrants == {"NO_CONTINUATION", "ATTENDED", "AUTOMATIC_RESUME_ONLY"}
AttendedOnly == {"ATTENDED"}

\* One flag, or none; the quota flag with and without the operator's statement
\* that the quota is back; the two pairs that concern different parked states.
OneFlag == {{}, {"remediate"}, {"repair"}, {"decide"}, {"quota"}, {"quota", "restored"}}
MixedFlags == OneFlag \cup {{"remediate", "decide"}, {"repair", "decide"}, {"remediate", "quota"}}

NoEdits == {}
AllEdits == {"repair", "dirty", "commit"}
=============================================================================
