\* One bridge of three interfaces, every configuration validate_draft_bridge
\* accepts: is a datagram ever received or sent on a direction configured
\* as none?
CONSTANT N = 3
SPECIFICATION Spec
INVARIANT ForwardsOnlyConfigured
