--------------------------- MODULE MCTreeHandles ---------------------------
EXTENDS TreeHandles

MCObjects == {"a", "b"}
MCSentinels == {"s1", "s2", "s3"}
=============================================================================
