SPECIFICATION ClientSpec
INVARIANT ConnectedIsTrue
